CONSTANTS
  key1 = key1
  key2 = key2
  key3 = key3
  key4 = key4
  key5 = key5
  Key = {key1, key2, key3, key4, key5}
  Empty = Empty
  Hash <- MCHash
  Torn <- MCTorn
  TornSize = 4
  NELEMS = 6
  INSERTSORT_MAX = 1
  FORKSORT_MIN = 1
  Tables <- MCTables
  MaxLost = 1
  ARENA_SIZE = 9
  HEADER = 1
  MAX_LENGTH = 3
  Fill <- MCFill
  MaxArenas = 2
  WORD = 2
  nitems = 7
  MaxPools = 2
SPECIFICATION MCSpec
INVARIANTS KeysFound NoDuplicates OneOwner SortedWhenChecked ChainIntact ContentsIntact NothingToMerge PoolExact
PROPERTY InsertEnds
