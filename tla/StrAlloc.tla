------------------------------ MODULE StrAlloc ------------------------------
(***************************************************************************)
(* 8/so21_lista_8/stralloc.c: an allocator for short strings.  An arena is *)
(* cut into blocks; the first byte of a block is its header, a signed size *)
(* that is positive for a used block and negative for a free one, and the  *)
(* last byte of the arena is a zero.  Free neighbours are meant to be      *)
(* merged while the next-fit search passes over them.                      *)
(*                                                                         *)
(* Memory is modelled byte by byte, so that a header written to the wrong  *)
(* place, or the caller's data read as a header, would show.  A step of    *)
(* the search looks at one block.  The caller is the one of test.h: it     *)
(* fills what it gets, and frees in any order.                             *)
(***************************************************************************)
EXTENDS Integers, Sequences, SequencesExt, FiniteSets

CONSTANTS
  ARENA_SIZE,   \* bytes of an arena
  HEADER,       \* sizeof(arena_t)
  MAX_LENGTH,   \* the longest string
  Fill,         \* the bytes the caller writes into its strings
  MaxArenas     \* bound on the number of arenas

ASSUME StrAllocAssumption ==
  /\ {ARENA_SIZE, HEADER, MAX_LENGTH, MaxArenas} \subseteq Nat
  /\ MAX_LENGTH \in 1 .. 126
  /\ HEADER + MAX_LENGTH + 1 < ARENA_SIZE
  /\ Fill \subseteq -128 .. 127
  /\ MaxArenas > 0

VARIABLES
  mem,          \* the bytes of every arena, in the order of their creation
  arenas,       \* the list of arenas
  cur_arena,    \* the current arena, 0 for NULL
  cur_offset,   \* where the search is, or where it stopped
  held,         \* the strings the caller holds: arena, offset, length, contents
  ar,           \* the arena that stralloc is looking at, 0 while it does not run
  len           \* the length that stralloc was called with, 0 while it does not run

strVars == <<mem, arenas, cur_arena, cur_offset, held, ar, len>>

MAX_BLKSZ == MAX_LENGTH + 1
End == ARENA_SIZE - 1
Offset == HEADER .. End
Byte == -128 .. 127

Abs(x) == IF x < 0 THEN -x ELSE x

\* A value stored in an int8_t.
Int8(x) == ((x + 128) % 256) - 128

\* init_chunk on the zeroed pages of mmap.  The blocks of full size come first, the
\* rest of the arena is one smaller block.
FullBlocks == {o \in Offset : (o - HEADER) % MAX_BLKSZ = 0 /\ o + MAX_BLKSZ < ARENA_SIZE}
LastBlock == End - ((End - HEADER) % MAX_BLKSZ)

NewChunk ==
  [o \in Offset |->
     IF o \in FullBlocks THEN -MAX_BLKSZ ELSE IF o = LastBlock THEN -(End - o) ELSE 0]

StrInit ==
  /\ mem = <<>>
  /\ arenas = <<>>
  /\ cur_arena = 0
  /\ cur_offset = 0
  /\ held = {}
  /\ ar = 0
  /\ len = 0

-----------------------------------------------------------------------------
\* Mark the block at offset o as a used one of want bytes, and what is left of size
\* bytes as a block behind it.  The mutant marks the rest as free.
SplitFree(d, o, size, want) == [d EXCEPT ![o] = want, ![o + want] = Int8(want - size)]

Split(d, o, size, want) == [d EXCEPT ![o] = want, ![o + want] = Int8(size - want)]

\* One round of the loop of alloc_block: the bytes d, the offset o of a block, and a
\* block of want bytes wanted.  found tells whether the loop ends with a result.
alloc_block(d, o, want) ==
  LET size == Abs(d[o])
      next == d[o + size]
      merged == [d EXCEPT ![o] = Int8(@ + Abs(next))]
      skip == [data |-> d, offset |-> o + size, found |-> FALSE]
  IN  CASE d[o] > 0 -> skip
        [] d[o] < 0 /\ size = want ->
             [data |-> [d EXCEPT ![o] = want], offset |-> o, found |-> TRUE]
        [] d[o] < 0 /\ size > want ->
             [data |-> Split(d, o, size, want), offset |-> o, found |-> TRUE]
        [] d[o] < 0 /\ size < want /\ next >= 0 -> skip
        [] d[o] < 0 /\ size < want /\ next < 0 /\ Abs(next) <= want - size ->
             [data |-> merged, offset |-> o + Abs(merged[o]), found |-> FALSE]
        [] OTHER ->
             [data |-> Split(merged, o, Abs(merged[o]), want), offset |-> o, found |-> TRUE]

\* The bytes that stralloc asks alloc_block for.  The mutant forgets the header.
WantedNoHeader == len

Wanted == len + 1

AtEnd == mem[ar][cur_offset] = 0

Round == alloc_block(mem[ar], cur_offset, Wanted)

-----------------------------------------------------------------------------
\* stralloc is called; the first call makes the first arena.
FirstCall ==
  /\ cur_arena = 0
  /\ mem' = <<NewChunk>>
  /\ arenas' = <<1>>
  /\ cur_arena' = 1
  /\ cur_offset' = HEADER
  /\ ar' = 1

LaterCall ==
  /\ cur_arena # 0
  /\ ar' = cur_arena
  /\ UNCHANGED <<mem, arenas, cur_arena, cur_offset>>

Call(l) ==
  /\ ar = 0
  /\ FirstCall \/ LaterCall
  /\ len' = l
  /\ UNCHANGED held

\* alloc_block goes on to the next block.
GoOn ==
  /\ ar # 0 /\ ~AtEnd /\ ~Round.found
  /\ mem' = [mem EXCEPT ![ar] = Round.data]
  /\ cur_offset' = Round.offset
  /\ UNCHANGED <<arenas, cur_arena, held, ar, len>>

\* The first arena of the list follows the last one.
Following ==
  LET place == CHOOSE j \in DOMAIN arenas : arenas[j] = ar
  IN  IF place = Len(arenas) THEN arenas[1] ELSE arenas[place + 1]

alloc_after_arena(l, a, new) == InsertAt(l, (CHOOSE j \in DOMAIN l : l[j] = a) + 1, new)

\* alloc_block has come to the end of an arena: the other arenas are searched from
\* their beginning, and then there is a new arena behind the current one.
OtherArena ==
  /\ Following # cur_arena
  /\ ar' = Following
  /\ UNCHANGED <<mem, arenas>>

\* The mutant does not link the new arena.
NewArenaUnlinked ==
  /\ Following = cur_arena
  /\ Len(mem) < MaxArenas
  /\ mem' = Append(mem, NewChunk)
  /\ ar' = Len(mem) + 1
  /\ UNCHANGED arenas

NewArena ==
  /\ Following = cur_arena
  /\ Len(mem) < MaxArenas
  /\ mem' = Append(mem, NewChunk)
  /\ arenas' = alloc_after_arena(arenas, cur_arena, Len(mem) + 1)
  /\ ar' = Len(mem) + 1

NextArena ==
  /\ ar # 0 /\ AtEnd
  /\ OtherArena \/ NewArena
  /\ cur_offset' = HEADER
  /\ UNCHANGED <<cur_arena, held, len>>

\* alloc_block has a result and stralloc returns it; the caller fills the string.
Return(b) ==
  LET o == Round.offset
  IN  /\ ar # 0 /\ ~AtEnd /\ Round.found
      /\ mem' = [mem EXCEPT ![ar] =
                   [i \in Offset |-> IF i \in o + 1 .. o + len THEN b ELSE Round.data[i]]]
      /\ cur_offset' = o
      /\ cur_arena' = ar
      /\ held' = held \cup {[arena |-> ar, offset |-> o + 1, len |-> len, byte |-> b]}
      /\ ar' = 0
      /\ len' = 0
      /\ UNCHANGED arenas

\* strfree of a string the caller holds.  That its assertions hold is part of ChainIntact.
StrFree(p) ==
  /\ ar = 0
  /\ mem' = [mem EXCEPT ![p.arena][p.offset - 1] = -@]
  /\ held' = held \ {p}
  /\ UNCHANGED <<arenas, cur_arena, cur_offset, ar, len>>

StrNext ==
  \/ \E l \in 1 .. MAX_LENGTH : Call(l)
  \/ GoOn
  \/ NextArena
  \/ \E b \in Fill : Return(b)
  \/ \E p \in held : StrFree(p)

StrSpec == StrInit /\ [][StrNext]_strVars

-----------------------------------------------------------------------------
\* The headers of the bytes d: the offsets at which the walk of strfree and
\* strmemcheck stops.
Headers(d) ==
  LET on[o \in Offset] == o = HEADER \/ \E q \in HEADER .. o - 1 : q + Abs(d[q]) = o /\ on[q]
  IN  {o \in Offset : on[o]}

StrTypeOK ==
  /\ mem \in Seq([Offset -> Byte])
  /\ Len(mem) <= MaxArenas
  /\ arenas \in Seq(DOMAIN mem)
  /\ cur_arena \in 0 .. Len(mem)
  /\ ar \in 0 .. Len(mem)
  /\ len \in 0 .. MAX_LENGTH

\* strmemcheck (stralloc.c:141-153): the headers of every arena lead to the zero in
\* its last byte, past no other zero and not beyond the end; every arena is on the list
\* once; and the place where the search is, or where the next one starts (line 11), is
\* a header of its arena, whatever has been freed, split or allocated since.  The
\* assertions of strfree (lines 124-136) hold for every string that may be freed: its
\* header is on the chain, marked as used, and as large as the string.
ChainIntact ==
  /\ StrTypeOK
  /\ \A a \in DOMAIN mem :
       /\ End \in Headers(mem[a])
       /\ \A o \in Headers(mem[a]) : o + Abs(mem[a][o]) <= End /\ (mem[a][o] = 0 <=> o = End)
  /\ ToSet(arenas) = DOMAIN mem /\ IsInjective(arenas)
  /\ cur_arena # 0 => cur_offset \in Headers(mem[IF ar = 0 THEN cur_arena ELSE ar])
  /\ \A p \in held :
       p.offset - 1 \in Headers(mem[p.arena]) /\ mem[p.arena][p.offset - 1] = p.len + 1

\* No allocation and no free changes a byte of a string that the caller holds: the
\* headers that alloc_block writes (stralloc.c:49-76) stay outside.
ContentsIntact ==
  \A p \in held : \A o \in p.offset .. p.offset + p.len - 1 : mem[p.arena][o] = p.byte

\* The branches that merge free neighbours (stralloc.c:65-77) are never entered: a
\* free block shorter than the longest request is followed by a used block or by the
\* end of the arena, as the rest of every split is marked as used (line 57).
NothingToMerge ==
  \A a \in DOMAIN mem : \A o \in Headers(mem[a]) :
    LET size == Abs(mem[a][o])
    IN  mem[a][o] < 0 /\ size < MAX_BLKSZ => mem[a][o + size] >= 0
=============================================================================
