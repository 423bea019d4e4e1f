------------------------------ MODULE MCStorage ------------------------------
(***************************************************************************)
(* Instance for TLC of the programs of lists 7 and 8 that keep a data      *)
(* structure in memory they have mapped: the hash table on disk, the table *)
(* that forksort sorts, and the two allocators.  They do not interact: the *)
(* initial state chooses which one runs.  The hashes make chains wrap      *)
(* around the end of the table, and make a table of 8 entries too small    *)
(* for keys that a table of 4 holds.  Six elements are the fewest that two *)
(* children can sort at a time; the tables are those with two values and   *)
(* some with more.                                                         *)
(***************************************************************************)
EXTENDS HashDb, ForkSort, StrAlloc, ObjPool

CONSTANTS key1, key2, key3, key4, key5

MCHash == key1 :> 3 @@ key2 :> 11 @@ key3 :> 3 @@ key4 :> 5 @@ key5 :> 0
MCTorn == [k \in Key |-> IF k = key1 THEN {key4} ELSE {}]

FromSeq(elems) == [j \in 0 .. NELEMS - 1 |-> elems[j + 1]]
MCTables ==
  [0 .. NELEMS - 1 -> {1, 2}]
    \cup {FromSeq(elems) : elems \in
            {<<1, 2, 3, 4, 5, 6>>, <<6, 5, 4, 3, 2, 1>>, <<3, 5, 1, 6, 2, 4>>, <<4, 4, 1, 3, 1, 3>>}}

MCFill == {-3}

VARIABLE program

mcVars == <<program, vars, sortVars, strVars, poolVars>>

MCInit ==
  /\ program \in {"hashdb", "forksort", "stralloc", "objpool"}
  /\ Init /\ SortInit /\ StrInit /\ PoolInit
  /\ program # "forksort" => table = FromSeq(<<1, 2, 3, 4, 5, 6>>)
  /\ program # "objpool" => TEST = TRUE

\* An action of one of the programs.
OfDb(act) == program = "hashdb" /\ act /\ UNCHANGED <<program, sortVars, strVars, poolVars>>
OfSort(act) == program = "forksort" /\ act /\ UNCHANGED <<program, vars, strVars, poolVars>>
OfStr(act) == program = "stralloc" /\ act /\ UNCHANGED <<program, vars, sortVars, poolVars>>
OfPool(act) == program = "objpool" /\ act /\ UNCHANGED <<program, vars, sortVars, strVars>>

\* main() of forksort.c has verified the table and returns.
SortEnded == at[Main] = "check" /\ UNCHANGED sortVars

\* An allocation that needs more arenas than the bound stays where it is.
StrBound == ~ENABLED StrNext /\ UNCHANGED strVars

MCNext ==
  \/ OfDb(Next)
  \/ OfSort(SortNext \/ SortEnded)
  \/ OfStr(StrNext \/ StrBound)
  \/ OfPool(PoolNext)

\* With the fairness of FairSpec in HashDb.
MCSpec == MCInit /\ [][MCNext]_mcVars /\ WF_mcVars(OfDb(Insert))
=============================================================================
