------------------------------ MODULE ForkSort ------------------------------
(***************************************************************************)
(* 7/so21_lista_7/forksort.c: quicksort of a table in shared memory.  A    *)
(* call with more than FORKSORT_MIN elements is left to a child process,   *)
(* and the caller waits for its children when both halves are called.      *)
(*                                                                         *)
(* Below FORKSORT_MIN nothing is forked, so only the outermost call of a   *)
(* process has children, and a process is a list of calls still to make.   *)
(* A forked process is named by the range of its call: a call only makes   *)
(* calls with smaller ranges.                                              *)
(***************************************************************************)
EXTENDS Integers, Sequences, FiniteSets

CONSTANTS
  NELEMS, INSERTSORT_MAX, FORKSORT_MIN,
  Tables,          \* what random() may fill the table with
  MaxLost          \* bound: forks that fail

ASSUME SortAssumption ==
  /\ NELEMS \in Nat \ {0}
  /\ INSERTSORT_MAX \in Nat \ {0} /\ FORKSORT_MIN \in Nat /\ INSERTSORT_MAX <= FORKSORT_MIN
  /\ Tables \subseteq [0 .. NELEMS - 1 -> Int]
  /\ MaxLost \in Nat

VARIABLES
  table,
  at,              \* where each process is
  todo,            \* the calls of QuickSort it has still to make
  call,            \* the call it is in: its range, the two indices and the pivot
  waits,           \* the calls of Waitpid it has to make
  parent,
  lost             \* history: the ranges whose fork has failed

sortVars == <<table, at, todo, call, waits, parent, lost>>

Index == 0 .. NELEMS - 1
Whole == <<0, NELEMS - 1>>
Ranges == {r \in Index \X Index : r[2] - r[1] > FORKSORT_MIN}
Main == <<NELEMS, NELEMS>>
Process == Ranges \cup {Main}

Enter(r) == [left |-> r[1], right |-> r[2], i |-> r[1], j |-> r[2], pivot |-> r[1], val |-> 0]

SortInit ==
  /\ table \in Tables
  /\ at = [p \in Process |-> IF p = Main THEN "call" ELSE "none"]
  /\ todo = [p \in Process |-> IF p = Main THEN <<Whole>> ELSE <<>>]
  /\ call = [p \in Process |-> Enter(Whole)]
  /\ waits = [p \in Process |-> 0]
  /\ parent = [p \in Process |-> Main]
  /\ lost = {}

Move(p, from, to) == at[p] = from /\ at' = [at EXCEPT ![p] = to]

SwapElem(t, i, j) == [t EXCEPT ![i] = t[j], ![j] = t[i]]

-----------------------------------------------------------------------------
\* A call that is left to a child.
ForkCall(p) ==
  /\ at[p] = "call" /\ todo[p] # <<>>
  /\ LET r == Head(todo[p])
     IN  /\ r[2] - r[1] > FORKSORT_MIN
         /\ at' = [at EXCEPT ![r] = "body"]
         /\ call' = [call EXCEPT ![r] = Enter(r)]
         /\ parent' = [parent EXCEPT ![r] = p]
  /\ todo' = [todo EXCEPT ![p] = Tail(@)]
  /\ waits' = [waits EXCEPT ![p] = @ + 1]
  /\ UNCHANGED <<table, lost>>

\* fork() returns -1, which is taken for the pid of a call that has not forked.
ForkFails(p) ==
  /\ at[p] = "call" /\ todo[p] # <<>>
  /\ Head(todo[p])[2] - Head(todo[p])[1] > FORKSORT_MIN
  /\ Cardinality(lost) < MaxLost
  /\ lost' = lost \cup {Head(todo[p])}
  /\ todo' = [todo EXCEPT ![p] = Tail(@)]
  /\ UNCHANGED <<table, at, call, waits, parent>>

\* A call the process makes itself.
InlineCall(p) ==
  /\ Move(p, "call", "body") /\ todo[p] # <<>>
  /\ Head(todo[p])[2] - Head(todo[p])[1] <= FORKSORT_MIN
  /\ call' = [call EXCEPT ![p] = Enter(Head(todo[p]))]
  /\ todo' = [todo EXCEPT ![p] = Tail(@)]
  /\ UNCHANGED <<table, waits, parent, lost>>

Nothing(p) ==
  /\ Move(p, "body", "call") /\ call[p].left >= call[p].right
  /\ UNCHANGED <<table, todo, call, waits, parent, lost>>

-----------------------------------------------------------------------------
\* InsertionSort, one round of its loop at a time.
StartInsertion(p) ==
  /\ Move(p, "body", "insert")
  /\ call[p].left < call[p].right /\ call[p].right - call[p].left <= INSERTSORT_MAX
  /\ call' = [call EXCEPT ![p].i = @ + 1]
  /\ UNCHANGED <<table, todo, waits, parent, lost>>

FirstIn(S) == CHOOSE i \in S : \A k \in S : i <= k
LastIn(S) == CHOOSE i \in S : \A k \in S : k <= i

InsertionSort(p) ==
  LET c == call[p]
      insert == FirstIn({k \in c.left .. c.i : k = c.i \/ table[k] >= table[c.i]})
  IN  /\ at[p] = "insert" /\ c.i <= c.right
      /\ table' = [k \in Index |-> CASE k = insert -> table[c.i]
                                     [] k \in insert + 1 .. c.i -> table[k - 1]
                                     [] OTHER -> table[k]]
      /\ call' = [call EXCEPT ![p].i = @ + 1]
      /\ UNCHANGED <<at, todo, waits, parent, lost>>

EndInsertion(p) ==
  /\ Move(p, "insert", "call") /\ call[p].i > call[p].right
  /\ UNCHANGED <<table, todo, call, waits, parent, lost>>

\* Partition around an element chosen at random, one round of its loop at a time.
StartPartition(p) ==
  /\ Move(p, "body", "partition")
  /\ call[p].right - call[p].left > INSERTSORT_MAX
  /\ \E k \in call[p].left .. call[p].right :
       call' = [call EXCEPT ![p].pivot = k, ![p].val = table[k]]
  /\ UNCHANGED <<table, todo, waits, parent, lost>>

Partition(p) ==
  LET c == call[p]
      i == FirstIn({k \in c.i .. c.j : k = c.j \/ table[k] >= c.val})
      j == LastIn({k \in i .. c.j : k = i \/ table[k] < c.val})
  IN  /\ at[p] = "partition" /\ c.i < c.j
      /\ table' = SwapElem(table, i, j)
      /\ call' = [call EXCEPT ![p].i = i, ![p].j = j]
      /\ UNCHANGED <<at, todo, waits, parent, lost>>

\* The mutant calls the right half with the last element of the left one.
RecurseOverlap(p) ==
  LET c == call[p]
  IN  /\ Move(p, "partition", "call") /\ c.i = c.j
      /\ IF c.left = c.i
           THEN /\ table' = SwapElem(table, c.left, c.pivot)
                /\ todo' = [todo EXCEPT ![p] = <<<<c.i + 1, c.right>>>> \o @]
           ELSE /\ todo' = [todo EXCEPT ![p] = <<<<c.left, c.i - 1>>, <<c.i - 1, c.right>>>> \o @]
                /\ UNCHANGED table
      /\ UNCHANGED <<call, waits, parent, lost>>

\* The two calls for the halves, or one when the pivot is the least element.
Recurse(p) ==
  LET c == call[p]
  IN  /\ Move(p, "partition", "call") /\ c.i = c.j
      /\ IF c.left = c.i
           THEN /\ table' = SwapElem(table, c.left, c.pivot)
                /\ todo' = [todo EXCEPT ![p] = <<<<c.i + 1, c.right>>>> \o @]
           ELSE /\ todo' = [todo EXCEPT ![p] = <<<<c.left, c.i - 1>>, <<c.i, c.right>>>> \o @]
                /\ UNCHANGED table
      /\ UNCHANGED <<call, waits, parent, lost>>

-----------------------------------------------------------------------------
\* Waitpid(-1), Wait: any child that has exited.
WaitChild(p) ==
  /\ at[p] = "call" /\ todo[p] = <<>> /\ waits[p] > 0
  /\ \E q \in Ranges : parent[q] = p /\ Move(q, "zombie", "gone")
  /\ waits' = [waits EXCEPT ![p] = @ - 1]
  /\ UNCHANGED <<table, todo, call, parent, lost>>

\* The mutant does not wait for the second child.
ExitEarly(p) ==
  /\ Move(p, "call", IF p = Main THEN "check" ELSE "zombie")
  /\ todo[p] = <<>> /\ waits[p] <= 1
  /\ UNCHANGED <<table, todo, call, waits, parent, lost>>

\* A child exits; main goes on to verify the table.
Exit(p) ==
  /\ Move(p, "call", IF p = Main THEN "check" ELSE "zombie")
  /\ todo[p] = <<>> /\ waits[p] = 0
  /\ UNCHANGED <<table, todo, call, waits, parent, lost>>

SortStep(p) ==
  \/ ForkCall(p) \/ ForkFails(p) \/ InlineCall(p) \/ Nothing(p)
  \/ StartInsertion(p) \/ InsertionSort(p) \/ EndInsertion(p)
  \/ StartPartition(p) \/ Partition(p) \/ Recurse(p)
  \/ WaitChild(p) \/ Exit(p)

SortNext == \E p \in Process : SortStep(p)

SortSpec == SortInit /\ [][SortNext]_sortVars

-----------------------------------------------------------------------------
\* The elements a process may still read or write.
Span(r) == r[1] .. r[2]
Area(p) ==
  (UNION {Span(todo[p][k]) : k \in DOMAIN todo[p]})
    \cup IF at[p] \in {"body", "insert", "partition"} THEN call[p].left .. call[p].right ELSE {}

\* The processes share the table without a lock: no element is ever within the reach of
\* two of them, whatever has been split, forked or failed to fork.
OneOwner == \A p, q \in Process : p # q => Area(p) \cap Area(q) = {}

\* The assertion of line 115: when main verifies the table no other process is left and
\* the table is sorted, except inside a range whose fork has failed.  The waits for "any
\* child" (lines 77, 79, 110) are as many as there are children.
SortedWhenChecked ==
  at[Main] = "check" =>
    /\ \A r \in Ranges : at[r] \in {"none", "gone"}
    /\ \A i, j \in Index :
         i < j /\ ~(\E r \in lost : {i, j} \subseteq Span(r)) => table[i] <= table[j]
=============================================================================
