---------------------------- MODULE StorageProofs ----------------------------
(***************************************************************************)
(* Proofs about three programs that keep data, modules HashDb              *)
(* (7/so21_lista_7/hashdb.c), ObjPool (8/so21_lista_8/objpool.c) and       *)
(* StrAlloc (8/so21_lista_8/stralloc.c).                                   *)
(*                                                                         *)
(* HashDb: for every set of keys, every hash function and every number of  *)
(* kills and restarts, what was inserted is found, and nothing is stored   *)
(* twice unless a kill has torn an entry.                                  *)
(*                                                                         *)
(* ObjPool: for every number of items, every size of a word and every      *)
(* order of calls, no object is given out twice, whichever search was      *)
(* built in.                                                               *)
(*                                                                         *)
(* StrAlloc: for every size of an arena, of a block and of its strings,    *)
(* and every order of calls, the headers stay in order, no string is       *)
(* touched, and there is never anything to merge.                          *)
(***************************************************************************)
EXTENDS HashDb, ObjPool, StrAlloc, FiniteSetTheorems, NaturalsInduction, SequenceTheorems,
        WellFoundedInduction, TLAPS

\* A nonempty set of naturals has a least element: the first place where the loop
\* of db_action stops.
LEMMA Least ==
  ASSUME NEW T, T \subseteq Nat, T # {}
  PROVE  \E x \in T : \A y \in T : x <= y
<1>1. PICK x \in T : \A y \in T : ~(<<y, x>> \in OpToRel(<, Nat))
  BY WFMin, NatLessThanWellFounded
<1>2. \A y \in T : ~(y < x)
  BY <1>1 DEF OpToRel
<1> QED
  BY <1>2

\* The places of a chain are entries of the table (hashdb.c:25).
LEMMA IdxInTable ==
  ASSUME NEW k \in Key, NEW c \in Nat, NEW n \in Nat, n > 0
  PROVE  Idx(k, c, n) \in 0 .. n - 1
<1>1. Hash[k] + c \in Nat
  BY HashDbAssumption
<1> QED
  BY <1>1 DEF Idx

LEMMA ChainFact ==
  ASSUME NEW n \in Nat
  PROVE  ChainLen(n) \in Nat /\ ChainLen(n) > 0
BY DEF ChainLen

\* The place where db_maybe_insert stores k, or a kill leaves v instead.
LEMMA PutPlace ==
  ASSUME NEW t, IsTable(t), NEW k \in Key, NEW v, Stops(t, k) # {}
  PROVE  \E c \in Stops(t, k) :
           /\ \A d \in Stops(t, k) : c <= d
           /\ PutAs(t, k, v) = [size |-> t.size, entry |-> [t.entry EXCEPT ![Idx(k, c, t.size)] = v]]
<1>1. Stops(t, k) \subseteq Nat
  BY ChainFact DEF Stops, Chain, IsTable
<1>2. \E c \in Stops(t, k) : \A d \in Stops(t, k) : c <= d
  BY <1>1, Least
<1> DEFINE c == CHOOSE c \in Stops(t, k) : \A d \in Stops(t, k) : c <= d
<1>3. c \in Stops(t, k) /\ \A d \in Stops(t, k) : c <= d
  BY <1>2
<1>4. PutAs(t, k, v) = [size |-> t.size, entry |-> [t.entry EXCEPT ![Idx(k, c, t.size)] = v]]
  BY DEF PutAs
<1> QED
  BY <1>3, <1>4

\* What db_maybe_insert does to a table: it has the new key and keeps the old ones, and
\* if it was in order it stays so (hashdb.c:24-32).
LEMMA PutKeeps ==
  ASSUME NEW t, IsTable(t), t.size > 0, NEW k \in Key, Stops(t, k) # {}
  PROVE  /\ IsTable(Put(t, k))
         /\ Put(t, k).size = t.size
         /\ Placed(t) => Placed(Put(t, k))
         /\ Query(Put(t, k), k)
         /\ \A l \in Key : Query(t, l) => Query(Put(t, k), l)
         /\ Stored(Put(t, k)) \subseteq Stored(t) \cup {k}
<1> DEFINE u == Put(t, k)
           n == t.size
<1>1. PICK c \in Stops(t, k) :
         /\ \A d \in Stops(t, k) : c <= d
         /\ u = [size |-> n, entry |-> [t.entry EXCEPT ![Idx(k, c, n)] = k]]
  BY PutPlace DEF Put
<1> DEFINE p == Idx(k, c, n)
<1>2. n \in Nat /\ n > 0 /\ t.entry \in [0 .. n - 1 -> Key \cup {Empty}]
  BY DEF IsTable
<1>3. Chain(t) \subseteq Nat /\ Chain(u) = Chain(t) /\ Chain(t) = 0 .. ChainLen(n) - 1 /\ ChainLen(n) \in Nat
  BY <1>1, <1>2, ChainFact, SMTT(30) DEF Chain
<1>4. c \in Chain(t) /\ t.entry[p] \in {Empty, k}
  BY DEF Stops
<1>5. \A l \in Key, d \in Chain(t) : Idx(l, d, n) \in 0 .. n - 1
  BY <1>2, <1>3, IdxInTable
<1>6. p \in 0 .. n - 1
  BY <1>4, <1>5
<1>7. u.size = n /\ u.entry = [t.entry EXCEPT ![p] = k]
  BY <1>1
<1>8. u.entry[p] = k /\ \A j \in 0 .. n - 1 : j # p => u.entry[j] = t.entry[j]
  BY <1>2, <1>6, <1>7
<1>9. IsTable(u)
  BY <1>1, <1>2, <1>6, <1>7 DEF IsTable
<1>10. Query(u, k)
  BY <1>3, <1>4, <1>7, <1>8 DEF Query
<1> HIDE DEF u, p
<1>11. ASSUME NEW l \in Key, Query(t, l)
       PROVE  Query(u, l)
  <2>1. PICK d \in Chain(t) : t.entry[Idx(l, d, n)] = l
    BY <1>11 DEF Query
  <2>2. u.entry[Idx(l, d, n)] = l
    BY <2>1, <1>4, <1>5, <1>8, HashDbAssumption
  <2> QED
    BY <2>2, <1>3, <1>7 DEF Query
<1>12. Stored(u) \subseteq Stored(t) \cup {k}
  BY <1>7, <1>8 DEF Stored
<1>13. Placed(t) => Placed(u)
  <2> SUFFICES ASSUME Placed(t), NEW j \in 0 .. n - 1, u.entry[j] # Empty
               PROVE  \E e \in Chain(t) :
                        /\ Idx(u.entry[j], e, n) = j
                        /\ \A d \in 0 .. e - 1 : u.entry[Idx(u.entry[j], d, n)] \notin {Empty, u.entry[j]}
    BY <1>3, <1>7 DEF Placed
  <2>1. CASE j = p
    <3>1. \A d \in 0 .. c - 1 : d \in Chain(t) /\ d \notin Stops(t, k)
      BY <1>1, <1>3, <1>4
    <3>2. \A d \in 0 .. c - 1 : t.entry[Idx(k, d, n)] \notin {Empty, k}
      BY <3>1 DEF Stops
    <3>3. \A d \in 0 .. c - 1 : Idx(k, d, n) # p
      BY <3>2, <1>4
    <3>4. \A d \in 0 .. c - 1 : u.entry[Idx(k, d, n)] \notin {Empty, k}
      BY <3>1, <3>2, <3>3, <1>5, <1>8
    <3> QED
      BY <2>1, <3>4, <1>4, <1>8 DEF p
  <2>2. CASE j # p
    <3> DEFINE l == t.entry[j]
    <3>1. u.entry[j] = l /\ l # Empty /\ l \in Key
      BY <2>2, <1>2, <1>8
    <3>2. PICK e \in Chain(t) :
             /\ Idx(l, e, n) = j
             /\ \A d \in 0 .. e - 1 : t.entry[Idx(l, d, n)] \notin {Empty, l}
      BY <3>1 DEF Placed
    <3> HIDE DEF l
    <3>3. ASSUME NEW d \in 0 .. e - 1
          PROVE  u.entry[Idx(l, d, n)] \notin {Empty, l}
      <4>1. d \in Chain(t) /\ Idx(l, d, n) \in 0 .. n - 1
        BY <1>3, <1>5, <3>1, <3>2
      <4>2. CASE Idx(l, d, n) = p
        <5>1. t.entry[p] = k /\ k # l
          BY <4>2, <3>2, <1>4
        <5> QED
          BY <5>1, <4>2, <1>8, HashDbAssumption
      <4>3. CASE Idx(l, d, n) # p
        BY <4>1, <4>3, <3>2, <1>8
      <4> QED
        BY <4>2, <4>3
    <3> QED
      BY <3>1, <3>2, <3>3
  <2> QED
    BY <2>1, <2>2
<1> QED
  BY <1>7, <1>9, <1>10, <1>11, <1>12, <1>13 DEF u

\* A kill in the middle of strncpy changes an entry that was free, and so loses no key.
LEMMA TornKeeps ==
  ASSUME NEW t, IsTable(t), t.size > 0, NEW k \in Key, NEW u \in TornPuts(t, k)
  PROVE  /\ IsTable(u)
         /\ u.size = t.size
         /\ \A l \in Key : Query(t, l) => Query(u, l)
<1> DEFINE n == t.size
<1>0. Stops(t, k) # {} /\ ~Query(t, k)
  BY DEF TornPuts
<1>1. PICK v \in Torn[k] : u = PutAs(t, k, v)
  BY <1>0 DEF TornPuts
<1>2. v \in Key
  BY HashDbAssumption
<1>3. PICK c \in Stops(t, k) : u = [size |-> n, entry |-> [t.entry EXCEPT ![Idx(k, c, n)] = v]]
  BY <1>0, <1>1, PutPlace
<1> DEFINE p == Idx(k, c, n)
<1>4. n \in Nat /\ n > 0 /\ t.entry \in [0 .. n - 1 -> Key \cup {Empty}]
  BY DEF IsTable
<1>5. Chain(t) \subseteq Nat /\ c \in Chain(t)
  BY <1>4, ChainFact DEF Chain, Stops
<1>6. t.entry[p] = Empty
  BY <1>0, <1>5 DEF Stops, Query
<1>7. \A l \in Key, d \in Chain(t) : Idx(l, d, n) \in 0 .. n - 1
  BY <1>4, <1>5, IdxInTable
<1>8. p \in 0 .. n - 1
  BY <1>5, <1>7
<1>9. u.size = n /\ u.entry = [t.entry EXCEPT ![p] = v]
  BY <1>3
<1>10. IsTable(u)
  BY <1>2, <1>3, <1>4, <1>8, <1>9 DEF IsTable
<1>11. \A j \in 0 .. n - 1 : j # p => u.entry[j] = t.entry[j]
  BY <1>4, <1>9
<1>12. Chain(u) = Chain(t)
  BY <1>9 DEF Chain
<1> HIDE DEF p
<1>13. ASSUME NEW l \in Key, Query(t, l)
       PROVE  Query(u, l)
  <2>1. PICK d \in Chain(t) : t.entry[Idx(l, d, n)] = l
    BY <1>13 DEF Query
  <2>2. u.entry[Idx(l, d, n)] = l
    BY <2>1, <1>6, <1>7, <1>11, HashDbAssumption
  <2> QED
    BY <2>2, <1>9, <1>12 DEF Query
<1> QED
  BY <1>9, <1>10, <1>13

\* An empty table is in order.
LEMMA NewTableInOrder ==
  ASSUME NEW n \in Nat \cup {-1}
  PROVE  /\ IsTable(NewTable(n)) /\ NewTable(n).size = n
         /\ Placed(NewTable(n)) /\ Stored(NewTable(n)) = {}
<1>1. NewTable(n).size = n /\ NewTable(n).entry = [j \in 0 .. n - 1 |-> Empty]
  BY DEF NewTable
<1>2. NewTable(n).entry \in [0 .. n - 1 -> Key \cup {Empty}]
  BY <1>1
<1>3. IsTable(NewTable(n))
  BY <1>1, <1>2 DEF NewTable, IsTable
<1>4. Placed(NewTable(n)) /\ Stored(NewTable(n)) = {}
  BY <1>1 DEF Placed, Stored
<1> QED
  BY <1>1, <1>3, <1>4

LEMMA InitInv == Init => IInv
<1> SUFFICES ASSUME Init PROVE IInv
  OBVIOUS
<1>1. IsTable(NoFile) /\ Placed(NoFile) /\ NoFile.size = -1
  BY NewTableInOrder DEF NoFile
<1>2. torn \in BOOLEAN
  BY Zenon DEF Init
<1> QED
  BY <1>1, <1>2 DEF Init, IInv, TypeOK, Labels, Copied, KeysFound

\* The database and its history are left alone by most steps.
LEMMA NextInv == IInv /\ [Next]_vars => IInv'
<1> SUFFICES ASSUME IInv, [Next]_vars PROVE IInv'
  OBVIOUS
<1> USE DEF IInv
<1>1. CASE OpenDb
  <2>1. IsTable(NewTable(0)) /\ Placed(NewTable(0)) /\ NewTable(0).size = 0 /\ NoFile.size = -1
    BY NewTableInOrder DEF NoFile
  <2>2. /\ IsTable(db') /\ (~torn => Placed(db)') /\ db'.size >= 0
        /\ db.size > 0 => db' = db
    <3>1. CASE db = NoFile
      <4>1. db' = NewTable(0)
        BY <1>1, <3>1 DEF OpenDb
      <4> QED
        BY <2>1, <3>1, <4>1
    <3>2. CASE db # NoFile
      <4>1. db' = db
        BY <1>1, <3>2 DEF OpenDb
      <4>2. db.size # -1
        <5>1. SUFFICES ASSUME db.size = -1 PROVE db = NoFile
          BY <3>2
        <5>2. db = [size |-> db.size, entry |-> db.entry] /\ db.entry \in [0 .. -2 -> Key \cup {Empty}]
          BY <5>1 DEF TypeOK, IsTable
        <5>3. db.entry = [j \in 0 .. -2 |-> Empty]
          BY <5>2
        <5> QED
          BY <5>1, <5>2, <5>3 DEF NoFile, NewTable
      <4>3. db.size >= 0
        BY <4>2 DEF TypeOK, IsTable
      <4> QED
        BY <4>1, <4>3 DEF TypeOK
    <3> QED
      BY <3>1, <3>2
  <2> QED
    BY <1>1, <2>2 DEF OpenDb, Goto, TypeOK, Labels, Copied, KeysFound
<1>2. CASE MapDb
  <2>1. IsTable(NewTable(1)) /\ Placed(NewTable(1)) /\ NewTable(1).size = 1
    BY NewTableInOrder
  <2>2. IsTable(db') /\ (~torn => Placed(db)') /\ db'.size > 0 /\ (db.size > 0 => db' = db)
    <3>1. CASE db.size = 0
      <4>1. db' = NewTable(1)
        BY <1>2, <3>1 DEF MapDb
      <4> QED
        BY <2>1, <3>1, <4>1
    <3>2. CASE db.size # 0
      <4>1. db' = db /\ db.size > 0
        BY <1>2, <3>2 DEF MapDb, Goto, TypeOK, IsTable
      <4> QED
        BY <4>1 DEF TypeOK
    <3> QED
      BY <3>1, <3>2
  <2>3. TypeOK'
    BY <1>2, <2>2 DEF MapDb, Goto, TypeOK, Labels
  <2>4. KeysFound'
    BY <1>2, <2>2 DEF MapDb, KeysFound
  <2>5. db'.size >= 0
    BY <2>2 DEF IsTable
  <2> QED
    BY <1>2, <2>2, <2>3, <2>4, <2>5 DEF MapDb, Goto, Copied
<1>3. ASSUME NEW k \in Key, CallInsert(k) PROVE IInv'
  BY <1>3 DEF CallInsert, Goto, TypeOK, Labels, Copied, KeysFound
<1>4. CASE InsertDone
  <2>1. key \in Key /\ db.size > 0 /\ IsTable(db) /\ Stops(db, key) # {} /\ db' = Put(db, key)
    BY <1>4 DEF InsertDone, Goto, TypeOK
  <2>2. /\ IsTable(db') /\ db'.size = db.size /\ (~torn => Placed(db)') /\ Query(db', key)
        /\ \A l \in Key : Query(db, l) => Query(db', l)
    BY <2>1, PutKeeps
  <2>3. KeysFound'
    BY <1>4, <2>1, <2>2 DEF InsertDone, KeysFound, TypeOK
  <2> QED
    BY <1>4, <2>1, <2>2, <2>3 DEF InsertDone, Goto, TypeOK, Labels, Copied
<1>5. CASE InsertNoRoom
  BY <1>5 DEF InsertNoRoom, Goto, TypeOK, Labels, Copied, KeysFound, IsTable
<1>6. CASE RehashOpen
  <2>1. IsTable(rehash')
    BY <1>6, NewTableInOrder DEF RehashOpen
  <2> QED
    BY <1>6, <2>1 DEF RehashOpen, Goto, TypeOK, Labels, Copied, KeysFound
<1>13. CASE RehashTruncate
  <2>1. IsTable(rehash') /\ rehash'.size = new_size /\ Placed(rehash)' /\ Stored(rehash') = {}
    BY <1>13, NewTableInOrder DEF RehashTruncate, TypeOK
  <2>2. Copied'
    BY <1>13, <2>1 DEF RehashTruncate, Goto, Copied, TypeOK, IsTable
  <2> QED
    BY <1>13, <2>1, <2>2 DEF RehashTruncate, Goto, TypeOK, Labels, KeysFound
<1>7. CASE RehashOpenFails
  BY <1>7 DEF RehashOpenFails, Goto, TypeOK, Labels, Copied, KeysFound
<1>8. CASE RehashCopy
  <2>1. /\ pc = "copy" /\ i < db.size /\ i \in 0 .. db.size - 1 /\ db.size \in Nat
        /\ rehash.size = new_size /\ new_size > 0 /\ IsTable(rehash) /\ Placed(rehash)
        /\ UNCHANGED <<db, new_size, key, pc, inserted, torn>> /\ i' = i + 1 /\ pc' = "copy"
    BY <1>8 DEF RehashCopy, Goto, Copied, TypeOK, IsTable
  <2>2. CASE db.entry[i] = Empty /\ UNCHANGED rehash
    <3>1. Copied'
      BY <2>1, <2>2 DEF Copied
    <3> QED
      BY <2>1, <2>2, <3>1 DEF TypeOK, Labels, KeysFound
  <2>3. CASE db.entry[i] # Empty /\ Stops(rehash, db.entry[i]) # {} /\ rehash' = Put(rehash, db.entry[i])
    <3>1. db.entry[i] \in Key /\ db.entry[i] \in Stored(db)
      BY <2>1, <2>3 DEF TypeOK, IsTable, Stored
    <3>2. /\ IsTable(rehash') /\ rehash'.size = new_size /\ Placed(rehash)' /\ Query(rehash', db.entry[i])
          /\ \A l \in Key : Query(rehash, l) => Query(rehash', l)
          /\ Stored(rehash') \subseteq Stored(rehash) \cup {db.entry[i]}
      BY <2>1, <2>3, <3>1, PutKeeps
    <3>3. \A j \in 0 .. i - 1 : db.entry[j] # Empty => Query(rehash', db.entry[j])
      BY <2>1, <3>2 DEF Copied, TypeOK, IsTable
    <3>4. Copied'
      <4>1. \A j \in 0 .. i' - 1 : db.entry[j] # Empty => Query(rehash', db.entry[j])
        BY <2>1, <3>2, <3>3
      <4>2. Stored(rehash') \subseteq Stored(db)
        BY <2>1, <3>1, <3>2 DEF Copied
      <4> QED
        BY <2>1, <3>2, <4>1, <4>2 DEF Copied
    <3> QED
      BY <2>1, <3>2, <3>4 DEF TypeOK, Labels, KeysFound
  <2> QED
    BY <1>8, <2>2, <2>3 DEF RehashCopy
<1>9. CASE RehashGivesUp
  <2>1. IsTable(rehash')
    BY <1>9, NewTableInOrder DEF RehashGivesUp, NoFile
  <2> QED
    BY <1>9, <2>1 DEF RehashGivesUp, Goto, TypeOK, Labels, Copied, KeysFound
<1>10. CASE RehashRename
  <2>1. IsTable(rehash') /\ db' = rehash /\ Placed(rehash) /\ IsTable(rehash)
    BY <1>10, NewTableInOrder DEF RehashRename, Goto, NoFile, TypeOK
  <2>2. /\ pc = "copy" /\ i = db.size /\ new_size > 0 /\ rehash.size = new_size
        /\ \A j \in 0 .. db.size - 1 : db.entry[j] # Empty => Query(rehash, db.entry[j])
    BY <1>10 DEF RehashRename, Goto, Copied
  <2>3. ASSUME NEW k \in inserted PROVE Query(rehash, k)
    <3>1. k \in Key /\ k # Empty /\ db.size > 0 /\ Query(db, k) /\ db.size \in Nat
      BY HashDbAssumption DEF KeysFound, TypeOK, IsTable
    <3>2. PICK c \in Chain(db) : db.entry[Idx(k, c, db.size)] = k
      BY <3>1 DEF Query
    <3>3. Idx(k, c, db.size) \in 0 .. db.size - 1
      <4>1. c \in Nat
        BY <3>1, ChainFact DEF Chain
      <4> QED
        BY <3>1, <4>1, IdxInTable
    <3> QED
      BY <2>2, <3>1, <3>2, <3>3
  <2>4. KeysFound'
    BY <1>10, <2>1, <2>2, <2>3 DEF RehashRename, KeysFound
  <2>5. Placed(db)' /\ db'.size > 0 /\ db'.size >= 0 /\ key' = key /\ key \in Key
    BY <1>10, <2>1, <2>2 DEF RehashRename, IsTable
  <2>6. TypeOK'
    <3>1. torn' \in BOOLEAN
      BY <1>10, Zenon DEF RehashRename
    <3> QED
      BY <1>10, <2>1, <3>1 DEF RehashRename, Goto, TypeOK, Labels
  <2> QED
    BY <1>10, <2>1, <2>2, <2>4, <2>5, <2>6 DEF RehashRename, Goto, Copied
<1>14. CASE KillInInsert
  <2>1. key \in Key /\ db.size > 0 /\ IsTable(db) /\ db' \in TornPuts(db, key)
    BY <1>14 DEF KillInInsert, Goto, TypeOK
  <2>2. IsTable(db') /\ db'.size = db.size /\ \A l \in Key : Query(db, l) => Query(db', l)
    BY <2>1, TornKeeps
  <2>3. KeysFound'
    BY <1>14, <2>1, <2>2 DEF KillInInsert, KeysFound, TypeOK
  <2>4. torn'
    BY <1>14 DEF KillInInsert
  <2> QED
    BY <1>14, <2>1, <2>2, <2>3, <2>4 DEF KillInInsert, Goto, TypeOK, Labels, Copied
<1>15. CASE KillInCopy
  <2>1. /\ db.entry[i] \in Key /\ rehash.size > 0 /\ IsTable(rehash)
        /\ rehash' \in TornPuts(rehash, db.entry[i])
    BY <1>15 DEF KillInCopy, Goto, Copied, TypeOK, IsTable
  <2>2. IsTable(rehash')
    BY <2>1, TornKeeps
  <2> QED
    BY <1>15, <2>2 DEF KillInCopy, Goto, TypeOK, Labels, Copied, KeysFound
<1>11. CASE Stop
  BY <1>11 DEF Stop, TypeOK, Labels, Copied, KeysFound
<1>12. CASE UNCHANGED vars
  BY <1>12 DEF vars, TypeOK, Labels, Copied, KeysFound
<1> QED
  BY <1>1, <1>2, <1>3, <1>4, <1>5, <1>6, <1>7, <1>8, <1>9, <1>10, <1>11, <1>12, <1>13,
     <1>14, <1>15 DEF Next, Insert

\* The invariant of the table and of the copying loop (hashdb.c:17-34, 78-108).
THEOREM HashDbInvariant == Spec => []IInv
<1> QED
  BY InitInv, NextInv, PTL DEF Spec

\* A key that was inserted is found at any later moment, whatever rehashes, kills and
\* restarts there are in between.
THEOREM InsertedKeysAreFound == Spec => []KeysFound
<1>1. IInv => KeysFound
  BY DEF IInv
<1> QED
  BY <1>1, HashDbInvariant, PTL

\* A table that is in order holds no key twice.
LEMMA PlacedOnce ==
  ASSUME NEW t, IsTable(t), Placed(t),
         NEW j \in 0 .. t.size - 1, NEW k \in 0 .. t.size - 1,
         t.entry[j] = t.entry[k], t.entry[j] # Empty
  PROVE  j = k
<1> DEFINE l == t.entry[j]
<1>1. PICK c \in Chain(t) :
        /\ Idx(l, c, t.size) = j
        /\ \A d \in 0 .. c - 1 : t.entry[Idx(l, d, t.size)] \notin {Empty, l}
  BY DEF Placed
<1>2. PICK e \in Chain(t) :
        /\ Idx(l, e, t.size) = k
        /\ \A d \in 0 .. e - 1 : t.entry[Idx(l, d, t.size)] \notin {Empty, l}
  BY DEF Placed
<1>3. c \in Nat /\ e \in Nat
  BY ChainFact DEF Chain, IsTable
<1>4. ~(c < e) /\ ~(e < c)
  BY <1>1, <1>2, <1>3
<1> QED
  BY <1>1, <1>2, <1>3, <1>4

\* Neither the database nor the file it is copied to holds a key twice, until a kill
\* leaves an unfinished key in the database, and again after the next rehash.
THEOREM NothingStoredTwice == Spec => []NoDuplicates
<1>1. IInv => NoDuplicates
  BY PlacedOnce DEF IInv, NoDuplicates, Once, TypeOK
<1> QED
  BY <1>1, HashDbInvariant, PTL

-----------------------------------------------------------------------------
USE ObjPoolAssumption

\* A bit is in one word, the quotient by the size of a word.
LEMMA WordOf ==
  ASSUME NEW x \in Nat, NEW w \in Nat
  PROVE  /\ x \div WORD \in Nat /\ x \div WORD <= x
         /\ (x \div WORD) * WORD <= x /\ x < (x \div WORD + 1) * WORD
         /\ w * WORD \in Nat /\ (w + 1) * WORD \in Nat /\ w * WORD < (w + 1) * WORD
         /\ x \in w * WORD .. (w + 1) * WORD - 1 <=> w = x \div WORD
<1>1. x \div WORD \in Nat /\ (x \div WORD) * WORD <= x /\ x < (x \div WORD + 1) * WORD
  BY Z3
<1>2. PICK q \in Nat : q = x \div WORD
  BY <1>1
<1>3. q <= q * WORD /\ q * WORD \in Nat /\ (q + 1) * WORD = q * WORD + WORD
  BY Z3
<1>4. w * WORD \in Nat /\ (w + 1) * WORD = w * WORD + WORD
  BY Z3
<1>5. w < q => (w + 1) * WORD <= q * WORD
  BY Z3
<1>6. q < w => (q + 1) * WORD <= w * WORD
  BY Z3
<1>7. q * WORD <= x /\ x < (q + 1) * WORD
  BY <1>1, <1>2
<1>8. x \in w * WORD .. (w + 1) * WORD - 1 <=> w = q
  <2>1. CASE w < q
    BY <1>3, <1>4, <1>5, <1>7, <2>1
  <2>2. CASE q < w
    BY <1>3, <1>4, <1>6, <1>7, <2>2
  <2>3. CASE w = q
    BY <1>3, <1>4, <1>7, <2>3
  <2> QED
    BY <2>1, <2>2, <2>3
<1>9. q \in Nat /\ q <= x
  BY <1>3, <1>7
<1> QED
  BY <1>1, <1>2, <1>4, <1>8, <1>9

\* One bit more fills at most the word it is in, one bit less empties that word.
LEMMA OneBitMore ==
  ASSUME NEW bits \in SUBSET Nat, NEW x \in Nat, NEW w \in Nat
  PROVE  /\ w # x \div WORD => (Full(bits \cup {x}, w) <=> Full(bits, w))
         /\ Full(bits, w) => Full(bits \cup {x}, w)
         /\ Full(bits \ {x}, w) <=> Full(bits, w) /\ w # x \div WORD
<1> DEFINE word == w * WORD .. (w + 1) * WORD - 1
<1>1. x \in word <=> w = x \div WORD
  BY WordOf
<1>2. \A s : Full(s, w) <=> word \subseteq s
  BY DEF Full
<1> HIDE DEF word
<1> QED
  BY <1>1, <1>2

\* The first clear bit of a bitmap in which some bit up to nitems is clear (objpool.c:126-130).
LEMMA FirstClearFound ==
  ASSUME NEW bits \in SUBSET Nat, NEW b \in 0 .. nitems, b \notin bits
  PROVE  FirstClear(bits) \in Nat /\ FirstClear(bits) \notin bits /\ FirstClear(bits) <= b
<1> DEFINE Q(j) == j \notin bits /\ \A k \in 0 .. j - 1 : k \in bits
<1>1. PICK j \in {y \in Nat : y \notin bits} : \A y \in {y \in Nat : y \notin bits} : j <= y
  <2>1. b \in {y \in Nat : y \notin bits}
    OBVIOUS
  <2> QED
    BY <2>1, Least
<1>2. j \in 0 .. nitems /\ Q(j)
  BY <1>1
<1>3. FirstClear(bits) = CHOOSE k \in 0 .. nitems : Q(k)
  BY DEF FirstClear
<1>4. FirstClear(bits) \in 0 .. nitems /\ Q(FirstClear(bits))
  <2> HIDE DEF Q
  <2> QED
    BY <1>2, <1>3
<1>5. PICK f \in 0 .. nitems : f = FirstClear(bits) /\ Q(f)
  BY <1>4
<1>6. f <= b
  BY <1>5
<1> QED
  BY <1>5, <1>6

\* tzcnt on a word that is not full finds a clear bit, and no clear bit of this word or of
\* a later one comes before it (objpool.c:67-92).
LEMMA TzcntFound ==
  ASSUME NEW bits \in SUBSET Nat, NEW w \in Nat, ~Full(bits, w),
         NEW b \in Nat, b \notin bits, w <= b \div WORD
  PROVE  tzcnt(bits, w) \in Nat /\ tzcnt(bits, w) \notin bits /\ tzcnt(bits, w) <= b
<1>0. PICK lo \in Nat, hi \in Nat : lo = w * WORD /\ hi = (w + 1) * WORD /\ lo < hi
  BY WordOf
<1> DEFINE Q(j) == /\ j \notin bits \/ j = hi
                   /\ \A k \in lo .. j - 1 : k \in bits
           T == {y \in Nat : lo <= y /\ y \notin bits}
<1>1. tzcnt(bits, w) = CHOOSE j \in lo .. hi : Q(j)
  BY <1>0 DEF tzcnt
<1>2. PICK c \in lo .. hi - 1 : c \notin bits
  BY <1>0 DEF Full
<1>3. PICK j \in T : \A y \in T : j <= y
  <2>1. c \in T
    BY <1>2
  <2> HIDE DEF T
  <2>2. T \subseteq Nat
    BY DEF T
  <2> QED
    BY <2>1, <2>2, Least
<1>4. j \in lo .. hi /\ Q(j)
  BY <1>2, <1>3
<1>5. tzcnt(bits, w) \in lo .. hi /\ Q(tzcnt(bits, w))
  <2> HIDE DEF Q
  <2> QED
    BY <1>1, <1>4
<1>6. PICK t \in lo .. hi : t = tzcnt(bits, w) /\ Q(t)
  BY <1>5
<1>7. t < hi /\ t \notin bits
  BY <1>2, <1>6
<1>8. lo <= b
  <2>1. PICK q \in Nat : q = b \div WORD /\ q * WORD <= b /\ q * WORD \in Nat
    BY WordOf
  <2>2. w * WORD <= q * WORD
    BY <2>1, Z3
  <2> QED
    BY <1>0, <2>1, <2>2
<1>9. t <= b
  BY <1>6, <1>7, <1>8
<1> QED
  BY <1>6, <1>7, <1>9

\* The levels of an arena say exactly which words are full.
Levels(arena) == /\ arena.level1 = {w \in 0 .. nitems : Full(arena.bitmap, w)}
              /\ arena.level2 = {w \in 0 .. nitems : Full(arena.level1, w)}

Arenas == [bitmap : SUBSET (0 .. nitems - 1), level1 : SUBSET (0 .. nitems),
           level2 : SUBSET (0 .. nitems), nfree : Int]

\* The search through the levels finds a clear bit that is an item, as the search through
\* the bitmap does (objpool.c:67-92, 124-135).
LEMMA BlockFound ==
  ASSUME NEW arena \in Arenas, TEST \in BOOLEAN, ~TEST => Levels(arena), Cardinality(arena.bitmap) < nitems
  PROVE  BlockIndex(arena) \in 0 .. nitems - 1 /\ BlockIndex(arena) \notin arena.bitmap
<1>1. arena.bitmap \in SUBSET (0 .. nitems - 1) /\ arena.bitmap \in SUBSET Nat
  BY DEF Arenas
<1>2. PICK b \in 0 .. nitems - 1 : b \notin arena.bitmap
  <2> SUFFICES ASSUME arena.bitmap = 0 .. nitems - 1 PROVE FALSE
    BY <1>1
  <2>1. Cardinality(0 .. nitems - 1) = nitems
    BY FS_Interval
  <2> QED
    BY <2>1
<1>3. CASE TEST
  <2>1. PICK f \in Nat : f = FirstClear(arena.bitmap) /\ f \notin arena.bitmap /\ f <= b
    BY <1>1, <1>2, FirstClearFound
  <2> QED
    BY <1>3, <2>1 DEF BlockIndex
<1>4. CASE ~TEST
  <2>0. arena.level1 \in SUBSET Nat /\ arena.level2 \in SUBSET Nat /\ Levels(arena)
    BY <1>4 DEF Arenas
  <2>b. b \in Nat
    BY <1>2
  <2>1. PICK w \in Nat : w = b \div WORD /\ w <= b
    BY <2>b, WordOf
  <2>2. PICK u \in Nat : u = w \div WORD /\ u <= w
    BY WordOf
  <2>3. ~Full(arena.bitmap, w)
    <3>1. b \in w * WORD .. (w + 1) * WORD - 1
      BY <2>1, WordOf
    <3> QED
      BY <1>2, <3>1 DEF Full
  <2>4. w \notin arena.level1
    BY <2>0, <2>3 DEF Levels
  <2>5. u \notin arena.level2
    <3>1. w \in u * WORD .. (u + 1) * WORD - 1
      BY <2>2, WordOf
    <3>2. ~Full(arena.level1, u)
      BY <2>4, <3>1 DEF Full
    <3> QED
      BY <2>0, <3>2 DEF Levels
  <2>6. PICK f \in Nat : f = FirstClear(arena.level2) /\ f \notin arena.level2 /\ f <= u
    <3>1. u \in 0 .. nitems
      BY <2>1, <2>2
    <3> QED
      BY <2>0, <2>5, <3>1, FirstClearFound
  <2>7. ~Full(arena.level1, f)
    BY <2>0, <2>1, <2>2, <2>6 DEF Levels
  <2>8. PICK t \in Nat : t = tzcnt(arena.level1, f) /\ t \notin arena.level1 /\ t <= w
    BY <2>0, <2>2, <2>4, <2>6, <2>7, TzcntFound
  <2>9. ~Full(arena.bitmap, t)
    BY <2>0, <2>1, <2>8 DEF Levels
  <2>10. PICK m \in Nat : m = tzcnt(arena.bitmap, t) /\ m \notin arena.bitmap /\ m <= b
    BY <1>1, <1>2, <2>1, <2>8, <2>9, TzcntFound
  <2>11. BlockIndex(arena) = m
    BY <1>4, <2>6, <2>8, <2>10 DEF BlockIndex, my_bit_ffc
  <2> QED
    BY <2>10, <2>11
<1> QED
  BY <1>3, <1>4

\* Marking an item keeps the levels exact (objpool.c:36-48).
LEMMA SetKeepsLevels ==
  ASSUME NEW arena \in Arenas, Levels(arena), NEW bit \in 0 .. nitems - 1
  PROVE  /\ my_bit_set(arena, bit) \in Arenas /\ Levels(my_bit_set(arena, bit))
         /\ my_bit_set(arena, bit).bitmap = arena.bitmap \cup {bit}
         /\ my_bit_set(arena, bit).nfree = arena.nfree
<1> DEFINE bitmap == arena.bitmap \cup {bit}
<1>1. PICK w \in Nat : w = bit \div WORD /\ w <= bit
  <2>1. bit \in Nat
    OBVIOUS
  <2> QED
    BY <2>1, WordOf
<1>2. PICK u \in Nat : u = w \div WORD /\ u <= w
  BY WordOf
<1>3. PICK level1 : level1 = IF Full(bitmap, w) THEN arena.level1 \cup {w} ELSE arena.level1
  OBVIOUS
<1>4. PICK level2 : level2 = IF Full(bitmap, w) /\ Full(level1, u) THEN arena.level2 \cup {u} ELSE arena.level2
  OBVIOUS
<1>5. my_bit_set(arena, bit) = [arena EXCEPT !.bitmap = bitmap, !.level1 = level1, !.level2 = level2]
  BY <1>1, <1>2, <1>3, <1>4 DEF my_bit_set
<1>6. w \in 0 .. nitems /\ u \in 0 .. nitems
  BY <1>1, <1>2
<1>7. /\ bitmap \in SUBSET (0 .. nitems - 1) /\ level1 \in SUBSET (0 .. nitems)
      /\ level2 \in SUBSET (0 .. nitems)
  BY <1>3, <1>4, <1>6 DEF Arenas
<1>8. level1 = {v \in 0 .. nitems : Full(bitmap, v)}
  <2>1. ASSUME NEW v \in 0 .. nitems PROVE v \in level1 <=> Full(bitmap, v)
    <3>1. v \in Nat /\ arena.bitmap \in SUBSET Nat /\ bit \in Nat
      BY DEF Arenas
    <3>2. /\ v # w => (Full(bitmap, v) <=> Full(arena.bitmap, v))
          /\ Full(arena.bitmap, v) => Full(bitmap, v)
      BY <1>1, <3>1, OneBitMore
    <3>3. v \in arena.level1 <=> Full(arena.bitmap, v)
      BY DEF Levels
    <3> HIDE DEF bitmap
    <3> QED
      BY <1>3, <3>2, <3>3
  <2> QED
    BY <1>7, <2>1
<1>9. level2 = {v \in 0 .. nitems : Full(level1, v)}
  <2>1. ASSUME NEW v \in 0 .. nitems PROVE v \in level2 <=> Full(level1, v)
    <3>1. v \in Nat /\ arena.level1 \in SUBSET Nat /\ w \in Nat
      BY DEF Arenas
    <3>2. /\ v # u => (Full(arena.level1 \cup {w}, v) <=> Full(arena.level1, v))
          /\ Full(arena.level1, v) => Full(arena.level1 \cup {w}, v)
      BY <1>2, <3>1, OneBitMore
    <3>3. v \in arena.level2 <=> Full(arena.level1, v)
      BY DEF Levels
    <3> HIDE DEF bitmap
    <3>4. CASE Full(bitmap, w)
      BY <1>3, <1>4, <3>2, <3>3, <3>4
    <3>5. CASE ~Full(bitmap, w)
      BY <1>3, <1>4, <3>3, <3>5
    <3> QED
      BY <3>4, <3>5
  <2> QED
    BY <1>7, <2>1
<1> HIDE DEF bitmap
<1>10. PICK new \in Arenas : /\ new = my_bit_set(arena, bit) /\ new.bitmap = bitmap /\ new.level1 = level1
                             /\ new.level2 = level2 /\ new.nfree = arena.nfree
  <2>1. my_bit_set(arena, bit) = [bitmap |-> bitmap, level1 |-> level1, level2 |-> level2, nfree |-> arena.nfree]
    BY <1>5 DEF Arenas
  <2>2. my_bit_set(arena, bit) \in Arenas
    BY <1>7, <2>1 DEF Arenas
  <2> QED
    BY <2>1, <2>2
<1> QED
  BY <1>8, <1>9, <1>10 DEF Levels, bitmap

\* So does giving it back: the word of the bit, and the word of that word, have a clear bit
\* now (objpool.c:50-65).
LEMMA ClearKeepsLevels ==
  ASSUME NEW arena \in Arenas, Levels(arena), NEW bit \in 0 .. nitems - 1
  PROVE  /\ my_bit_clear(arena, bit) \in Arenas /\ Levels(my_bit_clear(arena, bit))
         /\ my_bit_clear(arena, bit).bitmap = arena.bitmap \ {bit}
         /\ my_bit_clear(arena, bit).nfree = arena.nfree
<1>1. PICK w \in Nat : w = bit \div WORD /\ w <= bit
  <2>1. bit \in Nat
    OBVIOUS
  <2> QED
    BY <2>1, WordOf
<1>2. PICK u \in Nat : u = w \div WORD /\ u <= w
  BY WordOf
<1>3. PICK new \in Arenas : /\ new = my_bit_clear(arena, bit) /\ new.bitmap = arena.bitmap \ {bit}
                            /\ new.level1 = arena.level1 \ {w} /\ new.level2 = arena.level2 \ {u}
                            /\ new.nfree = arena.nfree
  <2>0. my_bit_clear(arena, bit) =
          [arena EXCEPT !.bitmap = arena.bitmap \ {bit}, !.level1 = arena.level1 \ {w}, !.level2 = arena.level2 \ {u}]
    BY <1>1, <1>2 DEF my_bit_clear
  <2>1. my_bit_clear(arena, bit) = [bitmap |-> arena.bitmap \ {bit}, level1 |-> arena.level1 \ {w},
                                 level2 |-> arena.level2 \ {u}, nfree |-> arena.nfree]
    BY <2>0 DEF Arenas
  <2>2. my_bit_clear(arena, bit) \in Arenas
    BY <2>1 DEF Arenas
  <2> QED
    BY <2>1, <2>2
<1>4. ASSUME NEW v \in 0 .. nitems
      PROVE  /\ v \in new.level1 <=> Full(new.bitmap, v)
             /\ v \in new.level2 <=> Full(new.level1, v)
  <2>1. /\ v \in Nat /\ arena.bitmap \in SUBSET Nat /\ bit \in Nat
        /\ arena.level1 \in SUBSET Nat /\ w \in Nat
    BY DEF Arenas
  <2>2. Full(arena.bitmap \ {bit}, v) <=> Full(arena.bitmap, v) /\ v # w
    BY <1>1, <2>1, OneBitMore
  <2>3. Full(arena.level1 \ {w}, v) <=> Full(arena.level1, v) /\ v # u
    BY <1>2, <2>1, OneBitMore
  <2>4. (v \in arena.level1 <=> Full(arena.bitmap, v)) /\ (v \in arena.level2 <=> Full(arena.level1, v))
    BY DEF Levels
  <2> QED
    BY <1>3, <2>2, <2>3, <2>4
<1>5. new.level1 \in SUBSET (0 .. nitems) /\ new.level2 \in SUBSET (0 .. nitems)
  BY DEF Arenas
<1>6. Levels(new)
  BY <1>4, <1>5 DEF Levels
<1> QED
  BY <1>3, <1>6

\* What alloc_block leaves behind: one item more is marked, one less is free.
LEMMA AllocBlockKeeps ==
  ASSUME NEW arena \in Arenas, TEST \in BOOLEAN, ~TEST => Levels(arena), BlockIndex(arena) \in 0 .. nitems - 1
  PROVE  /\ AllocBlock(arena) \in Arenas /\ (~TEST => Levels(AllocBlock(arena)))
         /\ AllocBlock(arena).bitmap = arena.bitmap \cup {BlockIndex(arena)}
         /\ AllocBlock(arena).nfree = arena.nfree - 1
<1>1. PICK bit \in 0 .. nitems - 1 : bit = BlockIndex(arena)
  OBVIOUS
<1>2. PICK marked : marked = IF TEST THEN [arena EXCEPT !.bitmap = @ \cup {bit}] ELSE my_bit_set(arena, bit)
  OBVIOUS
<1>3. /\ marked \in Arenas /\ (~TEST => Levels(marked))
      /\ marked.bitmap = arena.bitmap \cup {bit} /\ marked.nfree = arena.nfree
  <2>1. CASE TEST
    BY <1>2, <2>1 DEF Arenas
  <2>2. CASE ~TEST
    BY <1>2, <2>2, SetKeepsLevels
  <2> QED
    BY <2>1, <2>2
<1>4. AllocBlock(arena) = [marked EXCEPT !.nfree = @ - 1]
  BY <1>1, <1>2 DEF AllocBlock
<1>5. PICK new \in Arenas : /\ new = AllocBlock(arena) /\ new.bitmap = marked.bitmap /\ new.level1 = marked.level1
                            /\ new.level2 = marked.level2 /\ new.nfree = marked.nfree - 1
  BY <1>3, <1>4 DEF Arenas
<1> QED
  BY <1>1, <1>3, <1>5 DEF Levels

\* What free_block leaves behind.
LEMMA FreeBlockKeeps ==
  ASSUME NEW arena \in Arenas, TEST \in BOOLEAN, ~TEST => Levels(arena), NEW bit \in arena.bitmap
  PROVE  /\ FreeBlock(arena, bit) \in Arenas /\ (~TEST => Levels(FreeBlock(arena, bit)))
         /\ FreeBlock(arena, bit).bitmap = arena.bitmap \ {bit}
         /\ FreeBlock(arena, bit).nfree = arena.nfree + 1
<1>1. bit \in 0 .. nitems - 1
  BY DEF Arenas
<1>2. PICK cleared : cleared = IF TEST THEN [arena EXCEPT !.bitmap = @ \ {bit}] ELSE my_bit_clear(arena, bit)
  OBVIOUS
<1>3. /\ cleared \in Arenas /\ (~TEST => Levels(cleared))
      /\ cleared.bitmap = arena.bitmap \ {bit} /\ cleared.nfree = arena.nfree
  <2>1. CASE TEST
    BY <1>2, <2>1 DEF Arenas
  <2>2. CASE ~TEST
    BY <1>1, <1>2, <2>2, ClearKeepsLevels
  <2> QED
    BY <2>1, <2>2
<1>4. FreeBlock(arena, bit) = [cleared EXCEPT !.nfree = @ + 1]
  BY <1>2 DEF FreeBlock
<1>5. PICK new \in Arenas : /\ new = FreeBlock(arena, bit) /\ new.bitmap = cleared.bitmap /\ new.level1 = cleared.level1
                            /\ new.level2 = cleared.level2 /\ new.nfree = cleared.nfree + 1
  BY <1>3, <1>4 DEF Arenas
<1> QED
  BY <1>3, <1>5 DEF Levels

\* The items of arena a that the caller holds.
HeldIn(a) == {x \in 0 .. nitems - 1 : <<a, x>> \in ptrs}

\* An arena agrees with what the caller holds of it.
ArenaExact(a) ==
  /\ pool[a].bitmap = HeldIn(a)
  /\ pool[a].nfree = nitems - Cardinality(HeldIn(a))
  /\ ~TEST => Levels(pool[a])

\* The caller holds items of the arenas, as many as it thinks, and every arena is right.
PoolInv ==
  /\ TEST \in BOOLEAN
  /\ pool \in Seq(Arenas)
  /\ ptrs \subseteq (1 .. Len(pool)) \X (0 .. nitems - 1)
  /\ IsFiniteSet(ptrs) /\ Cardinality(ptrs) = ptrn
  /\ \A a \in 1 .. Len(pool) : ArenaExact(a)

\* The items of an arena are finitely many.
LEMMA ItemSets ==
  ASSUME NEW s \in SUBSET (0 .. nitems - 1)
  PROVE  IsFiniteSet(s) /\ Cardinality(s) \in Nat
<1>1. IsFiniteSet(0 .. nitems - 1)
  BY FS_Interval
<1>2. IsFiniteSet(s)
  BY <1>1, FS_Subset
<1> QED
  BY <1>2, FS_CardinalityType

LEMMA PoolInitInv == PoolInit => PoolInv
<1> SUFFICES ASSUME PoolInit PROVE PoolInv
  OBVIOUS
<1>1. TEST \in BOOLEAN
  BY Zenon DEF PoolInit
<1>2. pool = <<>> /\ ptrs = {} /\ ptrn = 0
  BY DEF PoolInit
<1>3. pool \in Seq(Arenas) /\ Len(pool) = 0
  BY <1>2
<1>4. IsFiniteSet(ptrs) /\ Cardinality(ptrs) = ptrn
  BY <1>2, FS_EmptySet
<1> QED
  BY <1>1, <1>2, <1>3, <1>4 DEF PoolInv

\* A fresh arena is empty (objpool.c:95-113).
LEMMA FreshArena ==
  /\ init_arena \in Arenas /\ Levels(init_arena)
  /\ init_arena.bitmap = {} /\ init_arena.nfree = nitems
<1>1. \A w \in Nat : ~Full({}, w)
  <2> TAKE w \in Nat
  <2>1. PICK lo \in Nat, hi \in Nat : lo = w * WORD /\ hi = (w + 1) * WORD /\ lo < hi
    BY WordOf
  <2>2. lo \in w * WORD .. (w + 1) * WORD - 1
    BY <2>1
  <2> QED
    BY <2>2 DEF Full
<1>2. {w \in 0 .. nitems : Full({}, w)} = {}
  BY <1>1
<1> QED
  BY <1>2 DEF init_arena, Arenas, Levels

\* An allocation takes an item that nobody holds from the first arena that has one.
LEMMA ObjAllocKeeps ==
  ASSUME PoolInv, objalloc
  PROVE  PoolInv'
<1> USE DEF PoolInv
<1>1. PICK a \in 1 .. Len(pool) + 1 :
        LET list == Append(pool, init_arena)
        IN  /\ list[a].nfree > 0
            /\ pool' = [SubSeq(list, 1, IF a > Len(pool) THEN a ELSE Len(pool)) EXCEPT ![a] = AllocBlock(@)]
            /\ ptrs' = ptrs \cup {<<a, BlockIndex(list[a])>>}
            /\ ptrn' = ptrn + 1
            /\ UNCHANGED TEST
  BY DEF objalloc
<1>2. PICK arena : arena = Append(pool, init_arena)[a]
  OBVIOUS
<1>3. PICK n \in Nat : n = IF a > Len(pool) THEN a ELSE Len(pool)
  OBVIOUS
<1>4. PICK list \in Seq(Arenas) : list = Append(pool, init_arena) /\ Len(list) = Len(pool) + 1
                                  /\ \A b \in 1 .. Len(pool) : list[b] = pool[b]
                                  /\ list[Len(pool) + 1] = init_arena
  <2>1. PICK fresh \in Arenas : fresh = init_arena
    BY FreshArena
  <2>2. Append(pool, fresh) \in Seq(Arenas)
    OBVIOUS
  <2>3. /\ Len(Append(pool, fresh)) = Len(pool) + 1
        /\ \A b \in 1 .. Len(pool) : Append(pool, fresh)[b] = pool[b]
        /\ Append(pool, fresh)[Len(pool) + 1] = fresh
    OBVIOUS
  <2> QED
    BY <2>1, <2>2, <2>3
<1>5. arena \in Arenas /\ (~TEST => Levels(arena)) /\ arena.bitmap = HeldIn(a) /\ arena.nfree = nitems - Cardinality(HeldIn(a))
  <2>1. CASE a \in 1 .. Len(pool)
    BY <1>2, <1>4, <2>1 DEF ArenaExact
  <2>2. CASE a = Len(pool) + 1
    <3>1. HeldIn(a) = {}
      BY <2>2 DEF HeldIn
    <3>2. Cardinality(HeldIn(a)) = 0
      BY <3>1, FS_EmptySet
    <3>3. arena = init_arena
      BY <1>2, <1>4, <2>2
    <3> QED
      BY <3>1, <3>2, <3>3, FreshArena
  <2> QED
    BY <2>1, <2>2
<1>6. HeldIn(a) \in SUBSET (0 .. nitems - 1) /\ IsFiniteSet(HeldIn(a)) /\ Cardinality(HeldIn(a)) \in Nat
  BY ItemSets DEF HeldIn
<1>7. Cardinality(arena.bitmap) < nitems
  BY <1>1, <1>2, <1>5, <1>6
<1>8. PICK bit \in 0 .. nitems - 1 : bit = BlockIndex(arena) /\ bit \notin arena.bitmap
  BY <1>5, <1>7, BlockFound
<1>9. PICK new \in Arenas : /\ new = AllocBlock(arena) /\ (~TEST => Levels(new))
                            /\ new.bitmap = arena.bitmap \cup {bit} /\ new.nfree = arena.nfree - 1
  BY <1>5, <1>8, AllocBlockKeeps
<1>10. PICK sub \in Seq(Arenas) : sub = SubSeq(list, 1, n) /\ Len(sub) = n /\ \A b \in 1 .. n : sub[b] = list[b]
  <2>1. n \in 0 .. Len(list)
    BY <1>3, <1>4
  <2>2. /\ SubSeq(list, 1, n) \in Seq(Arenas) /\ Len(SubSeq(list, 1, n)) = n
        /\ \A b \in 1 .. n : SubSeq(list, 1, n)[b] = list[b]
    BY <2>1, SMTT(30)
  <2> QED
    BY <2>2
<1>11. pool' = [sub EXCEPT ![a] = new]
  <2>1. pool' = [sub EXCEPT ![a] = AllocBlock(@)]
    BY <1>1, <1>3, <1>4, <1>10
  <2>2. sub[a] = arena
    BY <1>2, <1>3, <1>4, <1>10
  <2> QED
    BY <1>9, <2>1, <2>2
<1>12. /\ pool' \in Seq(Arenas) /\ Len(pool') = n
       /\ pool'[a] = new /\ \A b \in 1 .. Len(pool) : b # a => pool'[b] = pool[b]
  <2>1. a \in 1 .. n /\ \A b \in 1 .. Len(pool) : b \in 1 .. n
    BY <1>3
  <2>2. sub \in [1 .. n -> Arenas]
    <3>1. sub \in Seq(Arenas) /\ Len(sub) = n
      BY <1>10
    <3>2. sub \in [1 .. Len(sub) -> Arenas]
      BY ONLY <3>1
    <3> QED
      BY <3>1, <3>2
  <2>3. pool' \in [1 .. n -> Arenas] /\ pool'[a] = new /\ \A b \in 1 .. n : b # a => pool'[b] = sub[b]
    BY <1>11, <2>1, <2>2
  <2>4. pool' \in Seq(Arenas) /\ Len(pool') = n
    BY <2>3
  <2> QED
    BY <1>4, <1>10, <2>1, <2>3, <2>4
<1>13. ptrs' = ptrs \cup {<<a, bit>>} /\ <<a, bit>> \notin ptrs
  BY <1>1, <1>2, <1>5, <1>8 DEF HeldIn
<1>14. ptrs' \subseteq (1 .. Len(pool')) \X (0 .. nitems - 1)
  BY <1>3, <1>8, <1>12, <1>13
<1>15. IsFiniteSet(ptrs') /\ Cardinality(ptrs') = ptrn'
  <2>1. /\ IsFiniteSet(ptrs \cup {<<a, bit>>})
        /\ Cardinality(ptrs \cup {<<a, bit>>}) = Cardinality(ptrs) + 1
    BY <1>13, FS_AddElement
  <2>2. ptrn' = ptrn + 1
    BY <1>1
  <2> QED
    BY <1>13, <2>1, <2>2
<1>16. ASSUME NEW b \in 1 .. Len(pool') PROVE ArenaExact(b)'
  <2>1. CASE b = a
    <3>1. HeldIn(b)' = HeldIn(a) \cup {bit} /\ bit \notin HeldIn(a)
      BY <1>5, <1>8, <1>13, <2>1 DEF HeldIn
    <3>2. Cardinality(HeldIn(b)') = Cardinality(HeldIn(a)) + 1
      BY <1>6, <3>1, FS_AddElement
    <3>3. new.nfree = nitems - Cardinality(HeldIn(b)')
      BY <1>5, <1>6, <1>9, <3>2
    <3>4. ~TEST' => Levels(new)
      BY <1>1, <1>9
    <3> QED
      BY <1>5, <1>9, <1>12, <2>1, <3>1, <3>3, <3>4 DEF ArenaExact, Levels
  <2>2. CASE b # a
    <3>1. b \in 1 .. Len(pool)
      BY <1>3, <1>12, <2>2
    <3>2. HeldIn(b)' = HeldIn(b)
      BY <1>13, <2>2 DEF HeldIn
    <3>3. pool'[b] = pool[b] /\ TEST' = TEST
      BY <1>1, <1>12, <2>2, <3>1
    <3> QED
      BY <3>1, <3>2, <3>3 DEF ArenaExact, Levels
  <2> QED
    BY <2>1, <2>2
<1>17. TEST' \in BOOLEAN
  BY <1>1
<1> QED
  BY <1>12, <1>14, <1>15, <1>16, <1>17

\* A free gives back an item the caller holds.
LEMMA ObjFreeKeeps ==
  ASSUME PoolInv, NEW ptr \in ptrs, objfree(ptr)
  PROVE  PoolInv'
<1> USE DEF PoolInv
<1>1. PICK a \in 1 .. Len(pool), bit \in 0 .. nitems - 1 : ptr = <<a, bit>>
  OBVIOUS
<1>2. /\ pool' = [pool EXCEPT ![a] = FreeBlock(@, bit)] /\ ptrs' = ptrs \ {<<a, bit>>}
      /\ ptrn' = ptrn - 1 /\ TEST' = TEST
  BY <1>1 DEF objfree
<1>3. PICK arena \in Arenas : arena = pool[a]
  OBVIOUS
<1>4. (~TEST => Levels(arena)) /\ arena.bitmap = HeldIn(a) /\ arena.nfree = nitems - Cardinality(HeldIn(a))
  BY <1>3 DEF ArenaExact
<1>5. HeldIn(a) \in SUBSET (0 .. nitems - 1) /\ IsFiniteSet(HeldIn(a)) /\ Cardinality(HeldIn(a)) \in Nat
  BY ItemSets DEF HeldIn
<1>6. bit \in HeldIn(a)
  BY <1>1 DEF HeldIn
<1>7. PICK new \in Arenas : /\ new = FreeBlock(arena, bit) /\ (~TEST => Levels(new))
                            /\ new.bitmap = arena.bitmap \ {bit} /\ new.nfree = arena.nfree + 1
  BY <1>4, <1>6, FreeBlockKeeps
<1>8. /\ pool' \in Seq(Arenas) /\ Len(pool') = Len(pool)
      /\ pool'[a] = new /\ \A b \in 1 .. Len(pool) : b # a => pool'[b] = pool[b]
  BY <1>2, <1>3, <1>7
<1>9. IsFiniteSet(ptrs') /\ Cardinality(ptrs') = ptrn'
  BY <1>1, <1>2, FS_RemoveElement
<1>10. ASSUME NEW b \in 1 .. Len(pool') PROVE ArenaExact(b)'
  <2>1. CASE b = a
    <3>1. HeldIn(b)' = HeldIn(a) \ {bit}
      BY <1>2, <2>1 DEF HeldIn
    <3>2. Cardinality(HeldIn(b)') = Cardinality(HeldIn(a)) - 1
      <4>1. Cardinality(HeldIn(a) \ {bit}) = Cardinality(HeldIn(a)) - 1
        <5>1. PICK s : s = HeldIn(a) /\ IsFiniteSet(s) /\ bit \in s
          BY <1>5, <1>6
        <5> QED
          BY <5>1, FS_RemoveElement
      <4> QED
        BY <3>1, <4>1
    <3>3. new.nfree = nitems - Cardinality(HeldIn(b)')
      BY <1>4, <1>5, <1>7, <3>2
    <3>4. ~TEST' => Levels(new)
      BY <1>2, <1>7
    <3> QED
      BY <1>4, <1>7, <1>8, <2>1, <3>1, <3>3, <3>4 DEF ArenaExact, Levels
  <2>2. CASE b # a
    <3>1. HeldIn(b)' = HeldIn(b)
      BY <1>2, <2>2 DEF HeldIn
    <3>2. pool'[b] = pool[b] /\ b \in 1 .. Len(pool)
      BY <1>8, <2>2
    <3> QED
      BY <1>2, <3>1, <3>2 DEF ArenaExact, Levels
  <2> QED
    BY <2>1, <2>2
<1>11. ptrs' \subseteq (1 .. Len(pool')) \X (0 .. nitems - 1) /\ TEST' \in BOOLEAN
  BY <1>2, <1>8
<1> QED
  BY <1>8, <1>9, <1>10, <1>11

LEMMA PoolNextInv ==
  ASSUME PoolInv, [PoolNext]_poolVars
  PROVE  PoolInv'
<1>1. CASE UNCHANGED poolVars
  <2>1. UNCHANGED <<TEST, pool, ptrs, ptrn>>
    BY <1>1 DEF poolVars
  <2>2. ASSUME NEW a \in 1 .. Len(pool) PROVE ArenaExact(a)'
    BY <2>1, <2>2 DEF PoolInv, ArenaExact, HeldIn, Levels
  <2> QED
    BY <2>1, <2>2 DEF PoolInv
<1>2. CASE PoolNext
  BY <1>2, ObjAllocKeeps, ObjFreeKeeps DEF PoolNext
<1> QED
  BY <1>1, <1>2

\* For every number of items, every size of a word and every order of calls the pool gives
\* no object out twice, its counters are exact and, without TEST, so are the two levels
\* that lead to a free item (objpool.c:36-92).
THEOREM PoolExactProved == PoolSpec => []PoolExact
<1>1. ASSUME PoolInv PROVE PoolExact
  <2>1. DOMAIN pool = 1 .. Len(pool)
    BY <1>1 DEF PoolInv
  <2> QED
    BY <1>1, <2>1 DEF PoolInv, ArenaExact, HeldIn, Levels, PoolExact
<1> QED
  BY <1>1, PoolInitInv, PoolNextInv, PTL DEF PoolSpec

-----------------------------------------------------------------------------
(***************************************************************************)
(* stralloc.c                                                              *)
(***************************************************************************)
HIDE ObjPoolAssumption

\* The sizes of stralloc.c:4-5 and of the arena.
LEMMA Sizes ==
  /\ HEADER \in Nat /\ End \in Nat /\ MAX_LENGTH \in 1 .. 126
  /\ MAX_BLKSZ \in 2 .. 127 /\ MAX_BLKSZ = MAX_LENGTH + 1
  /\ HEADER + MAX_BLKSZ <= End
  /\ Offset \subseteq Nat /\ HEADER \in Offset /\ End \in Offset
  /\ ARENA_SIZE = End + 1
  /\ \A o : o \in Offset <=> o \in Nat /\ HEADER <= o /\ o <= End
<1>1. ARENA_SIZE \in Nat /\ HEADER \in Nat /\ MAX_LENGTH \in 1 .. 126
      /\ HEADER + MAX_LENGTH + 1 < ARENA_SIZE
  BY StrAllocAssumption
<1> QED
  BY <1>1 DEF End, MAX_BLKSZ, Offset

\* BLOCK_SIZE (stralloc.c:29).
LEMMA AbsFact ==
  ASSUME NEW x \in Int
  PROVE  Abs(x) \in Nat /\ (x > 0 => Abs(x) = x) /\ (x < 0 => Abs(x) = -x) /\ (Abs(x) = 0 <=> x = 0)
BY DEF Abs

LEMMA ByteIsInt ==
  ASSUME NEW d \in [Offset -> Byte], NEW o \in Offset
  PROVE  d[o] \in Int
BY DEF Byte

LEMMA Int8Fact ==
  ASSUME NEW x \in Byte
  PROVE  Int8(x) = x
BY DEF Int8, Byte

-----------------------------------------------------------------------------
\* B are the headers of the bytes d: from each of them its size leads to the next one.
IsBlocks(d, B) ==
  /\ B \subseteq Offset
  /\ HEADER \in B
  /\ End \in B
  /\ d[End] = 0
  /\ \A o \in B : o # End => d[o] # 0 /\ Abs(d[o]) <= MAX_BLKSZ
  /\ \A o \in B : o # End => o + Abs(d[o]) \in B
  /\ \A o, q \in B : o # End /\ o < q => o + Abs(d[o]) <= q

\* One equation says what Headers computes.
LEMMA BlocksStep ==
  ASSUME NEW d \in [Offset -> Byte], NEW B, IsBlocks(d, B), NEW o \in Offset
  PROVE  o \in B <=> o = HEADER \/ \E q \in HEADER .. o - 1 : q + Abs(d[q]) = o /\ q \in B
<1>1. ASSUME NEW q \in HEADER .. o - 1, q + Abs(d[q]) = o, q \in B
      PROVE  o \in B
  BY <1>1, Sizes DEF IsBlocks
<1>2. ASSUME o \in B, o # HEADER
      PROVE  \E q \in HEADER .. o - 1 : q + Abs(d[q]) = o /\ q \in B
  <2> DEFINE T == {o - q : q \in {r \in B : r < o}}
  <2>1. T \subseteq Nat /\ T # {}
    BY <1>2, Sizes DEF IsBlocks
  <2>2. PICK t \in T : \A y \in T : t <= y
    BY <2>1, Least
  <2>3. PICK q \in B : q < o /\ t = o - q
    OBVIOUS
  <2>4. \A r \in B : r < o => r <= q
    <3> SUFFICES ASSUME NEW r \in B, r < o
                 PROVE  r <= q
      OBVIOUS
    <3>1. o - r \in T
      OBVIOUS
    <3>2. o \in Nat /\ r \in Nat /\ q \in Nat
      BY <1>2, Sizes DEF IsBlocks
    <3> QED
      BY <3>1, <3>2, <2>2, <2>3
  <2> HIDE DEF T
  <2>5. q \in Nat /\ o \in Nat /\ HEADER <= q /\ q # End
    BY <2>3, <1>2, Sizes DEF IsBlocks
  <2>6. Abs(d[q]) \in Nat /\ Abs(d[q]) > 0
    <3>1. d[q] \in Int /\ d[q] # 0
      BY <2>5 DEF IsBlocks, Byte
    <3> QED
      BY <3>1, AbsFact
  <2>7. q + Abs(d[q]) \in B /\ q + Abs(d[q]) <= o
    BY <2>5, <2>3, <1>2 DEF IsBlocks
  <2>8. q + Abs(d[q]) = o
    BY <2>4, <2>5, <2>6, <2>7
  <2> QED
    BY <2>8, <2>5, <2>3, Sizes
<1> QED
  BY <1>1, <1>2 DEF IsBlocks

\* The walk of strmemcheck meets exactly the blocks.
LEMMA HeadersAre ==
  ASSUME NEW d \in [Offset -> Byte], NEW B, IsBlocks(d, B)
  PROVE  Headers(d) = B
<1> DEFINE G(f) == [o \in Offset |->
                      o = HEADER \/ \E q \in HEADER .. o - 1 : q + Abs(d[q]) = o /\ f[q]]
           g == [o \in Offset |-> o \in B]
           on == CHOOSE f : f = G(f)
<1>1. g = G(g)
  <2>1. ASSUME NEW o \in Offset
        PROVE  g[o] = G(g)[o]
    <3>1. \A q \in HEADER .. o - 1 : g[q] = (q \in B)
      BY Sizes
    <3>2. G(g)[o] = (o = HEADER \/ \E q \in HEADER .. o - 1 : q + Abs(d[q]) = o /\ q \in B)
      BY <3>1
    <3>3. g[o] = (o \in B)
      OBVIOUS
    <3> HIDE DEF G, g
    <3> QED
      BY <3>2, <3>3, BlocksStep
  <2> QED
    BY <2>1, Zenon
<1>2. on = G(on)
  <2> HIDE DEF G, g
  <2> QED
    BY <1>1, Zenon
<1>3. \A o \in Offset : (on[o] <=> o \in B)
  <2> DEFINE Bad == {o \in Offset : ~(on[o] <=> o \in B)}
  <2> SUFFICES ASSUME Bad # {}
               PROVE  FALSE
    OBVIOUS
  <2>1. PICK o \in Bad : \A y \in Bad : o <= y
    BY Least, Sizes
  <2>2. \A q \in HEADER .. o - 1 : (on[q] <=> q \in B)
    BY <2>1, Sizes
  <2> HIDE DEF on
  <2>3. on[o] <=> (o = HEADER \/ \E q \in HEADER .. o - 1 : q + Abs(d[q]) = o /\ on[q])
    BY <1>2
  <2>4. o \in B <=> o = HEADER \/ \E q \in HEADER .. o - 1 : q + Abs(d[q]) = o /\ q \in B
    BY BlocksStep
  <2>5. (\E q \in HEADER .. o - 1 : q + Abs(d[q]) = o /\ on[q])
        <=> \E q \in HEADER .. o - 1 : q + Abs(d[q]) = o /\ q \in B
    BY <2>2
  <2>6. on[o] <=> o \in B
    BY <2>3, <2>4, <2>5, Zenon
  <2> QED
    BY <2>6
<1>4. Headers(d) = {o \in Offset : on[o]}
  BY DEF Headers
<1> HIDE DEF on
<1> QED
  BY <1>3, <1>4 DEF IsBlocks

\* What the caller knows of a string.
String == [arena : Nat, offset : Nat, len : 1 .. MAX_LENGTH, byte : Byte]

\* The block at o is one of the strings H.
Taken(H, o) == \E p \in H : p.offset = o + 1

\* An arena in order: its bytes are d, its headers are B, and H are the strings in it.
\* A block that is free, or that may become free, is followed by the rest of a split,
\* unless it has the full size.
Sound(d, B, H) ==
  /\ d \in [Offset -> Byte]
  /\ IsBlocks(d, B)
  /\ H \subseteq String
  /\ \A p \in H : p.offset - 1 \in B /\ d[p.offset - 1] = p.len + 1
  /\ \A p, q \in H : p.offset = q.offset => p = q
  /\ \A p \in H : \A z \in p.offset .. p.offset + p.len - 1 : d[z] = p.byte
  /\ \A o \in B : (d[o] < 0 \/ Taken(H, o)) /\ Abs(d[o]) < MAX_BLKSZ
       => d[o + Abs(d[o])] >= 0 /\ ~Taken(H, o + Abs(d[o]))

\* A block that is not the end lies in the arena, and so does the header behind it.
LEMMA BlockFact ==
  ASSUME NEW d \in [Offset -> Byte], NEW B, IsBlocks(d, B), NEW o \in B, d[o] # 0
  PROVE  /\ o \in Nat /\ HEADER <= o /\ o < End
         /\ d[o] \in Byte /\ d[o] \in Int
         /\ Abs(d[o]) \in 1 .. MAX_BLKSZ
         /\ o + Abs(d[o]) \in B
         /\ o + Abs(d[o]) <= End
<1>1. o \in Offset /\ o # End
  BY DEF IsBlocks
<1>2. o \in Nat /\ HEADER <= o /\ o < End
  BY <1>1, Sizes
<1>3. d[o] \in Byte /\ d[o] \in Int
  BY <1>1 DEF Byte
<1>4. Abs(d[o]) \in Nat /\ Abs(d[o]) # 0 /\ Abs(d[o]) <= MAX_BLKSZ
  BY <1>1, <1>3, AbsFact DEF IsBlocks
<1>5. Abs(d[o]) \in 1 .. MAX_BLKSZ
  BY <1>4, Sizes
<1>6. o + Abs(d[o]) \in B /\ o + Abs(d[o]) <= End
  BY <1>1, Sizes DEF IsBlocks
<1> QED
  BY <1>2, <1>3, <1>5, <1>6

\* A string lies inside its block.
LEMMA StringFact ==
  ASSUME NEW d, NEW B, NEW H, Sound(d, B, H), NEW p \in H
  PROVE  /\ p \in String /\ p.offset \in Nat /\ p.len \in 1 .. MAX_LENGTH /\ p.byte \in Byte
         /\ p.offset - 1 \in B /\ p.offset - 1 \in Nat
         /\ d[p.offset - 1] = p.len + 1
         /\ d[p.offset - 1] # 0
         /\ Abs(d[p.offset - 1]) = p.len + 1
         /\ p.offset + p.len \in B
         /\ p.offset + p.len <= End
<1>1. p \in String /\ p.offset - 1 \in B /\ d[p.offset - 1] = p.len + 1 /\ IsBlocks(d, B)
      /\ d \in [Offset -> Byte]
  BY DEF Sound
<1>2. p.offset \in Nat /\ p.len \in 1 .. MAX_LENGTH /\ p.byte \in Byte
  BY <1>1 DEF String
<1>3. d[p.offset - 1] # 0 /\ d[p.offset - 1] > 0 /\ d[p.offset - 1] \in Int
  BY <1>1, <1>2, Sizes
<1>4. Abs(d[p.offset - 1]) = p.len + 1
  BY <1>3, <1>1, AbsFact
<1>5. p.offset - 1 \in Nat /\ p.offset - 1 + Abs(d[p.offset - 1]) \in B
      /\ p.offset - 1 + Abs(d[p.offset - 1]) <= End
  BY <1>1, <1>3, BlockFact
<1>6. p.offset - 1 + (p.len + 1) = p.offset + p.len
  BY <1>2, Sizes
<1> QED
  BY <1>1, <1>2, <1>3, <1>4, <1>5, <1>6

\* Two blocks have no byte in common.
LEMMA Apart ==
  ASSUME NEW d \in [Offset -> Byte], NEW B, IsBlocks(d, B),
         NEW o \in B, NEW q \in B, d[o] # 0, o # q
  PROVE  q < o \/ o + Abs(d[o]) <= q
<1>1. o \in Nat /\ q \in Nat
  BY Sizes DEF IsBlocks
<1>2. o # End
  BY DEF IsBlocks
<1> QED
  BY <1>1, <1>2 DEF IsBlocks

-----------------------------------------------------------------------------
\* strfree (stralloc.c:136-138).
LEMMA Freed ==
  ASSUME NEW d, NEW B, NEW H, Sound(d, B, H), NEW p \in H,
         NEW e, e = [d EXCEPT ![p.offset - 1] = -@]
  PROVE  Sound(e, B, H \ {p})
<1> DEFINE o == p.offset - 1
<1>1. d \in [Offset -> Byte] /\ IsBlocks(d, B) /\ H \subseteq String /\ B \subseteq Offset
  BY DEF Sound, IsBlocks
<1>2. o \in B /\ o \in Offset /\ d[o] = p.len + 1 /\ d[o] # 0 /\ p.len \in 1 .. MAX_LENGTH
      /\ Abs(d[o]) = p.len + 1 /\ o \in Nat /\ p.offset = o + 1
  BY <1>1, StringFact
<1> HIDE DEF o
<1>3. e = [d EXCEPT ![o] = -d[o]]
  BY <1>1, <1>2 DEF o
<1>4. e[o] = -d[o] /\ \A z \in Offset : z # o => e[z] = d[z]
  BY <1>1, <1>2, <1>3
<1>5. -d[o] \in Byte /\ Abs(-d[o]) = Abs(d[o]) /\ -d[o] # 0
  <2>1. PICK v \in 2 .. 127 : v = d[o]
    BY <1>2, Sizes
  <2>2. -v \in Byte /\ Abs(-v) = Abs(v) /\ -v # 0
    BY <2>1 DEF Byte, Abs
  <2> QED
    BY <2>1, <2>2
<1>6. e \in [Offset -> Byte]
  BY <1>1, <1>3, <1>5
<1>7. \A x \in B : Abs(e[x]) = Abs(d[x]) /\ (e[x] = 0 <=> d[x] = 0)
  BY <1>1, <1>2, <1>4, <1>5
<1>8. IsBlocks(e, B)
  BY <1>1, <1>7, Sizes DEF IsBlocks
<1>9. \A r \in H \ {p} : r \in H /\ r.offset # p.offset /\ r.offset - 1 \in Offset /\ r.offset - 1 # o
  <2> SUFFICES ASSUME NEW r \in H \ {p}
               PROVE  r.offset # p.offset /\ r.offset - 1 \in Offset /\ r.offset - 1 # o
    OBVIOUS
  <2>1. r.offset # p.offset
    BY DEF Sound
  <2>2. r.offset - 1 \in B /\ r.offset \in Nat /\ p.offset \in Nat
    BY StringFact
  <2> QED
    BY <2>1, <2>2, <1>1, <1>2
<1>10. \A r \in H \ {p} : r.offset - 1 \in B /\ e[r.offset - 1] = r.len + 1
  BY <1>9, <1>4 DEF Sound
<1>11. \A r, q \in H \ {p} : r.offset = q.offset => r = q
  BY DEF Sound
<1>12. ASSUME NEW r \in H \ {p}, NEW z \in r.offset .. r.offset + r.len - 1
       PROVE  e[z] = r.byte
  <2>1. r \in H /\ d[z] = r.byte
    BY <1>12 DEF Sound
  <2>2. r.offset \in Nat /\ r.len \in 1 .. MAX_LENGTH /\ r.offset - 1 \in B
        /\ Abs(d[r.offset - 1]) = r.len + 1 /\ d[r.offset - 1] # 0 /\ r.offset + r.len <= End
        /\ r.offset - 1 \in Nat
    BY <2>1, StringFact
  <2>3. r.offset - 1 # o
    BY <1>9
  <2>4. o < r.offset - 1 \/ r.offset - 1 + (r.len + 1) <= o
    BY <2>2, <2>3, <1>1, <1>2, Apart
  <2>5. z # o
    BY <2>2, <2>4, <1>2, Sizes
  <2>6. z \in Offset
    BY <2>2, <1>1, Sizes
  <2> QED
    BY <2>1, <2>5, <2>6, <1>4
<1>13. ASSUME NEW x \in B, e[x] < 0 \/ Taken(H \ {p}, x), Abs(e[x]) < MAX_BLKSZ
       PROVE  e[x + Abs(e[x])] >= 0 /\ ~Taken(H \ {p}, x + Abs(e[x]))
  <2>1. Abs(e[x]) = Abs(d[x])
    BY <1>7
  <2>2. Taken(H, o)
    BY <1>2 DEF Taken
  <2>3. d[x] < 0 \/ Taken(H, x)
    <3>1. CASE x = o
      BY <3>1, <2>2
    <3>2. CASE x # o
      BY <3>2, <1>13, <1>4, <1>1 DEF Taken
    <3> QED
      BY <3>1, <3>2
  <2>4. d[x + Abs(d[x])] >= 0 /\ ~Taken(H, x + Abs(d[x]))
    BY <2>1, <2>3, <1>13 DEF Sound
  <2>5. d[x] # 0
    <3>1. CASE d[x] < 0
      BY <3>1, <1>1, BlockFact
    <3>2. CASE Taken(H, x)
      <4>1. PICK r \in H : r.offset = x + 1
        BY <3>2 DEF Taken
      <4>2. r.offset - 1 = x /\ d[r.offset - 1] # 0
        BY <4>1, StringFact, <1>1, Sizes
      <4> QED
        BY <4>2
    <3> QED
      BY <3>1, <3>2, <2>3
  <2>6. x + Abs(d[x]) \in Offset
    BY <2>5, <1>1, BlockFact
  <2>7. x + Abs(d[x]) # o
    BY <2>2, <2>4
  <2> QED
    BY <2>1, <2>4, <2>6, <2>7, <1>4 DEF Taken
<1> QED
  BY <1>1, <1>6, <1>8, <1>10, <1>11, <1>12, <1>13 DEF Sound

\* alloc_block and the caller write into a free block (stralloc.c:46-59): the header
\* and the string, and behind it the header of what is left over.
LEMMA Given ==
  ASSUME NEW d, NEW B, NEW H, Sound(d, B, H), NEW o \in B, d[o] < 0,
         NEW l \in 1 .. MAX_LENGTH, l + 1 <= Abs(d[o]), NEW m, m = o + l + 1,
         NEW e \in [Offset -> Byte],
         e[o] = l + 1,
         NEW p \in String, p.offset = o + 1, p.len = l,
         \A z \in o + 1 .. o + l : e[z] = p.byte,
         l + 1 < Abs(d[o]) => e[m] = Abs(d[o]) - (l + 1),
         l + 1 = Abs(d[o]) => e[m] = d[m],
         \A z \in Offset : z < o \/ z > m => e[z] = d[z],
         NEW C, C = B \cup {m}, NEW K, K = H \cup {p}
  PROVE  Sound(e, C, K)
<1> DEFINE size == Abs(d[o])
<1>1. d \in [Offset -> Byte] /\ IsBlocks(d, B) /\ H \subseteq String /\ B \subseteq Offset
  BY DEF Sound, IsBlocks
<1>2. /\ o \in Nat /\ HEADER <= o /\ o < End /\ o \in Offset
      /\ size \in 1 .. MAX_BLKSZ
      /\ o + size \in B
      /\ o + size <= End
  BY <1>1, BlockFact
<1>3. m \in Nat /\ o < m /\ m <= o + size /\ m \in Offset /\ l + 1 \in 2 .. MAX_BLKSZ
  BY <1>2, Sizes
<1>4. /\ l + 1 < size => e[m] = size - (l + 1)
      /\ l + 1 = size => e[m] = d[m] /\ m = o + size
      /\ l + 1 < size \/ l + 1 = size
      /\ \A z \in Offset : z < o \/ z > m => e[z] = d[z]
  BY <1>2, <1>3
<1>5. o + (l + 1) = m
  BY <1>2
<1> HIDE DEF size
<1>6. ASSUME NEW x \in B, x # o
      PROVE  /\ x \in Nat /\ x \in Offset
             /\ x < o \/ o + size <= x
             /\ e[x] = d[x]
  <2>1. x \in Nat /\ x \in Offset
    BY <1>1, Sizes
  <2>2. x < o \/ o + size <= x
    BY <1>1, <1>6, Apart DEF size
  <2>3. CASE x = m
    BY <2>1, <2>2, <2>3, <1>2, <1>3, <1>4
  <2>4. CASE x # m
    BY <2>1, <2>2, <2>4, <1>2, <1>3, <1>4
  <2> QED
    BY <2>1, <2>2, <2>3, <2>4
<1>7. m \in B => l + 1 = size
  <2> SUFFICES ASSUME m \in B
               PROVE  l + 1 = size
    OBVIOUS
  <2>1. m < o \/ o + size <= m
    BY <1>6, <1>3, <1>2
  <2> QED
    BY <2>1, <1>2, <1>3, <1>5
<1>8. Abs(e[o]) = l + 1 /\ e[o] # 0 /\ e[o] > 0
  BY Sizes, AbsFact
<1>9. ASSUME l + 1 < size
      PROVE  e[m] > 0 /\ e[m] # 0 /\ Abs(e[m]) = size - (l + 1) /\ Abs(e[m]) <= MAX_BLKSZ
             /\ m + Abs(e[m]) = o + size
  <2>1. e[m] = size - (l + 1) /\ size - (l + 1) \in Int /\ size - (l + 1) > 0
    BY <1>9, <1>2, <1>4
  <2>2. Abs(e[m]) = size - (l + 1)
    BY <2>1, AbsFact
  <2> QED
    BY <2>1, <2>2, <1>2, <1>3, <1>5, Sizes
<1>10. ASSUME NEW x \in B \cup {m}, x # o, ~(x = m /\ l + 1 < size)
       PROVE  x \in B /\ e[x] = d[x]
  <2>1. x \in B
    BY <1>10, <1>2, <1>4
  <2> QED
    BY <2>1, <1>6, <1>10
<1>11. IsBlocks(e, C)
  <2>1. C \subseteq Offset /\ HEADER \in C /\ End \in C
    BY <1>1, <1>3 DEF IsBlocks
  <2>2. e[End] = 0
    <3>1. End \in B /\ End # o /\ d[End] = 0
      BY <1>1, <1>2, Sizes DEF IsBlocks
    <3> QED
      BY <3>1, <1>6
  <2>3. ASSUME NEW x \in C, x # End
        PROVE  e[x] # 0 /\ Abs(e[x]) <= MAX_BLKSZ /\ x + Abs(e[x]) \in C
    <3>1. CASE x = o
      BY <3>1, <1>8, <1>5, <1>3, Sizes
    <3>2. CASE x = m /\ l + 1 < size
      BY <3>2, <1>9, <1>2
    <3>3. CASE x # o /\ ~(x = m /\ l + 1 < size)
      BY <3>3, <2>3, <1>10, <1>1 DEF IsBlocks
    <3> QED
      BY <3>1, <3>2, <3>3
  <2>4. ASSUME NEW x \in C, NEW q \in C, x # End, x < q
        PROVE  x + Abs(e[x]) <= q
    <3>1. CASE x = o
      <4>1. CASE q = m
        BY <3>1, <4>1, <1>8, <1>5, <1>3
      <4>2. CASE q # m
        <5>1. q \in B /\ q # o
          BY <4>2, <3>1, <2>4, <1>2
        <5>2. q \in Nat /\ o + size <= q
          BY <5>1, <1>6, <1>2, <3>1, <2>4
        <5> QED
          BY <5>2, <1>2, <1>3, <3>1, <1>8, <1>5
      <4> QED
        BY <4>1, <4>2
    <3>2. CASE x = m /\ l + 1 < size
      <4>1. q \in B /\ q # o /\ q > m
        BY <3>2, <2>4, <1>2, <1>3
      <4>2. q \in Nat /\ o + size <= q
        BY <4>1, <1>6, <1>2, <1>3
      <4> QED
        BY <4>2, <1>9, <3>2
    <3>3. CASE x # o /\ ~(x = m /\ l + 1 < size)
      <4>1. x \in B /\ e[x] = d[x] /\ x \in Nat /\ (x < o \/ o + size <= x)
        BY <3>3, <1>10, <1>6
      <4>2. CASE q \in B
        BY <4>1, <4>2, <2>4, <1>1 DEF IsBlocks
      <4>3. CASE q = m
        <5>1. x < o
          BY <4>1, <4>3, <2>4, <1>2, <1>3
        <5>2. x + Abs(d[x]) <= o
          BY <5>1, <4>1, <2>4, <1>1 DEF IsBlocks
        <5>3. d[x] \in Int
          BY <4>1, <1>1, ByteIsInt
        <5>4. Abs(d[x]) \in Nat
          BY <5>3, AbsFact
        <5> QED
          BY <5>2, <5>4, <4>1, <4>3, <1>2, <1>3
      <4> QED
        BY <4>2, <4>3
    <3> QED
      BY <3>1, <3>2, <3>3
  <2> QED
    BY <2>1, <2>2, <2>3, <2>4 DEF IsBlocks
<1>12. ASSUME NEW r \in H
       PROVE  /\ r.offset \in Nat /\ r.len \in 1 .. MAX_LENGTH
              /\ r.offset - 1 \in B /\ r.offset - 1 # o
              /\ e[r.offset - 1] = r.len + 1
              /\ r.offset # p.offset
              /\ r.offset + r.len <= o \/ o + size <= r.offset - 1
              /\ HEADER < r.offset /\ r.offset + r.len <= End
  <2>1. /\ r.offset \in Nat /\ r.len \in 1 .. MAX_LENGTH
        /\ r.offset - 1 \in B /\ r.offset - 1 \in Nat
        /\ d[r.offset - 1] = r.len + 1 /\ d[r.offset - 1] # 0
        /\ Abs(d[r.offset - 1]) = r.len + 1
        /\ r.offset + r.len <= End
    BY StringFact
  <2>2. r.offset - 1 # o
    BY <2>1, Sizes
  <2>3. e[r.offset - 1] = r.len + 1 /\ (r.offset - 1 < o \/ o + size <= r.offset - 1)
    BY <2>1, <2>2, <1>6
  <2>4. o < r.offset - 1 \/ r.offset - 1 + (r.len + 1) <= o
    BY <2>1, <2>2, <1>1, Apart
  <2>5. HEADER <= r.offset - 1
    BY <2>1, <1>1, Sizes
  <2> QED
    BY <2>1, <2>2, <2>3, <2>4, <2>5, <1>2, Sizes
<1>13. \A r \in K : r.offset - 1 \in C /\ e[r.offset - 1] = r.len + 1
  <2>1. p.offset - 1 = o
    BY <1>2
  <2> QED
    BY <2>1, <1>12
<1>14. \A r, q \in K : r.offset = q.offset => r = q
  <2>1. \A r, q \in H : r.offset = q.offset => r = q
    BY DEF Sound
  <2> QED
    BY <2>1, <1>12
<1>15. ASSUME NEW r \in K, NEW z \in r.offset .. r.offset + r.len - 1
       PROVE  e[z] = r.byte
  <2>1. CASE r = p
    <3>1. z \in o + 1 .. o + l
      BY <2>1, <1>15, <1>2
    <3> QED
      BY <3>1, <2>1
  <2>2. CASE r \in H
    <3>1. d[z] = r.byte
      BY <2>2, <1>15 DEF Sound
    <3>2. z \in Nat /\ HEADER <= z /\ z <= End
      BY <1>12, <2>2, <1>15, Sizes
    <3>3. z < o \/ z > m
      <4>1. CASE r.offset + r.len <= o
        BY <4>1, <2>2, <1>12, <1>15, <1>2
      <4>2. CASE o + size <= r.offset - 1
        BY <4>2, <2>2, <1>12, <1>15, <1>2, <1>3
      <4> QED
        BY <4>1, <4>2, <2>2, <1>12
    <3> QED
      BY <3>1, <3>2, <3>3, <1>4, Sizes
  <2> QED
    BY <2>1, <2>2
<1>16. \A x \in Nat : x # o => (Taken(K, x) <=> Taken(H, x))
  BY <1>2 DEF Taken
<1>17. l + 1 < size => ~Taken(K, m)
  <2> SUFFICES ASSUME l + 1 < size, Taken(K, m)
               PROVE  FALSE
    OBVIOUS
  <2>1. Taken(H, m)
    <3>1. m \in Nat /\ m # o
      BY <1>3, <1>2
    <3> QED
      BY <3>1, <1>16, Zenon
  <2>2. PICK r \in H : r.offset = m + 1
    BY <2>1 DEF Taken
  <2>3. m \in B
    BY <2>2, <1>12, <1>3
  <2> QED
    BY <2>3, <1>7, <1>3, <1>2
<1>18. ASSUME NEW x \in C, e[x] < 0 \/ Taken(K, x), Abs(e[x]) < MAX_BLKSZ
       PROVE  e[x + Abs(e[x])] >= 0 /\ ~Taken(K, x + Abs(e[x]))
  <2>1. CASE x = o
    <3>1. x + Abs(e[x]) = m /\ e[m] \in Int
      BY <2>1, <1>8, <1>5, <1>3 DEF Byte
    <3>2. CASE l + 1 < size
      <4>1. e[m] >= 0 /\ ~Taken(K, m)
        BY <3>1, <3>2, <1>9, <1>17
      <4> QED
        BY <4>1, <3>1
    <3>3. CASE l + 1 = size
      <4>1. d[o + size] >= 0 /\ ~Taken(H, o + size)
        BY <3>3, <2>1, <1>18, <1>8 DEF Sound, size
      <4>2. e[m] >= 0 /\ ~Taken(K, m)
        <5>1. m \in Nat /\ m # o /\ m = o + size
          BY <3>3, <1>4, <1>3, <1>2
        <5>2. ~Taken(K, m)
          BY <5>1, <4>1, <1>16, Zenon
        <5> QED
          BY <5>1, <5>2, <4>1, <3>3, <1>4
      <4> QED
        BY <4>2, <3>1
    <3> QED
      BY <3>2, <3>3, <1>4
  <2>2. CASE x = m /\ l + 1 < size
    <3>1. e[m] > 0 /\ e[m] \in Int
      BY <2>2, <1>9, <1>3 DEF Byte
    <3> QED
      BY <3>1, <2>2, <1>17, <1>18
  <2>3. CASE x # o /\ ~(x = m /\ l + 1 < size)
    <3>1. x \in B /\ e[x] = d[x] /\ x \in Nat
      BY <2>3, <1>10, <1>6
    <3>2. d[x] < 0 \/ Taken(H, x)
      BY <3>1, <2>3, <1>16, <1>18
    <3>3. d[x + Abs(d[x])] >= 0 /\ ~Taken(H, x + Abs(d[x]))
      BY <3>1, <3>2, <1>18 DEF Sound
    <3>4. d[x] # 0
      <4>1. CASE d[x] < 0
        BY <4>1
      <4>2. CASE Taken(H, x)
        <5>1. PICK r \in H : r.offset = x + 1
          BY <4>2 DEF Taken
        <5>2. r.offset - 1 = x /\ d[r.offset - 1] # 0
          BY <5>1, <3>1, StringFact
        <5> QED
          BY <5>2
      <4> QED
        BY <4>1, <4>2, <3>2
    <3>5. x + Abs(d[x]) \in B
      BY <3>1, <3>4, <1>1, BlockFact
    <3>6. x + Abs(d[x]) # o
      <4> SUFFICES ASSUME x + Abs(d[x]) = o
                   PROVE  FALSE
        OBVIOUS
      <4>1. d[o] >= 0
        BY <3>3
      <4>2. d[o] \in Int
        BY <1>1, <1>2, ByteIsInt
      <4> QED
        BY <4>1, <4>2
    <3>7. e[x + Abs(d[x])] = d[x + Abs(d[x])] /\ x + Abs(d[x]) \in Nat
      BY <3>5, <3>6, <1>6
    <3> QED
      BY <3>1, <3>3, <3>6, <3>7, <1>16
  <2> QED
    BY <2>1, <2>2, <2>3
<1>19. K \subseteq String
  BY <1>1
<1> QED
  BY <1>11, <1>13, <1>14, <1>15, <1>18, <1>19 DEF Sound

\* Multiples of m.
LEMMA ModFact ==
  ASSUME NEW x \in Nat, NEW m \in Nat, m > 0
  PROVE  /\ x % m \in 0 .. m - 1
         /\ (x + m) % m = x % m
         /\ x - (x % m) \in Nat
         /\ (x - (x % m)) % m = 0
<1>1. x \div m \in Nat /\ x % m \in 0 .. m - 1 /\ x = (m * (x \div m)) + (x % m)
  OBVIOUS
<1> DEFINE k == x \div m
           r == x % m
<1>2. k \in Nat /\ r \in 0 .. m - 1 /\ x = m * k + r
  BY <1>1
<1> HIDE DEF k, r
<1>3. x + m = m * (k + 1) + r
  BY <1>2
<1>4. \A y, j \in Nat : \A s \in 0 .. m - 1 : y = m * j + s => y % m = s
  OBVIOUS
<1>5. (x + m) % m = r
  BY <1>2, <1>3, <1>4
<1>6. x - r = m * k + 0 /\ x - r \in Nat
  BY <1>2
<1>7. (x - r) % m = 0
  BY <1>2, <1>6, <1>4
<1> QED
  BY <1>1, <1>5, <1>6, <1>7 DEF r

LEMMA ModNear ==
  ASSUME NEW x \in Nat, NEW y \in Nat, NEW m \in Nat, m > 0, x % m = 0, y % m = 0, x < y
  PROVE  x + m <= y
<1> DEFINE j == x \div m
           k == y \div m
<1>1. j \in Nat /\ k \in Nat /\ x = m * j /\ y = m * k
  OBVIOUS
<1> HIDE DEF j, k
<1>2. j < k
  BY <1>1
<1>3. m * j + m <= m * k
  BY <1>1, <1>2
<1> QED
  BY <1>1, <1>3

\* Two full blocks of init_chunk are a block apart.
LEMMA FarApart ==
  ASSUME NEW a \in Nat, NEW b \in Nat, a < b, a - HEADER \in Nat, b - HEADER \in Nat,
         (a - HEADER) % MAX_BLKSZ = 0, (b - HEADER) % MAX_BLKSZ = 0
  PROVE  a + MAX_BLKSZ <= b
<1>1. PICK x \in Nat : x = a - HEADER
  OBVIOUS
<1>2. PICK y \in Nat : y = b - HEADER
  OBVIOUS
<1>3. x < y /\ x % MAX_BLKSZ = 0 /\ y % MAX_BLKSZ = 0 /\ MAX_BLKSZ \in Nat /\ MAX_BLKSZ > 0
  BY <1>1, <1>2, Sizes
<1>4. x + MAX_BLKSZ <= y
  BY <1>3, ModNear
<1> QED
  BY <1>1, <1>2, <1>4, Sizes

-----------------------------------------------------------------------------
\* The blocks that init_chunk makes (stralloc.c:13-24).
FirstBlocks == FullBlocks \cup {LastBlock, End}

LEMMA LastFact ==
  /\ LastBlock \in Nat /\ LastBlock \in Offset /\ HEADER < LastBlock /\ LastBlock <= End
  /\ End < LastBlock + MAX_BLKSZ
  /\ (LastBlock - HEADER) % MAX_BLKSZ = 0 /\ LastBlock - HEADER \in Nat
<1> DEFINE r == (End - HEADER) % MAX_BLKSZ
<1>1. End - HEADER \in Nat /\ MAX_BLKSZ \in Nat /\ MAX_BLKSZ > 0 /\ MAX_BLKSZ <= End - HEADER
  BY Sizes
<1>2. r \in 0 .. MAX_BLKSZ - 1 /\ (End - HEADER) - r \in Nat /\ ((End - HEADER) - r) % MAX_BLKSZ = 0
  BY <1>1, ModFact
<1>3. LastBlock = End - r
  BY DEF LastBlock
<1> HIDE DEF r
<1>4. LastBlock - HEADER = (End - HEADER) - r
  BY <1>2, <1>3, Sizes
<1>5. LastBlock \in Nat /\ HEADER < LastBlock /\ LastBlock <= End /\ End < LastBlock + MAX_BLKSZ
  BY <1>1, <1>2, <1>3, Sizes
<1> QED
  BY <1>2, <1>4, <1>5, Sizes

LEMMA FullFact ==
  ASSUME NEW o \in FullBlocks
  PROVE  /\ o \in Nat /\ o \in Offset /\ HEADER <= o /\ o + MAX_BLKSZ <= End
         /\ o - HEADER \in Nat /\ (o - HEADER) % MAX_BLKSZ = 0
         /\ o < LastBlock
         /\ o + MAX_BLKSZ \in FirstBlocks
         /\ \A q \in FirstBlocks : o < q => o + MAX_BLKSZ <= q
<1>1. o \in Nat /\ o \in Offset /\ HEADER <= o /\ o + MAX_BLKSZ <= End
      /\ o - HEADER \in Nat /\ (o - HEADER) % MAX_BLKSZ = 0
  BY Sizes DEF FullBlocks
<1>2. o < LastBlock
  BY <1>1, LastFact, Sizes
<1> DEFINE x == o + MAX_BLKSZ
<1>3. x \in Nat /\ x - HEADER \in Nat /\ x - HEADER = (o - HEADER) + MAX_BLKSZ /\ x \in Offset
  BY <1>1, Sizes
<1>4. (x - HEADER) % MAX_BLKSZ = 0
  BY <1>1, <1>3, ModFact, Sizes
<1>5. x \in FirstBlocks
  <2> HIDE DEF x
  <2>1. CASE x + MAX_BLKSZ <= End
    <3>1. x + MAX_BLKSZ < ARENA_SIZE
      BY <2>1, <1>3, Sizes
    <3> QED
      BY <3>1, <1>3, <1>4 DEF FirstBlocks, FullBlocks
  <2>2. CASE ~(x + MAX_BLKSZ <= End)
    <3>1. ~(x < LastBlock)
      <4> SUFFICES ASSUME x < LastBlock
                   PROVE  FALSE
        OBVIOUS
      <4>1. x + MAX_BLKSZ <= LastBlock
        BY <1>3, <1>4, LastFact, FarApart
      <4> QED
        BY <4>1, <2>2, <1>3, LastFact, Sizes
    <3>2. ~(LastBlock < x)
      <4> SUFFICES ASSUME LastBlock < x
                   PROVE  FALSE
        OBVIOUS
      <4>1. LastBlock + MAX_BLKSZ <= x
        BY <1>3, <1>4, LastFact, FarApart
      <4>2. x <= End
        BY <1>1, <1>3, Sizes
      <4> QED
        BY <4>1, <4>2, <1>3, LastFact, Sizes
    <3> QED
      BY <3>1, <3>2, <1>3, LastFact DEF FirstBlocks
  <2> QED
    BY <2>1, <2>2
<1>6. ASSUME NEW q \in FirstBlocks, o < q
      PROVE  o + MAX_BLKSZ <= q
  <2>1. CASE q = End
    BY <2>1, <1>1
  <2>2. CASE q # End
    <3>1. q \in Nat /\ q - HEADER \in Nat /\ (q - HEADER) % MAX_BLKSZ = 0
      BY <2>2, LastFact, Sizes DEF FirstBlocks, FullBlocks
    <3> QED
      BY <3>1, <1>1, <1>6, FarApart
  <2> QED
    BY <2>1, <2>2
<1> QED
  BY <1>1, <1>2, <1>5, <1>6

LEMMA NewChunkSound == Sound(NewChunk, FirstBlocks, {})
<1>1. \A o \in FullBlocks : o \in Offset /\ NewChunk[o] = -MAX_BLKSZ /\ Abs(NewChunk[o]) = MAX_BLKSZ
  BY Sizes DEF NewChunk, FullBlocks, Abs
<1>2. LastBlock \notin FullBlocks /\ End \notin FullBlocks
  BY FullFact, LastFact, Sizes
<1>3. NewChunk[LastBlock] = -(End - LastBlock) /\ Abs(NewChunk[LastBlock]) = End - LastBlock
      /\ End - LastBlock \in 0 .. MAX_BLKSZ - 1
  <2>1. NewChunk[LastBlock] = -(End - LastBlock)
    BY <1>2, LastFact DEF NewChunk
  <2>2. End - LastBlock \in 0 .. MAX_BLKSZ - 1
    BY LastFact, Sizes
  <2> QED
    BY <2>1, <2>2, Sizes DEF Abs
<1>4. NewChunk[End] = 0
  <2>1. CASE End = LastBlock
    <3>1. End - LastBlock = 0
      BY <2>1, Sizes
    <3>2. NewChunk[LastBlock] = 0
      BY <3>1, <1>3
    <3> QED
      BY <3>2, <2>1
  <2>2. CASE End # LastBlock
    BY <2>2, <1>2, Sizes DEF NewChunk
  <2> QED
    BY <2>1, <2>2
<1>5. NewChunk \in [Offset -> Byte]
  <2>1. -MAX_BLKSZ \in Byte /\ 0 \in Byte /\ -(End - LastBlock) \in Byte
    BY <1>3, Sizes DEF Byte
  <2> QED
    BY <2>1 DEF NewChunk
<1>6. FirstBlocks \subseteq Offset /\ HEADER \in FirstBlocks /\ End \in FirstBlocks
  <2>1. HEADER \in FullBlocks
    <3>1. (HEADER - HEADER) % MAX_BLKSZ = 0
      BY Sizes
    <3> QED
      BY <3>1, Sizes DEF FullBlocks
  <2> QED
    BY <2>1, LastFact, Sizes DEF FirstBlocks, FullBlocks
<1>7. ASSUME NEW o \in FirstBlocks, o # End
      PROVE  NewChunk[o] # 0 /\ Abs(NewChunk[o]) <= MAX_BLKSZ /\ o + Abs(NewChunk[o]) \in FirstBlocks
  <2>1. CASE o \in FullBlocks
    BY <2>1, <1>1, FullFact, Sizes
  <2>2. CASE o = LastBlock
    <3>1. LastBlock + (End - LastBlock) = End
      BY LastFact, Sizes
    <3>2. NewChunk[o] # 0 /\ Abs(NewChunk[o]) <= MAX_BLKSZ
      BY <2>2, <1>7, <1>3, LastFact, Sizes
    <3> QED
      BY <3>1, <3>2, <2>2, <1>3, <1>6
  <2> QED
    BY <2>1, <2>2, <1>7 DEF FirstBlocks
<1>8. ASSUME NEW o \in FirstBlocks, NEW q \in FirstBlocks, o # End, o < q
      PROVE  o + Abs(NewChunk[o]) <= q
  <2>1. CASE o \in FullBlocks
    BY <2>1, <1>8, <1>1, FullFact
  <2>2. CASE o = LastBlock
    <3>1. q \notin FullBlocks
      BY <2>2, <1>8, FullFact, LastFact
    <3>2. q = End
      BY <3>1, <2>2, <1>8, LastFact DEF FirstBlocks
    <3> QED
      BY <3>2, <2>2, <1>3, LastFact, Sizes
  <2> QED
    BY <2>1, <2>2, <1>8 DEF FirstBlocks
<1>9. IsBlocks(NewChunk, FirstBlocks)
  BY <1>4, <1>6, <1>7, <1>8 DEF IsBlocks
<1>10. ASSUME NEW o \in FirstBlocks, NewChunk[o] < 0, Abs(NewChunk[o]) < MAX_BLKSZ
       PROVE  NewChunk[o + Abs(NewChunk[o])] >= 0
  <2>1. o \notin FullBlocks /\ o # End
    BY <1>10, <1>1, <1>4, Sizes
  <2>2. o = LastBlock
    BY <2>1 DEF FirstBlocks
  <2>3. LastBlock + (End - LastBlock) = End
    BY LastFact, Sizes
  <2> QED
    BY <2>2, <2>3, <1>3, <1>4
<1>11. \A o : ~Taken({}, o)
  BY DEF Taken
<1> QED
  BY <1>5, <1>9, <1>10, <1>11 DEF Sound
-----------------------------------------------------------------------------
\* The bytes after an allocation of want bytes out of the free block at o
\* (stralloc.c:46-59).
Allotted(d, o, want) ==
  IF want = Abs(d[o]) THEN [d EXCEPT ![o] = want]
                      ELSE [d EXCEPT ![o] = want, ![o + want] = Abs(d[o]) - want]

\* The two results of a round that are possible.
Skipped(d, o) == [data |-> d, offset |-> o + Abs(d[o]), found |-> FALSE]
FoundAt(d, o, want) == [data |-> Allotted(d, o, want), offset |-> o, found |-> TRUE]

\* A round of alloc_block (stralloc.c:41-80) goes on to the next header or allocates
\* the block; it never merges.
LEMMA RoundFact ==
  ASSUME NEW d, NEW B, NEW H, Sound(d, B, H), NEW o \in B, d[o] # 0,
         NEW want \in 2 .. MAX_BLKSZ
  PROVE  \/ alloc_block(d, o, want) = Skipped(d, o)
         \/ alloc_block(d, o, want) = FoundAt(d, o, want) /\ d[o] < 0 /\ want <= Abs(d[o])
<1> DEFINE size == Abs(d[o])
           r == alloc_block(d, o, want)
<1>1. d \in [Offset -> Byte] /\ IsBlocks(d, B)
  BY DEF Sound
<1>2. o \in Nat /\ d[o] \in Int /\ size \in 1 .. MAX_BLKSZ
  BY <1>1, BlockFact
<1>3. want \in Nat /\ MAX_BLKSZ \in Nat
  BY Sizes
<1>4. CASE d[o] > 0
  <2>1. r = Skipped(d, o)
    BY <1>4, <1>2 DEF alloc_block, Skipped
  <2> QED
    BY <2>1
<1>5. CASE d[o] < 0 /\ size = want
  <2>1. r = [data |-> [d EXCEPT ![o] = want], offset |-> o, found |-> TRUE]
    BY <1>5, <1>2 DEF alloc_block
  <2>2. Allotted(d, o, want) = [d EXCEPT ![o] = want] /\ want <= size
    BY <1>5, <1>3 DEF Allotted
  <2>3. r = FoundAt(d, o, want)
    BY <2>1, <2>2, Zenon DEF FoundAt
  <2> QED
    BY <2>2, <2>3, <1>5, Zenon
<1>6. CASE d[o] < 0 /\ size > want
  <2>1. r = [data |-> Split(d, o, size, want), offset |-> o, found |-> TRUE]
    BY <1>6, <1>2, <1>3 DEF alloc_block
  <2>2. size - want \in Byte /\ want <= size /\ want # size
    <3>1. PICK s \in 1 .. MAX_BLKSZ : s = size
      BY <1>2
    <3>2. s > want /\ MAX_BLKSZ \in 2 .. 127
      BY <3>1, <1>6, Sizes
    <3>3. want <= s /\ want # s
      BY <3>2
    <3>4. s - want \in -128 .. 127
      BY <3>2
    <3> QED
      BY <3>1, <3>3, <3>4 DEF Byte
  <2>3. Int8(size - want) = size - want
    BY <2>2, Int8Fact
  <2>4. Split(d, o, size, want) = Allotted(d, o, want)
    BY <2>2, <2>3, Zenon DEF Split, Allotted
  <2>5. r = FoundAt(d, o, want)
    BY <2>1, <2>4, Zenon DEF FoundAt
  <2> QED
    BY <2>2, <2>5, <1>6, Zenon
<1>7. CASE d[o] < 0 /\ size < want
  <2>1. d[o + size] >= 0 /\ d[o + size] \in Int
    <3>1. o + size \in B /\ B \subseteq Offset
      BY <1>1, BlockFact DEF IsBlocks
    <3> QED
      BY <3>1, <1>1, <1>7, <1>2, <1>3, Sizes DEF Sound, Byte
  <2>2. ~(d[o] > 0) /\ ~(size = want) /\ ~(size > want) /\ ~(d[o + size] < 0)
    BY <1>7, <1>2, <1>3, <2>1
  <2>3. r = Skipped(d, o)
    BY <1>7, <2>1, <2>2 DEF alloc_block, Skipped
  <2> QED
    BY <2>3
<1>8. \/ d[o] > 0
      \/ d[o] < 0 /\ size = want
      \/ d[o] < 0 /\ size > want
      \/ d[o] < 0 /\ size < want
  BY <1>2, <1>3
<1> QED
  BY <1>4, <1>5, <1>6, <1>7, <1>8, Zenon

\* alloc_after_arena puts the new arena on the list, once, and keeps the others.
LEMMA Inserted ==
  ASSUME NEW S, NEW l \in Seq(S), IsInjective(l), NEW a \in ToSet(l), NEW new, new \notin ToSet(l),
         NEW l2, l2 = alloc_after_arena(l, a, new)
  PROVE  l2 \in Seq(S \cup {new}) /\ ToSet(l2) = ToSet(l) \cup {new} /\ IsInjective(l2)
<1> DEFINE place == CHOOSE j \in DOMAIN l : l[j] = a
<1>1. place \in DOMAIN l
  BY DEF ToSet
<1>2. Len(l) \in Nat /\ DOMAIN l = 1 .. Len(l) /\ \A j \in 1 .. Len(l) : l[j] \in S
  OBVIOUS
<1> HIDE DEF place
<1>3. PICK k \in Nat : k = place + 1 /\ k \in 2 .. Len(l) + 1
  <2>1. place + 1 \in Nat /\ place + 1 \in 2 .. Len(l) + 1
    BY <1>1, <1>2
  <2> QED
    BY <2>1
<1>4. l2 = InsertAt(l, k, new)
  BY <1>3 DEF alloc_after_arena, place
<1> DEFINE s == SubSeq(l, 1, k - 1)
           t == SubSeq(l, k, Len(l))
           T == S \cup {new}
           f == [j \in 1 .. Len(l) + 1 |-> IF j < k THEN l[j] ELSE IF j = k THEN new ELSE l[j - 1]]
<1>5. 1 \in Int /\ k - 1 \in Int /\ \A j \in 1 .. k - 1 : l[j] \in T
  BY <1>2, <1>3
<1>6. s \in Seq(T) /\ Len(s) = k - 1 /\ \A j \in 1 .. k - 1 : s[j] = l[j]
  <2> HIDE DEF T
  <2>1. /\ s \in Seq(T)
        /\ Len(s) = IF 1 <= k - 1 THEN k - 1 - 1 + 1 ELSE 0
        /\ \A j \in 1 .. k - 1 - 1 + 1 : s[j] = l[1 + j - 1]
    BY <1>5, SubSeqProperties
  <2> HIDE DEF s
  <2> QED
    BY <2>1, <1>3
<1>7. k \in Int /\ Len(l) \in Int /\ \A j \in k .. Len(l) : l[j] \in T
  BY <1>2, <1>3
<1>8. t \in Seq(T) /\ Len(t) = Len(l) + 1 - k /\ \A j \in 1 .. Len(l) + 1 - k : t[j] = l[k + j - 1]
  <2> HIDE DEF T
  <2>1. /\ t \in Seq(T)
        /\ Len(t) = IF k <= Len(l) THEN Len(l) - k + 1 ELSE 0
        /\ \A j \in 1 .. Len(l) - k + 1 : t[j] = l[k + j - 1]
    BY <1>7, SubSeqProperties
  <2> HIDE DEF t
  <2> QED
    BY <2>1, <1>2, <1>3
<1>9. PICK v \in Seq(T) : v = <<new>> /\ Len(v) = 1 /\ v[1] = new
  <2>1. <<new>> \in Seq(T) /\ Len(<<new>>) = 1 /\ <<new>>[1] = new
    OBVIOUS
  <2> QED
    BY <2>1
<1> DEFINE u == s \o v
<1>10. l2 = u \o t
  BY <1>4, <1>9 DEF InsertAt
<1> HIDE DEF s, t, T
<1>11. /\ u \in Seq(T)
       /\ Len(u) = Len(s) + Len(v)
       /\ \A j \in 1 .. Len(s) + Len(v) : u[j] = IF j <= Len(s) THEN s[j] ELSE v[j - Len(s)]
  BY <1>6, <1>9, ConcatProperties
<1> HIDE DEF u
<1>12. Len(u) = k /\ (\A j \in 1 .. k - 1 : u[j] = l[j]) /\ u[k] = new
  <2>1. Len(u) = k
    BY <1>3, <1>6, <1>9, <1>11
  <2>2. ASSUME NEW j \in 1 .. k - 1
        PROVE  u[j] = l[j]
    BY <1>3, <1>6, <1>9, <1>11
  <2>3. u[k] = v[k - (k - 1)]
    BY <1>3, <1>6, <1>9, <1>11
  <2>4. k - (k - 1) = 1
    BY <1>3
  <2> QED
    BY <2>1, <2>2, <2>3, <2>4, <1>9
<1>13. /\ l2 \in Seq(T)
       /\ Len(l2) = Len(u) + Len(t)
       /\ \A j \in 1 .. Len(u) + Len(t) : l2[j] = IF j <= Len(u) THEN u[j] ELSE t[j - Len(u)]
  <2>1. /\ u \o t \in Seq(T)
        /\ Len(u \o t) = Len(u) + Len(t)
        /\ \A j \in 1 .. Len(u) + Len(t) : (u \o t)[j] = IF j <= Len(u) THEN u[j] ELSE t[j - Len(u)]
    BY <1>8, <1>11, ConcatProperties
  <2> QED
    BY <2>1, <1>10
<1>14. Len(u) + Len(t) = Len(l) + 1
  BY <1>2, <1>3, <1>8, <1>12
<1>15. DOMAIN l2 = 1 .. Len(l) + 1 /\ \A j \in DOMAIN l2 : l2[j] = f[j]
  <2>1. DOMAIN l2 = 1 .. Len(l) + 1
    BY <1>13, <1>14
  <2>2. ASSUME NEW j \in 1 .. Len(l) + 1
        PROVE  l2[j] = f[j]
    <3>1. l2[j] = IF j <= k THEN u[j] ELSE t[j - k]
      BY <1>12, <1>13, <1>14
    <3>2. CASE j < k
      <4>1. j \in 1 .. k - 1 /\ j <= k
        BY <3>2, <1>2, <1>3
      <4>2. l2[j] = l[j]
        BY <4>1, <3>1, <1>12
      <4> QED
        BY <4>2, <3>2
    <3>3. CASE j = k
      BY <3>1, <3>3, <1>3, <1>12
    <3>4. CASE j > k
      <4>1. j - k \in 1 .. Len(l) + 1 - k /\ k + (j - k) - 1 = j - 1
        BY <3>4, <1>2, <1>3
      <4>2. t[j - k] = l[j - 1]
        BY <4>1, <1>8
      <4> QED
        BY <3>1, <3>4, <4>2, <1>3
    <3> QED
      BY <3>2, <3>3, <3>4, <1>3
  <2> QED
    BY <2>1, <2>2
<1>16. ToSet(l2) = ToSet(l) \cup {new}
  <2>1. ASSUME NEW j \in DOMAIN l2
        PROVE  l2[j] \in ToSet(l) \cup {new}
    BY <1>15, <1>2, <1>3 DEF ToSet
  <2>2. new \in ToSet(l2)
    <3>1. k \in DOMAIN l2 /\ l2[k] = new
      BY <1>15, <1>2, <1>3
    <3> QED
      BY <3>1 DEF ToSet
  <2>3. ASSUME NEW j \in DOMAIN l
        PROVE  l[j] \in ToSet(l2)
    <3>1. CASE j < k
      <4>1. j \in DOMAIN l2 /\ l2[j] = l[j]
        BY <3>1, <1>15, <1>2, <1>3
      <4> QED
        BY <4>1 DEF ToSet
    <3>2. CASE ~(j < k)
      <4>1. j + 1 \in DOMAIN l2 /\ l2[j + 1] = l[j]
        BY <3>2, <1>15, <1>2, <1>3
      <4> QED
        BY <4>1 DEF ToSet
    <3> QED
      BY <3>1, <3>2
  <2> QED
    BY <2>1, <2>2, <2>3 DEF ToSet
<1>17. \A j \in 1 .. Len(l) : l[j] # new
  BY <1>2 DEF ToSet
<1>18. IsInjective(l2)
  <2> SUFFICES ASSUME NEW z \in DOMAIN l2, NEW j \in DOMAIN l2, l2[z] = l2[j]
               PROVE  z = j
    BY Zenon DEF IsInjective
  <2>1. z \in 1 .. Len(l) + 1 /\ j \in 1 .. Len(l) + 1 /\ f[z] = f[j]
    BY <1>15
  <2> QED
    BY <2>1, <1>2, <1>3, <1>17 DEF IsInjective
<1> QED
  BY <1>13, <1>16, <1>18 DEF T

\* The strings in the arena a.
StringsIn(a) == {p \in held : p.arena = a}

\* The arena that cur_offset belongs to.
Here == IF ar = 0 THEN cur_arena ELSE ar

\* Every arena is in order, all of them are on the list, and the search stands on a
\* header: the inductive invariant of stralloc.c.
StrInv ==
  /\ StrTypeOK
  /\ ToSet(arenas) = DOMAIN mem /\ IsInjective(arenas)
  /\ cur_arena = 0 => ar = 0 /\ Len(mem) = 0
  /\ ar # 0 => len \in 1 .. MAX_LENGTH
  /\ cur_arena # 0 => cur_offset \in Headers(mem[Here])
  /\ \A p \in held : p.arena \in DOMAIN mem
  /\ \A a \in DOMAIN mem : Sound(mem[a], Headers(mem[a]), StringsIn(a))

\* The headers of an arena in order.
LEMMA SoundHeaders ==
  ASSUME NEW d, NEW B, NEW H, Sound(d, B, H)
  PROVE  Headers(d) = B /\ B \subseteq Offset /\ HEADER \in B /\ End \in B /\ d \in [Offset -> Byte]
BY HeadersAre DEF Sound, IsBlocks

\* What the invariant says of the list and of the search.
LEMMA StrFacts ==
  ASSUME StrInv
  PROVE  /\ Len(mem) \in Nat /\ DOMAIN mem = 1 .. Len(mem)
         /\ mem \in Seq([Offset -> Byte])
         /\ Len(mem) <= MaxArenas /\ MaxArenas \in Nat /\ MaxArenas > 0
         /\ \A a \in DOMAIN mem : HEADER \in Headers(mem[a])
         /\ ar # 0 => ar \in DOMAIN mem /\ cur_offset \in Headers(mem[ar])
         /\ cur_arena # 0 => cur_arena \in DOMAIN mem
<1>1. mem \in Seq([Offset -> Byte]) /\ Len(mem) <= MaxArenas
  BY DEF StrInv, StrTypeOK
<1>2. Len(mem) \in Nat /\ DOMAIN mem = 1 .. Len(mem)
  BY <1>1
<1>3. \A a \in DOMAIN mem : HEADER \in Headers(mem[a])
  BY SoundHeaders DEF StrInv
<1>4. ar # 0 => ar \in DOMAIN mem /\ cur_offset \in Headers(mem[ar])
  BY <1>2 DEF StrInv, StrTypeOK, Here
<1>5. cur_arena # 0 => cur_arena \in DOMAIN mem
  BY <1>2 DEF StrInv, StrTypeOK
<1> QED
  BY <1>1, <1>2, <1>3, <1>4, <1>5, StrAllocAssumption

\* A step that changes one arena only.
LEMMA OneArena ==
  ASSUME StrInv, NEW a \in DOMAIN mem, NEW e, NEW B,
         mem' = [mem EXCEPT ![a] = e],
         Sound(e, B, StringsIn(a)'),
         \A x \in DOMAIN mem : x # a => StringsIn(x)' = StringsIn(x)
  PROVE  /\ mem' \in Seq([Offset -> Byte])
         /\ Len(mem') = Len(mem) /\ DOMAIN mem' = DOMAIN mem
         /\ Headers(mem'[a]) = B
         /\ \A x \in DOMAIN mem : x # a => mem'[x] = mem[x]
         /\ \A x \in DOMAIN mem' : Sound(mem'[x], Headers(mem'[x]), StringsIn(x)')
<1>1. mem \in Seq([Offset -> Byte]) /\ Len(mem) \in Nat /\ DOMAIN mem = 1 .. Len(mem)
  BY StrFacts
<1>2. e \in [Offset -> Byte] /\ Headers(e) = B
  BY SoundHeaders
<1>3. mem' \in Seq([Offset -> Byte]) /\ Len(mem') = Len(mem) /\ DOMAIN mem' = DOMAIN mem
  BY <1>1, <1>2, ExceptSeq
<1>4. mem'[a] = e /\ \A x \in DOMAIN mem : x # a => mem'[x] = mem[x]
  BY <1>1
<1>5. ASSUME NEW x \in DOMAIN mem
      PROVE  Sound(mem'[x], Headers(mem'[x]), StringsIn(x)')
  <2>1. CASE x = a
    BY <2>1, <1>2, <1>4
  <2>2. CASE x # a
    <3>1. Sound(mem[x], Headers(mem[x]), StringsIn(x))
      BY DEF StrInv
    <3> QED
      BY <3>1, <2>2, <1>4
  <2> QED
    BY <2>1, <2>2
<1> QED
  BY <1>2, <1>3, <1>4, <1>5

-----------------------------------------------------------------------------
\* No arena, nothing to show.
LEMMA StrInitInv == StrInit => StrInv
<1> SUFFICES ASSUME StrInit
             PROVE  StrInv
  OBVIOUS
<1>1. mem = <<>> /\ arenas = <<>> /\ cur_arena = 0 /\ held = {} /\ ar = 0 /\ len = 0
  BY DEF StrInit
<1>2. DOMAIN mem = {} /\ Len(mem) = 0 /\ DOMAIN arenas = {}
  BY <1>1
<1>3. StrTypeOK
  <2>1. mem \in Seq([Offset -> Byte]) /\ arenas \in Seq(DOMAIN mem)
    BY <1>1
  <2>2. 0 \in 0 .. Len(mem) /\ 0 \in 0 .. MAX_LENGTH /\ Len(mem) <= MaxArenas
    BY <1>2, StrAllocAssumption
  <2> QED
    BY <1>1, <2>1, <2>2 DEF StrTypeOK
<1>4. ToSet(arenas) = DOMAIN mem /\ IsInjective(arenas)
  BY <1>2 DEF ToSet, IsInjective
<1> QED
  BY <1>1, <1>2, <1>3, <1>4 DEF StrInv

\* stralloc.c:90-95.
LEMMA FirstCallInv ==
  ASSUME StrInv, NEW l \in 1 .. MAX_LENGTH, Call(l), FirstCall
  PROVE  StrInv'
<1>1. mem' = <<NewChunk>> /\ arenas' = <<1>> /\ cur_arena' = 1 /\ cur_offset' = HEADER
      /\ ar' = 1 /\ len' = l /\ held' = held
  BY DEF Call, FirstCall
<1>2. held = {}
  <2>1. Len(mem) = 0
    BY DEF FirstCall, StrInv
  <2>2. DOMAIN mem = {}
    BY <2>1, StrFacts
  <2> QED
    BY <2>2 DEF StrInv
<1>3. NewChunk \in [Offset -> Byte] /\ Headers(NewChunk) = FirstBlocks /\ HEADER \in FirstBlocks
  BY NewChunkSound, SoundHeaders
<1>4. DOMAIN mem' = {1} /\ Len(mem') = 1 /\ mem'[1] = NewChunk /\ mem' \in Seq([Offset -> Byte])
      /\ DOMAIN arenas' = {1} /\ arenas'[1] = 1
  BY <1>1, <1>3
<1>5. StrTypeOK'
  <2>1. arenas' \in Seq(DOMAIN mem')
    BY <1>1, <1>4
  <2>2. 1 <= MaxArenas /\ len' \in 0 .. MAX_LENGTH
    BY <1>1, StrFacts, Sizes
  <2> QED
    BY <1>1, <1>4, <2>1, <2>2 DEF StrTypeOK
<1>6. ToSet(arenas') = DOMAIN mem' /\ IsInjective(arenas')
  BY <1>4 DEF ToSet, IsInjective
<1>7. cur_offset' \in Headers(mem'[Here'])
  BY <1>1, <1>3, <1>4 DEF Here
<1>8. StringsIn(1)' = {}
  BY <1>1, <1>2 DEF StringsIn
<1>9. \A a \in DOMAIN mem' : Sound(mem'[a], Headers(mem'[a]), StringsIn(a)')
  BY <1>3, <1>4, <1>8, NewChunkSound
<1> QED
  BY <1>1, <1>2, <1>5, <1>6, <1>7, <1>9 DEF StrInv

\* stralloc.c:97.
LEMMA LaterCallInv ==
  ASSUME StrInv, NEW l \in 1 .. MAX_LENGTH, Call(l), LaterCall
  PROVE  StrInv'
<1>1. UNCHANGED <<mem, arenas, cur_arena, cur_offset, held>> /\ ar = 0 /\ cur_arena # 0
      /\ ar' = cur_arena /\ len' = l
  BY DEF Call, LaterCall
<1>2. Here' = Here
  BY <1>1 DEF Here
<1>3. len' \in 0 .. MAX_LENGTH
  BY <1>1, Sizes
<1>4. StrTypeOK'
  BY <1>1, <1>3 DEF StrTypeOK, StrInv
<1>5. \A a : StringsIn(a)' = StringsIn(a)
  BY <1>1 DEF StringsIn
<1>6. mem' = mem /\ arenas' = arenas /\ cur_arena' = cur_arena /\ cur_offset' = cur_offset /\ held' = held
  BY <1>1
<1>7. \A a \in DOMAIN mem' : Sound(mem'[a], Headers(mem'[a]), StringsIn(a)')
  BY <1>5, <1>6 DEF StrInv
<1>8. cur_offset' \in Headers(mem'[Here'])
  BY <1>1, <1>2, <1>6 DEF StrInv
<1>9. \A p \in held' : p.arena \in DOMAIN mem'
  BY <1>6 DEF StrInv
<1>10. ToSet(arenas') = DOMAIN mem' /\ IsInjective(arenas')
  BY <1>6 DEF StrInv
<1> QED
  BY <1>1, <1>4, <1>6, <1>7, <1>8, <1>9, <1>10 DEF StrInv

\* The search stays on the headers of its arena.
LEMMA GoOnInv ==
  ASSUME StrInv, GoOn
  PROVE  StrInv'
<1>1. ar # 0 /\ mem[ar][cur_offset] # 0 /\ ~Round.found
      /\ mem' = [mem EXCEPT ![ar] = Round.data] /\ cur_offset' = Round.offset
      /\ arenas' = arenas /\ cur_arena' = cur_arena /\ held' = held /\ ar' = ar /\ len' = len
  BY DEF GoOn, AtEnd
<1>2. ar \in DOMAIN mem /\ cur_offset \in Headers(mem[ar]) /\ len \in 1 .. MAX_LENGTH
      /\ Sound(mem[ar], Headers(mem[ar]), StringsIn(ar)) /\ cur_arena # 0
  BY <1>1, StrFacts DEF StrInv
<1>3. PICK r : r = alloc_block(mem[ar], cur_offset, len + 1)
  OBVIOUS
<1>4. r = Round
  BY <1>3 DEF Round, Wanted
<1>5. r.data = mem[ar] /\ r.offset = cur_offset + Abs(mem[ar][cur_offset])
  <2>1. PICK d : d = mem[ar]
    OBVIOUS
  <2>2. PICK B : B = Headers(mem[ar])
    OBVIOUS
  <2>3. PICK want \in 2 .. MAX_BLKSZ : want = len + 1
    BY <1>2, Sizes
  <2>4. Sound(d, B, StringsIn(ar)) /\ cur_offset \in B /\ d[cur_offset] # 0
        /\ r = alloc_block(d, cur_offset, want)
    BY <1>1, <1>2, <1>3, <2>1, <2>2, <2>3
  <2>5. r = Skipped(d, cur_offset) \/ r = FoundAt(d, cur_offset, want)
    BY <2>4, RoundFact
  <2>6. r # FoundAt(d, cur_offset, want)
    BY <1>1, <1>4 DEF FoundAt
  <2>7. r.data = d /\ r.offset = cur_offset + Abs(d[cur_offset])
    BY <2>5, <2>6 DEF Skipped
  <2> QED
    BY <2>1, <2>7
<1>6. mem' = mem
  BY <1>1, <1>2, <1>4, <1>5, StrFacts
<1>7. cur_offset' \in Headers(mem[ar])
  <2>1. mem[ar] \in [Offset -> Byte] /\ IsBlocks(mem[ar], Headers(mem[ar]))
    BY <1>2 DEF Sound
  <2> QED
    BY <2>1, <1>1, <1>2, <1>4, <1>5, BlockFact
<1>8. StrTypeOK'
  BY <1>1, <1>6 DEF StrTypeOK, StrInv
<1>9. \A a : StringsIn(a)' = StringsIn(a)
  BY <1>1 DEF StringsIn
<1>10. \A a \in DOMAIN mem' : Sound(mem'[a], Headers(mem'[a]), StringsIn(a)')
  BY <1>6, <1>9 DEF StrInv
<1>11. cur_offset' \in Headers(mem'[Here'])
  BY <1>1, <1>6, <1>7 DEF Here
<1>12. \A p \in held' : p.arena \in DOMAIN mem'
  BY <1>1, <1>6 DEF StrInv
<1>13. ToSet(arenas') = DOMAIN mem' /\ IsInjective(arenas')
  BY <1>1, <1>6 DEF StrInv
<1> QED
  BY <1>1, <1>2, <1>8, <1>10, <1>11, <1>12, <1>13 DEF StrInv

\* stralloc.c:102-107.
LEMMA OtherArenaInv ==
  ASSUME StrInv, NextArena, OtherArena
  PROVE  StrInv'
<1>1. ar # 0 /\ ar' = Following /\ mem' = mem /\ arenas' = arenas /\ cur_offset' = HEADER
      /\ cur_arena' = cur_arena /\ held' = held /\ len' = len
  BY DEF NextArena, OtherArena
<1>2. ar \in DOMAIN mem /\ cur_arena # 0
  BY <1>1, StrFacts DEF StrInv
<1>3. Following \in DOMAIN mem
  <2> DEFINE place == CHOOSE j \in DOMAIN arenas : arenas[j] = ar
  <2>1. arenas \in Seq(DOMAIN mem) /\ ar \in ToSet(arenas)
    BY <1>2 DEF StrInv, StrTypeOK
  <2>2. place \in DOMAIN arenas
    BY <2>1 DEF ToSet
  <2>3. Len(arenas) \in Nat /\ DOMAIN arenas = 1 .. Len(arenas)
    BY <2>1
  <2>4. Following = IF place = Len(arenas) THEN arenas[1] ELSE arenas[place + 1]
    BY DEF Following
  <2> HIDE DEF place
  <2>5. 1 \in DOMAIN arenas /\ (place # Len(arenas) => place + 1 \in DOMAIN arenas)
    BY <2>2, <2>3
  <2>6. \A j \in DOMAIN arenas : arenas[j] \in DOMAIN mem
    BY <2>1
  <2> QED
    BY <2>4, <2>5, <2>6
<1>4. ar' \in 0 .. Len(mem) /\ ar' # 0 /\ ar' \in DOMAIN mem
  BY <1>1, <1>3, StrFacts
<1>5. StrTypeOK'
  BY <1>1, <1>4 DEF StrTypeOK, StrInv
<1>6. \A a : StringsIn(a)' = StringsIn(a)
  BY <1>1 DEF StringsIn
<1>7. \A a \in DOMAIN mem' : Sound(mem'[a], Headers(mem'[a]), StringsIn(a)')
  BY <1>1, <1>6 DEF StrInv
<1>8. cur_offset' \in Headers(mem'[Here'])
  BY <1>1, <1>4, StrFacts DEF Here
<1>9. \A p \in held' : p.arena \in DOMAIN mem'
  BY <1>1 DEF StrInv
<1>10. ToSet(arenas') = DOMAIN mem' /\ IsInjective(arenas')
  BY <1>1 DEF StrInv
<1>11. len' \in 1 .. MAX_LENGTH
  BY <1>1 DEF StrInv
<1> QED
  BY <1>1, <1>2, <1>5, <1>7, <1>8, <1>9, <1>10, <1>11 DEF StrInv

\* stralloc.c:109-112.
LEMMA NewArenaInv ==
  ASSUME StrInv, NextArena, NewArena
  PROVE  StrInv'
<1>1. /\ ar # 0 /\ Len(mem) < MaxArenas
      /\ mem' = Append(mem, NewChunk)
      /\ arenas' = alloc_after_arena(arenas, cur_arena, Len(mem) + 1)
      /\ ar' = Len(mem) + 1
      /\ cur_offset' = HEADER /\ cur_arena' = cur_arena /\ held' = held /\ len' = len
  BY DEF NextArena, NewArena
<1>2. cur_arena # 0 /\ cur_arena \in DOMAIN mem /\ Len(mem) \in Nat /\ DOMAIN mem = 1 .. Len(mem)
      /\ mem \in Seq([Offset -> Byte])
  BY <1>1, StrFacts DEF StrInv
<1>3. NewChunk \in [Offset -> Byte] /\ Headers(NewChunk) = FirstBlocks /\ HEADER \in FirstBlocks
  BY NewChunkSound, SoundHeaders
<1> DEFINE new == Len(mem) + 1
<1>4. /\ mem' \in Seq([Offset -> Byte]) /\ Len(mem') = new
      /\ \A a \in DOMAIN mem : mem'[a] = mem[a]
      /\ mem'[new] = NewChunk
  BY <1>1, <1>2, <1>3, AppendProperties
<1>5. DOMAIN mem' = DOMAIN mem \cup {new} /\ new \notin DOMAIN mem /\ new # 0
  BY <1>2, <1>4
<1>6. arenas' \in Seq(DOMAIN mem') /\ ToSet(arenas') = DOMAIN mem' /\ IsInjective(arenas')
  <2>1. arenas \in Seq(DOMAIN mem) /\ ToSet(arenas) = DOMAIN mem /\ IsInjective(arenas)
    BY DEF StrInv, StrTypeOK
  <2> HIDE DEF new
  <2>2. arenas' = alloc_after_arena(arenas, cur_arena, new)
    BY <1>1 DEF new
  <2>3. PICK S : S = DOMAIN mem
    OBVIOUS
  <2>4. arenas \in Seq(S) /\ IsInjective(arenas) /\ cur_arena \in ToSet(arenas) /\ new \notin ToSet(arenas)
    BY <2>1, <2>3, <1>2, <1>5
  <2>5. PICK l : l = arenas'
    OBVIOUS
  <2>6. l \in Seq(S \cup {new}) /\ ToSet(l) = ToSet(arenas) \cup {new} /\ IsInjective(l)
    BY <2>2, <2>4, <2>5, Inserted
  <2> QED
    BY <2>1, <2>3, <2>5, <2>6, <1>5
<1>7. StrTypeOK'
  <2>1. cur_arena' \in 0 .. Len(mem') /\ ar' \in 0 .. Len(mem') /\ Len(mem') <= MaxArenas
    BY <1>1, <1>2, <1>4, StrFacts
  <2>2. len' \in 0 .. MAX_LENGTH
    BY <1>1 DEF StrInv, StrTypeOK
  <2> QED
    BY <1>4, <1>6, <2>1, <2>2 DEF StrTypeOK
<1>8. \A a : StringsIn(a)' = StringsIn(a)
  BY <1>1 DEF StringsIn
<1>9. StringsIn(new) = {}
  BY <1>5 DEF StringsIn, StrInv
<1>10. ASSUME NEW a \in DOMAIN mem'
       PROVE  Sound(mem'[a], Headers(mem'[a]), StringsIn(a)')
  <2> HIDE DEF new
  <2>1. CASE a = new
    BY <2>1, <1>3, <1>4, <1>8, <1>9, NewChunkSound
  <2>2. CASE a \in DOMAIN mem
    <3>1. Sound(mem[a], Headers(mem[a]), StringsIn(a))
      BY <2>2 DEF StrInv
    <3> QED
      BY <3>1, <2>2, <1>4, <1>8
  <2> QED
    BY <2>1, <2>2, <1>5
<1>11. cur_offset' \in Headers(mem'[Here'])
  <2>1. Here' = new
    BY <1>1, <1>5 DEF Here
  <2> QED
    BY <2>1, <1>1, <1>3, <1>4
<1>12. \A p \in held' : p.arena \in DOMAIN mem'
  BY <1>1, <1>5 DEF StrInv
<1>13. len' \in 1 .. MAX_LENGTH
  BY <1>1 DEF StrInv
<1> QED
  BY <1>1, <1>2, <1>6, <1>7, <1>10, <1>11, <1>12, <1>13 DEF StrInv

\* The string that stralloc returns.
LEMMA ReturnInv ==
  ASSUME StrInv, NEW b \in Fill, Return(b)
  PROVE  StrInv'
<1>1. PICK r : r = Round
  OBVIOUS
<1>2. PICK d : d = mem[ar]
  OBVIOUS
<1>3. PICK B : B = Headers(mem[ar])
  OBVIOUS
<1>4. PICK o : o = cur_offset
  OBVIOUS
<1>5. /\ ar # 0 /\ d[o] # 0 /\ r.found
      /\ mem' = [mem EXCEPT ![ar] =
                   [z \in Offset |-> IF z \in r.offset + 1 .. r.offset + len THEN b ELSE r.data[z]]]
      /\ cur_offset' = r.offset /\ cur_arena' = ar /\ ar' = 0 /\ len' = 0 /\ arenas' = arenas
      /\ held' = held \cup {[arena |-> ar, offset |-> r.offset + 1, len |-> len, byte |-> b]}
  BY <1>1, <1>2, <1>4 DEF Return, AtEnd
<1>6. /\ ar \in DOMAIN mem /\ o \in B /\ len \in 1 .. MAX_LENGTH
      /\ Sound(d, B, StringsIn(ar)) /\ cur_arena # 0
  BY <1>2, <1>3, <1>4, <1>5, StrFacts DEF StrInv
<1>7. r = alloc_block(d, o, len + 1)
  BY <1>1, <1>2, <1>4 DEF Round, Wanted
<1>8. /\ r.offset = o /\ d[o] < 0 /\ len + 1 <= Abs(d[o])
      /\ r.data = Allotted(d, o, len + 1)
  <2>1. PICK want \in 2 .. MAX_BLKSZ : want = len + 1
    BY <1>6, Sizes
  <2>2. PICK H : H = StringsIn(ar)
    OBVIOUS
  <2>3. d[o] # 0 /\ Sound(d, B, H) /\ o \in B /\ r = alloc_block(d, o, want)
    BY <2>1, <2>2, <1>5, <1>6, <1>7
  <2>4. \/ r = Skipped(d, o)
        \/ r = FoundAt(d, o, want) /\ d[o] < 0 /\ want <= Abs(d[o])
    BY <2>3, RoundFact
  <2>5. r # Skipped(d, o)
    BY <1>5 DEF Skipped
  <2>6. r = FoundAt(d, o, want) /\ d[o] < 0 /\ want <= Abs(d[o])
    BY <2>4, <2>5, Zenon
  <2>7. r.offset = o /\ r.data = Allotted(d, o, want)
    BY <2>6 DEF FoundAt
  <2> QED
    BY <2>1, <2>6, <2>7
<1>9. PICK e : e = [z \in Offset |-> IF z \in o + 1 .. o + len THEN b ELSE r.data[z]]
  OBVIOUS
<1>10. PICK p : p = [arena |-> ar, offset |-> o + 1, len |-> len, byte |-> b]
  OBVIOUS
<1>11. mem' = [mem EXCEPT ![ar] = e] /\ held' = held \cup {p} /\ cur_offset' = o
  BY <1>5, <1>8, <1>9, <1>10
<1>12. /\ d \in [Offset -> Byte] /\ o \in Nat /\ HEADER <= o /\ o < End /\ o \in Offset
       /\ Abs(d[o]) \in 1 .. MAX_BLKSZ /\ o + Abs(d[o]) <= End
  <2>1. d \in [Offset -> Byte] /\ IsBlocks(d, B) /\ B \subseteq Offset
    BY <1>6 DEF Sound, IsBlocks
  <2> QED
    BY <2>1, <1>5, <1>6, BlockFact
<1>13. p \in String /\ p.offset = o + 1 /\ p.len = len /\ p.byte = b /\ p.arena = ar
  <2>1. b \in Byte /\ ar \in Nat /\ o + 1 \in Nat
    <3>1. b \in Byte
      BY StrAllocAssumption DEF Byte
    <3>2. ar \in Nat
      BY <1>6, StrFacts
    <3> QED
      BY <3>1, <3>2, <1>12
  <2> QED
    BY <2>1, <1>6, <1>10 DEF String
<1> DEFINE m == o + len + 1
<1>14. m = o + (len + 1) /\ m \in Offset /\ m \in Nat /\ o < m /\ o + len < m
  BY <1>6, <1>8, <1>12, Sizes
<1> HIDE DEF m
<1>15. ASSUME NEW z \in Offset
       PROVE  r.data[z] = IF z = o THEN len + 1
                          ELSE IF z = m /\ len + 1 # Abs(d[o]) THEN Abs(d[o]) - (len + 1)
                          ELSE d[z]
  <2>1. CASE len + 1 = Abs(d[o])
    BY <2>1, <1>8, <1>12 DEF Allotted
  <2>2. CASE len + 1 # Abs(d[o])
    BY <2>2, <1>8, <1>12, <1>14 DEF Allotted
  <2> QED
    BY <2>1, <2>2
<1>16. e \in [Offset -> Byte]
  <2>1. len + 1 \in Byte /\ Abs(d[o]) - (len + 1) \in Byte /\ b \in Byte
    <3>1. b \in Byte
      BY StrAllocAssumption DEF Byte
    <3>2. len + 1 \in Byte
      BY <1>6, Sizes DEF Byte
    <3>3. len + 1 <= Abs(d[o])
      BY <1>8
    <3>4. Abs(d[o]) - (len + 1) \in Byte
      <4>1. PICK s \in 1 .. MAX_BLKSZ : s = Abs(d[o])
        BY <1>12
      <4>2. s - (len + 1) \in Byte
        BY <4>1, <3>3, <1>6, Sizes DEF Byte
      <4> QED
        BY <4>1, <4>2
    <3> QED
      BY <3>1, <3>2, <3>4
  <2>2. \A z \in Offset : r.data[z] \in Byte
    BY <2>1, <1>12, <1>15
  <2> QED
    BY <2>1, <2>2, <1>9
<1>17. e[o] = len + 1
  BY <1>9, <1>12, <1>15, <1>6
<1>18. \A z \in o + 1 .. o + len : e[z] = p.byte
  <2>1. \A z \in o + 1 .. o + len : z \in Offset
    BY <1>6, <1>12, <1>14, Sizes
  <2> QED
    BY <2>1, <1>9, <1>13
<1>19. e[m] = r.data[m]
  BY <1>9, <1>12, <1>14, <1>6
<1>20. /\ len + 1 < Abs(d[o]) => e[m] = Abs(d[o]) - (len + 1)
       /\ len + 1 = Abs(d[o]) => e[m] = d[m]
  BY <1>19, <1>14, <1>15, <1>6, <1>12
<1>21. \A z \in Offset : z < o \/ z > m => e[z] = d[z]
  <2> SUFFICES ASSUME NEW z \in Offset, z < o \/ z > m
               PROVE  e[z] = d[z]
    OBVIOUS
  <2>1. z \in Nat /\ z # o /\ z # m /\ z \notin o + 1 .. o + len
    BY <1>6, <1>12, <1>14, Sizes
  <2> QED
    BY <2>1, <1>9, <1>15
<1>22. Sound(e, B \cup {m}, StringsIn(ar) \cup {p})
  <2>1. PICK l \in 1 .. MAX_LENGTH : l = len
    BY <1>6
  <2>2. PICK H : H = StringsIn(ar)
    OBVIOUS
  <2>3. Sound(d, B, H) /\ o \in B /\ d[o] < 0 /\ l + 1 <= Abs(d[o]) /\ p.len = l /\ e[o] = l + 1
    BY <2>1, <2>2, <1>6, <1>8, <1>13, <1>17
  <2>4. \A z \in o + 1 .. o + l : e[z] = p.byte
    BY <2>1, <1>18
  <2>5. /\ l + 1 < Abs(d[o]) => e[m] = Abs(d[o]) - (l + 1)
        /\ l + 1 = Abs(d[o]) => e[m] = d[m]
        /\ \A z \in Offset : z < o \/ z > m => e[z] = d[z]
    BY <2>1, <1>20, <1>21
  <2>6. PICK C : C = B \cup {m}
    OBVIOUS
  <2>7. PICK K : K = H \cup {p}
    OBVIOUS
  <2>8. m = o + l + 1
    BY <2>1 DEF m
  <2>9. Sound(e, C, K)
    BY <2>3, <2>4, <2>5, <2>6, <2>7, <2>8, <1>13, <1>16, Given
  <2> QED
    BY <2>2, <2>6, <2>7, <2>9
<1>23. PICK C : C = B \cup {m}
  OBVIOUS
<1>24. PICK a : a = ar
  OBVIOUS
<1>25. StringsIn(a)' = StringsIn(a) \cup {p} /\ \A x \in DOMAIN mem : x # a => StringsIn(x)' = StringsIn(x)
  BY <1>11, <1>13, <1>24 DEF StringsIn
<1>26. Sound(e, C, StringsIn(a)') /\ mem' = [mem EXCEPT ![a] = e] /\ a \in DOMAIN mem
  BY <1>6, <1>11, <1>22, <1>23, <1>24, <1>25
<1>27. /\ mem' \in Seq([Offset -> Byte])
       /\ Len(mem') = Len(mem) /\ DOMAIN mem' = DOMAIN mem
       /\ Headers(mem'[a]) = C
       /\ \A x \in DOMAIN mem' : Sound(mem'[x], Headers(mem'[x]), StringsIn(x)')
  BY <1>25, <1>26, OneArena
<1>28. StrTypeOK'
  <2>1. cur_arena' \in 0 .. Len(mem') /\ ar' \in 0 .. Len(mem') /\ len' \in 0 .. MAX_LENGTH
    <3>1. cur_arena' = ar /\ ar' = 0 /\ len' = 0 /\ Len(mem') = Len(mem)
      BY <1>5, <1>27
    <3>2. ar \in 1 .. Len(mem) /\ Len(mem) \in Nat
      BY <1>6, StrFacts
    <3> QED
      BY <3>1, <3>2, Sizes
  <2> QED
    BY <1>5, <1>27, <2>1 DEF StrTypeOK, StrInv
<1>29. cur_offset' \in Headers(mem'[Here'])
  BY <1>5, <1>6, <1>11, <1>23, <1>24, <1>27 DEF Here
<1>30. \A q \in held' : q.arena \in DOMAIN mem'
  BY <1>6, <1>11, <1>13, <1>27 DEF StrInv
<1>31. ToSet(arenas') = DOMAIN mem' /\ IsInjective(arenas')
  BY <1>5, <1>27 DEF StrInv
<1> QED
  BY <1>5, <1>27, <1>28, <1>29, <1>30, <1>31 DEF StrInv

\* stralloc.c:119-139.
LEMMA StrFreeInv ==
  ASSUME StrInv, NEW p \in held, StrFree(p)
  PROVE  StrInv'
<1>1. PICK a : a = p.arena
  OBVIOUS
<1>2. a \in DOMAIN mem /\ Sound(mem[a], Headers(mem[a]), StringsIn(a)) /\ p \in StringsIn(a)
  BY <1>1 DEF StrInv, StringsIn
<1>3. PICK e : e = [mem[a] EXCEPT ![p.offset - 1] = -@]
  OBVIOUS
<1>4. mem' = [mem EXCEPT ![a] = e] /\ held' = held \ {p} /\ ar = 0 /\ ar' = ar /\ len' = len
      /\ arenas' = arenas /\ cur_arena' = cur_arena /\ cur_offset' = cur_offset
  BY <1>1, <1>2, <1>3 DEF StrFree
<1>5. Sound(e, Headers(mem[a]), StringsIn(a) \ {p})
  BY <1>2, <1>3, Freed
<1>6. StringsIn(a)' = StringsIn(a) \ {p} /\ \A x \in DOMAIN mem : x # a => StringsIn(x)' = StringsIn(x)
  BY <1>1, <1>4 DEF StringsIn
<1>7. PICK B : B = Headers(mem[a])
  OBVIOUS
<1>8. /\ mem' \in Seq([Offset -> Byte])
      /\ Len(mem') = Len(mem) /\ DOMAIN mem' = DOMAIN mem
      /\ Headers(mem'[a]) = B
      /\ \A x \in DOMAIN mem : x # a => mem'[x] = mem[x]
      /\ \A x \in DOMAIN mem' : Sound(mem'[x], Headers(mem'[x]), StringsIn(x)')
  <2>1. Sound(e, B, StringsIn(a)') /\ mem' = [mem EXCEPT ![a] = e] /\ a \in DOMAIN mem
    BY <1>2, <1>4, <1>5, <1>6, <1>7
  <2> QED
    BY <2>1, <1>6, OneArena
<1>9. \A x \in DOMAIN mem : Headers(mem'[x]) = Headers(mem[x])
  BY <1>7, <1>8
<1>10. StrTypeOK'
  BY <1>4, <1>8 DEF StrTypeOK, StrInv
<1>11. cur_arena # 0 => cur_offset' \in Headers(mem'[Here'])
  <2>1. Here' = cur_arena /\ Here = cur_arena
    BY <1>4 DEF Here
  <2> QED
    BY <2>1, <1>4, <1>9, StrFacts DEF StrInv
<1>12. \A q \in held' : q.arena \in DOMAIN mem'
  BY <1>4, <1>8 DEF StrInv
<1>13. ToSet(arenas') = DOMAIN mem' /\ IsInjective(arenas')
  BY <1>4, <1>8 DEF StrInv
<1>14. cur_arena' = 0 => ar' = 0 /\ Len(mem') = 0
  BY <1>4, <1>8 DEF StrInv
<1> QED
  BY <1>4, <1>8, <1>10, <1>11, <1>12, <1>13, <1>14 DEF StrInv

\* Every step of the allocator and of its caller keeps the invariant.
LEMMA StrStep ==
  ASSUME StrInv, [StrNext]_strVars
  PROVE  StrInv'
<1>1. ASSUME NEW l \in 1 .. MAX_LENGTH, Call(l)
      PROVE  StrInv'
  BY <1>1, FirstCallInv, LaterCallInv DEF Call
<1>2. CASE GoOn
  BY <1>2, GoOnInv
<1>3. CASE NextArena
  BY <1>3, OtherArenaInv, NewArenaInv DEF NextArena
<1>4. ASSUME NEW b \in Fill, Return(b)
      PROVE  StrInv'
  BY <1>4, ReturnInv
<1>5. ASSUME NEW p \in held, StrFree(p)
      PROVE  StrInv'
  BY <1>5, StrFreeInv
<1>6. CASE UNCHANGED strVars
  <2>1. mem' = mem /\ arenas' = arenas /\ cur_arena' = cur_arena /\ cur_offset' = cur_offset
        /\ held' = held /\ ar' = ar /\ len' = len
    BY <1>6 DEF strVars
  <2> QED
    BY <2>1 DEF StrInv, StrTypeOK, Here, StringsIn
<1> QED
  BY <1>1, <1>2, <1>3, <1>4, <1>5, <1>6 DEF StrNext

\* Whatever is allocated and freed in whatever order, every arena stays in order
\* (stralloc.c:84-139).
THEOREM StrInvariant == StrSpec => []StrInv
<1>1. StrInv /\ [StrNext]_strVars => StrInv'
  BY StrStep
<1> QED
  BY <1>1, StrInitInv, PTL DEF StrSpec

\* The three properties follow from the invariant.
LEMMA ChainFromInv ==
  ASSUME StrInv
  PROVE  ChainIntact
<1>1. ASSUME NEW a \in DOMAIN mem
      PROVE  /\ End \in Headers(mem[a])
             /\ \A o \in Headers(mem[a]) :
                  o + Abs(mem[a][o]) <= End /\ (mem[a][o] = 0 <=> o = End)
  <2>1. Sound(mem[a], Headers(mem[a]), StringsIn(a))
    BY DEF StrInv
  <2>2. PICK d \in [Offset -> Byte] : d = mem[a]
    BY <2>1 DEF Sound
  <2>3. PICK B : B = Headers(mem[a])
    OBVIOUS
  <2>4. IsBlocks(d, B)
    BY <2>1, <2>2, <2>3 DEF Sound
  <2>5. ASSUME NEW o \in B
        PROVE  o + Abs(d[o]) <= End /\ (d[o] = 0 <=> o = End)
    <3>1. d[o] = 0 <=> o = End
      BY <2>4 DEF IsBlocks
    <3>2. CASE o = End
      <4>1. Abs(d[o]) = 0
        BY <3>1, <3>2, AbsFact
      <4> QED
        BY <3>1, <3>2, <4>1, Sizes
    <3>3. CASE o # End
      BY <3>1, <3>3, <2>4, BlockFact
    <3> QED
      BY <3>2, <3>3, <3>1
  <2> QED
    BY <2>2, <2>3, <2>4, <2>5 DEF IsBlocks
<1>2. ASSUME NEW p \in held
      PROVE  p.offset - 1 \in Headers(mem[p.arena]) /\ mem[p.arena][p.offset - 1] = p.len + 1
  <2>1. PICK a : a = p.arena
    OBVIOUS
  <2>2. Sound(mem[a], Headers(mem[a]), StringsIn(a)) /\ p \in StringsIn(a)
    BY <2>1 DEF StrInv, StringsIn
  <2> QED
    BY <2>1, <2>2, StringFact
<1> QED
  BY <1>1, <1>2 DEF ChainIntact, StrInv, Here

LEMMA ContentsFromInv ==
  ASSUME StrInv
  PROVE  ContentsIntact
<1> SUFFICES ASSUME NEW p \in held, NEW o \in p.offset .. p.offset + p.len - 1
             PROVE  mem[p.arena][o] = p.byte
  BY DEF ContentsIntact
<1>1. PICK a : a = p.arena
  OBVIOUS
<1>2. Sound(mem[a], Headers(mem[a]), StringsIn(a)) /\ p \in StringsIn(a)
  BY <1>1 DEF StrInv, StringsIn
<1> QED
  BY <1>1, <1>2 DEF Sound

LEMMA MergeFromInv ==
  ASSUME StrInv
  PROVE  NothingToMerge
<1> SUFFICES ASSUME NEW a \in DOMAIN mem, NEW o \in Headers(mem[a]),
                    mem[a][o] < 0, Abs(mem[a][o]) < MAX_BLKSZ
             PROVE  mem[a][o + Abs(mem[a][o])] >= 0
  BY DEF NothingToMerge
<1>1. Sound(mem[a], Headers(mem[a]), StringsIn(a))
  BY DEF StrInv
<1> QED
  BY <1>1 DEF Sound

\* The assertions of strmemcheck (stralloc.c:141-153) and of strfree (lines 124-136)
\* hold at any time, for every size of arena and block.
THEOREM ChainIntactProved == StrSpec => []ChainIntact
BY StrInvariant, ChainFromInv, PTL

\* No step of the allocator writes into a string that the caller holds
\* (stralloc.c:46-77).
THEOREM ContentsIntactProved == StrSpec => []ContentsIntact
BY StrInvariant, ContentsFromInv, PTL

\* The branches that merge free blocks (stralloc.c:64-77) are dead code.
THEOREM NothingToMergeProved == StrSpec => []NothingToMerge
BY StrInvariant, MergeFromInv, PTL
==============================================================================
