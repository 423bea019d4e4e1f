------------------------------- MODULE HashDb -------------------------------
(***************************************************************************)
(* 7/so21_lista_7/hashdb.c: a set of strings kept in a file that is mapped *)
(* into memory, an open-addressing hash table with short chains.  A table  *)
(* that has no room for a key is rehashed into a second file, which then   *)
(* replaces the first by rename(2).  The mapping is shared, so a process   *)
(* that is killed leaves both files as they are; the next one opens them.  *)
(*                                                                         *)
(* A key stands for the first ENT_LENGTH bytes of a non-empty line, which  *)
(* is all the program looks at; Empty is an entry that starts with a zero  *)
(* byte.  A process that is killed in the middle of strncpy leaves only a  *)
(* beginning of the key in the entry, which is then another key.           *)
(***************************************************************************)
EXTENDS Integers, FiniteSets

CONSTANTS
  Key,       \* the lines of the input
  Empty,     \* an unused entry
  Hash,      \* jenkins_hash of each key
  Torn,      \* what an unfinished strncpy of each key may leave
  TornSize   \* bound: the largest table for which such kills are considered, as
             \* each of them may make the next rehash necessary

ASSUME HashDbAssumption ==
  Empty \notin Key /\ Hash \in [Key -> Nat] /\ Torn \in [Key -> SUBSET Key] /\ TornSize \in Nat

VARIABLES
  db,         \* the database file, mapped while a process runs
  rehash,     \* the file with ".rehash" added to the name
  pc,         \* where the process is
  key,        \* str of db_insert
  new_size,   \* size of db_insert
  i,          \* the index of the copying loop
  inserted,   \* history: the keys for which db_insert has returned
  torn        \* history: a kill has left an unfinished key in the database

vars == <<db, rehash, pc, key, new_size, i, inserted, torn>>

Labels == {"off", "open", "ready", "insert", "grow", "truncate", "copy"}

\* A file that Ftruncate has extended to n entries.
NewTable(n) == [size |-> n, entry |-> [j \in 0 .. n - 1 |-> Empty]]

\* A file that does not exist, as opposed to one that Open has created, NewTable(0).
NoFile == NewTable(-1)

-----------------------------------------------------------------------------
\* db_action: the places where a key may be, and the ones where the loop stops.
ChainLen(n) == IF n \div 16384 - 1 > 3 THEN n \div 16384 - 1 ELSE 3

\* The sum is a uint32_t; n divides 2^32, so its wrapping does not show.
Idx(k, c, n) == (Hash[k] + c) % n

Chain(t) == 0 .. ChainLen(t.size) - 1

Query(t, k) == \E c \in Chain(t) : t.entry[Idx(k, c, t.size)] = k

Stops(t, k) == {c \in Chain(t) : t.entry[Idx(k, c, t.size)] \in {Empty, k}}

\* The mutant looks for a free entry before it compares.
PutUnseen(t, k) ==
  LET free == {c \in Stops(t, k) : t.entry[Idx(k, c, t.size)] = Empty}
      places == IF free # {} THEN free ELSE Stops(t, k)
      c == CHOOSE c \in places : \A d \in places : c <= d
  IN  [size |-> t.size, entry |-> [t.entry EXCEPT ![Idx(k, c, t.size)] = k]]

\* The table with s stored where the loop stops first for k.
PutAs(t, k, s) ==
  LET c == CHOOSE c \in Stops(t, k) : \A d \in Stops(t, k) : c <= d
  IN  [size |-> t.size, entry |-> [t.entry EXCEPT ![Idx(k, c, t.size)] = s]]

\* The table after db_maybe_insert has returned true.
Put(t, k) == PutAs(t, k, k)

\* The tables that a kill during the strncpy of a new key leaves.
TornPuts(t, k) ==
  IF Stops(t, k) # {} /\ ~Query(t, k) THEN {PutAs(t, k, s) : s \in Torn[k]} ELSE {}

-----------------------------------------------------------------------------
Init ==
  /\ db = NoFile
  /\ rehash = NoFile
  /\ pc = "off"
  /\ key = Empty
  /\ new_size = 0
  /\ i = 0
  /\ inserted = {}
  /\ torn = FALSE

Goto(from, to) == pc = from /\ pc' = to

\* db_open(&db, path, 0): the file is there or is created ...
OpenDb ==
  /\ Goto("off", "open")
  /\ db' = IF db = NoFile THEN NewTable(0) ELSE db
  /\ UNCHANGED <<rehash, key, new_size, i, inserted, torn>>

\* ... and gets one entry when it has none.
MapDb ==
  /\ Goto("open", "ready")
  /\ db' = IF db.size = 0 THEN NewTable(1) ELSE db
  /\ UNCHANGED <<rehash, key, new_size, i, inserted, torn>>

\* consume_line in mode DB_INSERT calls db_insert.
CallInsert(k) ==
  /\ Goto("ready", "insert")
  /\ key' = k
  /\ UNCHANGED <<db, rehash, new_size, i, inserted, torn>>

\* db_insert: there is room.
InsertDone ==
  /\ Goto("insert", "ready")
  /\ Stops(db, key) # {}
  /\ db' = Put(db, key)
  /\ inserted' = inserted \cup {key}
  /\ key' = Empty
  /\ UNCHANGED <<rehash, new_size, i, torn>>

InsertNoRoom ==
  /\ Goto("insert", "grow")
  /\ Stops(db, key) = {}
  /\ new_size' = 2 * db.size
  /\ UNCHANGED <<db, rehash, key, i, inserted, torn>>

\* db_rehash: the new file is created with O_EXCL ...
RehashOpen ==
  /\ Goto("grow", "truncate")
  /\ rehash = NoFile
  /\ rehash' = NewTable(0)
  /\ UNCHANGED <<db, key, new_size, i, inserted, torn>>

\* ... and gets its entries.
RehashTruncate ==
  /\ Goto("truncate", "copy")
  /\ rehash' = NewTable(new_size)
  /\ i' = 0
  /\ UNCHANGED <<db, key, new_size, inserted, torn>>

\* A file left by a process that was killed: Open reports the error and
\* exits, whether the file has entries already or not.
RehashOpenFails ==
  /\ Goto("grow", "off")
  /\ rehash # NoFile
  /\ key' = Empty
  /\ UNCHANGED <<db, rehash, new_size, i, inserted, torn>>

\* One round of the copying loop; an empty entry is not stored.
RehashCopy ==
  /\ Goto("copy", "copy")
  /\ i < db.size
  /\ \/ db.entry[i] = Empty /\ UNCHANGED rehash
     \/ /\ db.entry[i] # Empty
        /\ Stops(rehash, db.entry[i]) # {}
        /\ rehash' = Put(rehash, db.entry[i])
  /\ i' = i + 1
  /\ UNCHANGED <<db, key, new_size, inserted, torn>>

\* The mutant tries again with the same size.
RehashGivesUpSameSize ==
  /\ Goto("copy", "grow")
  /\ i < db.size
  /\ db.entry[i] # Empty
  /\ Stops(rehash, db.entry[i]) = {}
  /\ rehash' = NoFile
  /\ UNCHANGED <<db, key, new_size, i, inserted, torn>>

\* No room in the new table either: it is removed and db_insert tries a larger one.
RehashGivesUp ==
  /\ Goto("copy", "grow")
  /\ i < db.size
  /\ db.entry[i] # Empty
  /\ Stops(rehash, db.entry[i]) = {}
  /\ rehash' = NoFile
  /\ new_size' = 2 * new_size
  /\ UNCHANGED <<db, key, i, inserted, torn>>

\* The mutant leaves the last entry out.
RehashRenameEarly ==
  /\ Goto("copy", "insert")
  /\ i = db.size - 1
  /\ db' = rehash
  /\ rehash' = NoFile
  /\ UNCHANGED <<key, new_size, i, inserted, torn>>

\* The new file takes the place of the old one, and db_insert tries again.  An
\* unfinished key has been copied to a place of its own.
RehashRename ==
  /\ Goto("copy", "insert")
  /\ i = db.size
  /\ db' = rehash
  /\ rehash' = NoFile
  /\ torn' = FALSE
  /\ UNCHANGED <<key, new_size, i, inserted>>

\* The process ends: doit() returns, or it is killed.
Stop ==
  /\ pc # "off"
  /\ pc' = "off"
  /\ key' = Empty
  /\ UNCHANGED <<db, rehash, new_size, i, inserted, torn>>

\* The process is killed while strncpy copies a key, into the database or into the
\* new file.
KillInInsert ==
  /\ Goto("insert", "off")
  /\ db.size <= TornSize
  /\ db' \in TornPuts(db, key)
  /\ torn' = TRUE
  /\ key' = Empty
  /\ UNCHANGED <<rehash, new_size, i, inserted>>

KillInCopy ==
  /\ Goto("copy", "off")
  /\ i < db.size
  /\ db.entry[i] # Empty
  /\ rehash' \in TornPuts(rehash, db.entry[i])
  /\ key' = Empty
  /\ UNCHANGED <<db, new_size, i, inserted, torn>>

-----------------------------------------------------------------------------
Insert ==
  \/ InsertDone \/ InsertNoRoom
  \/ RehashOpen \/ RehashOpenFails \/ RehashTruncate
  \/ RehashCopy \/ RehashGivesUp \/ RehashRename

Next ==
  \/ OpenDb \/ MapDb \/ (\E k \in Key : CallInsert(k)) \/ Insert
  \/ Stop \/ KillInInsert \/ KillInCopy

Spec == Init /\ [][Next]_vars

\* A process that inserts a key runs until it is done or killed.
FairSpec == Spec /\ WF_vars(Insert)

-----------------------------------------------------------------------------
IsTable(t) == t.size \in Nat \cup {-1} /\ t = [size |-> t.size, entry |-> t.entry]
              /\ t.entry \in [0 .. t.size - 1 -> Key \cup {Empty}]

TypeOK ==
  /\ IsTable(db) /\ IsTable(rehash)
  /\ pc \in Labels
  /\ key \in Key \cup {Empty}
  /\ new_size \in Nat
  /\ i \in Nat
  /\ inserted \subseteq Key
  /\ torn \in BOOLEAN

Stored(t) == {t.entry[j] : j \in 0 .. t.size - 1} \ {Empty}

\* Every stored key is in its chain, at the first entry where the loop of db_action
\* would stop for it (hashdb.c:24-32).
Placed(t) ==
  \A j \in 0 .. t.size - 1 : t.entry[j] # Empty =>
    \E c \in Chain(t) :
      /\ Idx(t.entry[j], c, t.size) = j
      /\ \A d \in 0 .. c - 1 : t.entry[Idx(t.entry[j], d, t.size)] \notin {Empty, t.entry[j]}

\* Whatever has been inserted is found, at any moment and after any number of kills
\* and restarts: db_rehash (hashdb.c:78-108) never exposes a table that lacks a key.
KeysFound == \A k \in inserted : db.size > 0 /\ Query(db, k)

\* No key is stored twice, in the database or in the file it is copied to: the
\* insertion that stops at the first free entry (hashdb.c:26) never overlooks a key
\* that is stored further on.  A kill that leaves an unfinished key in the database
\* may break this, until the next rehash.
Once(t) ==
  \A j, k \in 0 .. t.size - 1 : t.entry[j] = t.entry[k] /\ t.entry[j] # Empty => j = k

NoDuplicates == (~torn => Once(db)) /\ (pc = "copy" => Once(rehash))

\* What the copying loop has passed is in the new table, and nothing else is.
Copied ==
  pc = "copy" =>
    /\ i <= db.size /\ rehash.size = new_size
    /\ \A j \in 0 .. i - 1 : db.entry[j] # Empty => Query(rehash, db.entry[j])
    /\ Stored(rehash) \subseteq Stored(db)

\* The invariant behind KeysFound and NoDuplicates (hashdb.c:17-34, 78-108).
IInv ==
  /\ TypeOK
  /\ (pc \notin {"off", "open"} => db.size > 0) /\ (pc # "off" => db.size >= 0)
  /\ (pc \in {"insert", "grow", "truncate", "copy"} => key \in Key)
  /\ (pc \in {"grow", "truncate", "copy"} => new_size > 0)
  /\ (~torn => Placed(db)) /\ (pc = "copy" => Placed(rehash))
  /\ Copied
  /\ KeysFound

\* "Insert key into database and possibly increase DB size", hashdb.c:111: the two
\* nested loops of db_insert come to an end, as larger tables separate the keys.
InsertEnds == pc = "insert" ~> pc \in {"ready", "off"}
=============================================================================
