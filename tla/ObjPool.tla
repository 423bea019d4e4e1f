------------------------------- MODULE ObjPool -------------------------------
(***************************************************************************)
(* 8/so21_lista_8/objpool.c: a pool of objects of one size.  A bitmap in   *)
(* the header of an arena marks the used items; without TEST two smaller   *)
(* bitmaps lead to a free one: bit j of a level says that word j of the    *)
(* level below is full.  A bitmap is the set of its bits that are set.     *)
(*                                                                         *)
(* The caller is the one of test.h, in any order of its calls.  It keeps   *)
(* what it gets in an array, so an object given out twice is there twice.  *)
(***************************************************************************)
EXTENDS Integers, Sequences, FiniteSets

CONSTANTS
  WORD,         \* the bits of a bitstr_t, 8 in the code
  nitems,       \* the items of an arena
  MaxPools      \* bound on the number of arenas

ASSUME ObjPoolAssumption ==
  WORD \in Nat \ {0} /\ nitems \in Nat \ {0} /\ MaxPools \in Nat

VARIABLES
  TEST,         \* the build: whether TEST is defined
  pool,         \* the list of arenas
  ptrs, ptrn    \* the objects the caller holds, and how many it believes to hold

poolVars == <<TEST, pool, ptrs, ptrn>>

init_arena == [bitmap |-> {}, level1 |-> {}, level2 |-> {}, nfree |-> nitems]

Full(bits, w) == w * WORD .. (w + 1) * WORD - 1 \subseteq bits

-----------------------------------------------------------------------------
\* The first clear bit of a level, and of word w of a level: tzcnt counts to WORD
\* when the word has no clear bit.
FirstClear(bits) ==
  CHOOSE j \in 0 .. nitems : j \notin bits /\ \A k \in 0 .. j - 1 : k \in bits

tzcnt(bits, w) ==
  CHOOSE j \in w * WORD .. (w + 1) * WORD :
    /\ j \notin bits \/ j = (w + 1) * WORD
    /\ \A k \in w * WORD .. j - 1 : k \in bits

my_bit_ffc(ar) == tzcnt(ar.bitmap, tzcnt(ar.level1, FirstClear(ar.level2)))

my_bit_set(ar, bit) ==
  LET w == bit \div WORD
      bitmap == ar.bitmap \cup {bit}
      level1 == IF Full(bitmap, w) THEN ar.level1 \cup {w} ELSE ar.level1
      level2 == IF Full(bitmap, w) /\ Full(level1, w \div WORD)
                  THEN ar.level2 \cup {w \div WORD} ELSE ar.level2
  IN  [ar EXCEPT !.bitmap = bitmap, !.level1 = level1, !.level2 = level2]

\* The mutant leaves the upper level alone.
my_bit_clear_level1(ar, bit) ==
  [ar EXCEPT !.bitmap = @ \ {bit}, !.level1 = @ \ {bit \div WORD}]

\* The tests for zero of lines 58 and 60 only skip bits that are clear already.
my_bit_clear(ar, bit) ==
  LET w == bit \div WORD
  IN  [ar EXCEPT !.bitmap = @ \ {bit}, !.level1 = @ \ {w}, !.level2 = @ \ {w \div WORD}]

-----------------------------------------------------------------------------
\* The item that objpool.c's alloc_block gives out, and the arena it leaves behind.
BlockIndex(ar) == IF TEST THEN FirstClear(ar.bitmap) ELSE my_bit_ffc(ar)

AllocBlock(ar) ==
  LET marked == IF TEST THEN [ar EXCEPT !.bitmap = @ \cup {BlockIndex(ar)}]
                        ELSE my_bit_set(ar, BlockIndex(ar))
  IN  [marked EXCEPT !.nfree = @ - 1]

FreeBlock(ar, index) ==
  LET cleared == IF TEST THEN [ar EXCEPT !.bitmap = @ \ {index}]
                         ELSE my_bit_clear(ar, index)
  IN  IF index \in ar.bitmap THEN [cleared EXCEPT !.nfree = @ + 1] ELSE ar

PoolInit ==
  /\ TEST \in BOOLEAN
  /\ pool = <<>>
  /\ ptrs = {} /\ ptrn = 0

\* test_alloc: the first arena with a free item, or a new one at the end of the list.
objalloc ==
  \E a \in 1 .. Len(pool) + 1 :
    LET list == Append(pool, init_arena)
    IN  /\ a <= MaxPools
        /\ list[a].nfree > 0 /\ \A b \in 1 .. a - 1 : pool[b].nfree <= 0
        /\ pool' = [SubSeq(list, 1, IF a > Len(pool) THEN a ELSE Len(pool))
                      EXCEPT ![a] = AllocBlock(@)]
        /\ ptrs' = ptrs \cup {<<a, BlockIndex(list[a])>>}
        /\ ptrn' = ptrn + 1
        /\ UNCHANGED TEST

\* test_free of an object the caller holds.
objfree(ptr) ==
  /\ pool' = [pool EXCEPT ![ptr[1]] = FreeBlock(@, ptr[2])]
  /\ ptrs' = ptrs \ {ptr}
  /\ ptrn' = ptrn - 1
  /\ UNCHANGED TEST

PoolNext == objalloc \/ \E ptr \in ptrs : objfree(ptr)

PoolSpec == PoolInit /\ [][PoolNext]_poolVars

-----------------------------------------------------------------------------
\* No object is given out twice or lies outside its arena, whatever was allocated and
\* freed before: the caller holds as many objects as it asked for, each marked in the
\* bitmap of its arena, and nfree is right, as objmemcheck (objpool.c:170-179) wants it.
\* Without TEST the two levels say exactly which words are full (objpool.c:56), so the
\* search never runs into a full word.
PoolExact ==
  /\ Cardinality(ptrs) = ptrn
  /\ \A a \in DOMAIN pool :
       LET ar == pool[a]
       IN  /\ ar.bitmap = {i \in 0 .. nitems - 1 : <<a, i>> \in ptrs}
           /\ ar.nfree = nitems - Cardinality(ar.bitmap)
           /\ ~TEST => /\ ar.level1 = {w \in 0 .. nitems : Full(ar.bitmap, w)}
                       /\ ar.level2 = {w \in 0 .. nitems : Full(ar.level1, w)}
=============================================================================
