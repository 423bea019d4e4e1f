-------------------------------- MODULE Coro --------------------------------
(***************************************************************************)
(* 3/so21_lista_3/coro.c: three coroutines that pass one character at a    *)
(* time around the run queue.  func_1 reads, squeezes white space and      *)
(* counts words; func_2 replaces what is not a letter by NOTHING; func_3   *)
(* swaps the case and prints.  A coroutine that ends passes EOF, which     *)
(* takes it off the queue and tells the next one to end.                   *)
(*                                                                         *)
(* Only one coroutine runs at a time, so a step is what happens between    *)
(* two jumps.  A char is signed: the byte 0xFF is the value EOF.           *)
(***************************************************************************)
EXTENDS Integers, FiniteSets, Sequences, SequencesExt

CONSTANTS
  Swap,          \* the case of each letter swapped
  Space,         \* white space
  Nul, One,      \* the bytes 0 and 1
  EOF,           \* -1, which is also the byte 0xFF
  NOTHING,       \* -2
  MaxLen         \* bound: bytes of the input

ASSUME CoroAssumption ==
  /\ {Space, Nul, One, EOF, NOTHING} \cap DOMAIN Swap = {}
  /\ IsInjective(<<Space, Nul, One, EOF, NOTHING>>)
  /\ MaxLen \in Nat

VARIABLES
  text,          \* history: the whole input
  input,         \* what is left of it
  queue,         \* runqueue
  running,
  pc,            \* "main", "enter" the running coroutine, "read" in func_1, "switch", "done"
  v,             \* the value that is passed on
  ch, prev_ch,   \* of func_1
  inside,        \* func_1 has been entered before
  words, removed, printed,
  out            \* standard output

func == <<ch, prev_ch, inside, words, removed, printed, out>>
coroVars == <<text, input, queue, running, pc, v, func>>

Byte == DOMAIN Swap \cup {Space, Nul, EOF}
Names == <<"func_1", "func_2", "func_3">>

isspace(x) == x = Space
isalpha(x) == x \in DOMAIN Swap

\* Setjmp returns what Longjmp was given, and 1 instead of 0.
Longjmp(x) == IF x = Nul THEN One ELSE x

CoroInit ==
  /\ text \in BoundedSeq(Byte, MaxLen)
  /\ input = text
  /\ queue = <<>> /\ running = "none"
  /\ pc = "main" /\ v = NOTHING
  /\ ch = Nul /\ prev_ch = Space /\ inside = FALSE
  /\ words = 0 /\ removed = 0 /\ printed = 0
  /\ out = <<>>

-----------------------------------------------------------------------------
\* The three calls of coro_add.
CoroAdd ==
  /\ pc = "main" /\ Len(queue) < Len(Names)
  /\ queue' = Append(queue, Names[Len(queue) + 1])
  /\ UNCHANGED <<text, input, running, pc, v, func>>

CoroRun ==
  /\ pc = "main" /\ Len(queue) = Len(Names)
  /\ running' = Head(queue)
  /\ v' = NOTHING
  /\ pc' = "enter"
  /\ UNCHANGED <<text, input, queue, func>>

\* coro_switch.  TAILQ_REMOVE leaves the links of the removed coroutine alone, so the one
\* after it is still found through them; after the last one comes the first.
Place == CHOOSE i \in DOMAIN queue : queue[i] = running

Following(left) == IF Place < Len(queue) THEN queue[Place + 1] ELSE Head(left)

CoroSwitch ==
  /\ pc = "switch"
  /\ queue' = IF v = EOF THEN RemoveAt(queue, Place) ELSE queue
  /\ IF queue' = <<>>
       THEN pc' = "done" /\ v' = NOTHING /\ UNCHANGED running
       ELSE pc' = "enter" /\ v' = Longjmp(v) /\ running' = Following(queue')
  /\ UNCHANGED <<text, input, func>>

-----------------------------------------------------------------------------
Enter(co) == pc = "enter" /\ running = co
Yield(x) == pc' = "switch" /\ v' = x

\* func_1 is entered for the first time, or returns from coro_yield.
Func1 ==
  /\ Enter("func_1")
  /\ inside' = TRUE
  /\ prev_ch' = IF inside THEN ch ELSE prev_ch
  /\ pc' = "read"
  /\ UNCHANGED <<text, input, queue, running, v, ch, words, removed, printed, out>>

Read == pc = "read" /\ input # <<>> /\ ch' = Head(input) /\ input' = Tail(input)

\* White space after white space.
Func1Skip ==
  /\ Read
  /\ isspace(ch') /\ isspace(prev_ch)
  /\ UNCHANGED <<text, queue, running, pc, v, prev_ch, inside, words, removed, printed, out>>

Func1Yield ==
  /\ Read
  /\ ~(isspace(ch') /\ isspace(prev_ch))
  /\ words' = IF isspace(ch') THEN words + 1 ELSE words
  /\ Yield(ch')
  /\ UNCHANGED <<text, queue, running, prev_ch, inside, removed, printed, out>>

\* The mutant does not count a word that ends with the input.
Func1EndNoWord ==
  /\ pc = "read" /\ input = <<>>
  /\ Yield(EOF)
  /\ UNCHANGED <<text, input, queue, running, func>>

\* The end of the input; coro_add passes EOF on.
Func1End ==
  /\ pc = "read" /\ input = <<>>
  /\ words' = IF isspace(ch) THEN words ELSE words + 1
  /\ Yield(EOF)
  /\ UNCHANGED <<text, input, queue, running, ch, prev_ch, inside, removed, printed, out>>

\* The mutant passes on what is not a letter.
Func2Count ==
  /\ Enter("func_2")
  /\ Yield(v)
  /\ removed' = IF v # EOF /\ ~isalpha(v) THEN removed + 1 ELSE removed
  /\ UNCHANGED <<text, input, queue, running, ch, prev_ch, inside, words, printed, out>>

Func2 ==
  /\ Enter("func_2")
  /\ Yield(IF v = EOF \/ isalpha(v) THEN v ELSE NOTHING)
  /\ removed' = IF v # EOF /\ ~isalpha(v) THEN removed + 1 ELSE removed
  /\ UNCHANGED <<text, input, queue, running, ch, prev_ch, inside, words, printed, out>>

\* A character that is not a letter is printed as it is.
Func3Print ==
  /\ Enter("func_3") /\ v \notin {EOF, NOTHING}
  /\ printed' = printed + 1
  /\ out' = Append(out, IF isalpha(v) THEN Swap[v] ELSE v)
  /\ Yield(NOTHING)
  /\ UNCHANGED <<text, input, queue, running, ch, prev_ch, inside, words, removed>>

\* The mutant takes EOF for a character that is not there.
Func3NeverEnds ==
  /\ Enter("func_3") /\ v \in {EOF, NOTHING}
  /\ Yield(NOTHING)
  /\ UNCHANGED <<text, input, queue, running, func>>

Func3Silent ==
  /\ Enter("func_3") /\ v \in {EOF, NOTHING}
  /\ Yield(v)
  /\ UNCHANGED <<text, input, queue, running, func>>

\* main returns.
Done == pc = "done" /\ UNCHANGED coroVars

-----------------------------------------------------------------------------
CoroStep ==
  \/ CoroAdd \/ CoroRun \/ CoroSwitch
  \/ Func1 \/ Func1Skip \/ Func1Yield \/ Func1End
  \/ Func2 \/ Func3Print \/ Func3Silent

CoroNext == CoroStep \/ Done

CoroSpec == CoroInit /\ [][CoroNext]_coroVars

\* The process keeps running: nothing in it waits.
CoroFairSpec == CoroSpec /\ WF_coroVars(CoroStep)

-----------------------------------------------------------------------------
Consumed == SubSeq(text, 1, Len(text) - Len(input))

\* The letters of s with their case swapped.
Letters(s) ==
  LET upto[i \in 0 .. Len(s)] ==
        IF i = 0 THEN <<>>
        ELSE IF isalpha(s[i]) THEN Append(upto[i - 1], Swap[s[i]]) ELSE upto[i - 1]
  IN  upto[Len(s)]

\* The letter on its way from func_1 to func_3.
InFlight ==
  IF \/ pc = "switch" /\ running \in {"func_1", "func_2"}
     \/ pc = "enter" /\ running \in {"func_2", "func_3"}
    THEN <<v>> ELSE <<>>

CoroTypeOK ==
  /\ pc \in {"main", "enter", "read", "switch", "done"}
  /\ v \in Byte \cup {One, NOTHING}
  /\ ch \in Byte /\ prev_ch \in Byte /\ inside \in BOOLEAN
  /\ {words, removed, printed} \subseteq Nat

\* At any time standard output and the letter on its way are the letters read so far,
\* in their order and each once: coro_switch feeds every coroutine with the value of the
\* one before it and loses, repeats or delays none (lines 42-49 of coro.c).
\* The variables have their types, too.
NothingLost == CoroTypeOK /\ Letters(Consumed) = out \o Letters(InFlight)

\* Word starts of a text.
WordStarts(s) == {i \in DOMAIN s : ~isspace(s[i]) /\ (i = 1 \/ isspace(s[i - 1]))}

\* When the input was read to its end, func_1 reports the number of words in it, and
\* func_2 and func_3 together have got what is left of it after squeezing white space.
\* An empty input is reported as one word.
CountsRight ==
  pc = "done" /\ EOF \notin ToSet(text) =>
    /\ text # <<>> => words = Cardinality(WordStarts(text))
    /\ printed = Len(out)
    /\ removed + printed =
         Cardinality({i \in DOMAIN text : ~isspace(text[i]) \/ (i > 1 /\ ~isspace(text[i - 1]))})

\* Once coro_run is called the coroutines end one after the other and the dispatcher gets control back: with all
\* of the input read, or after a byte 0xFF, which func_1 yields as if it were EOF.
AllEnd == pc = "enter" ~> pc = "done" /\ queue = <<>> /\ (input = <<>> \/ ch = EOF)
=============================================================================
