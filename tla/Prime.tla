-------------------------------- MODULE Prime --------------------------------
(***************************************************************************)
(* 5/so21_lista_5/prime.c: a sieve of processes.  The generator writes     *)
(* numbers into a pipe; the chain reads a prime from the last pipe, prints *)
(* it, and forks a filter that copies the rest into a new pipe.  All of it *)
(* ends by descriptors alone: a read meets the end of a pipe when no       *)
(* process holds its write end, a write kills when none holds the other.   *)
(*                                                                         *)
(* So descriptors keep their numbers: pipe(2) takes the lowest free ones,  *)
(* fork(2) copies the table, and in.write is closed at line 74 by its      *)
(* number, whatever it stands for by then.  A filter is named by its       *)
(* prime, and a pipe by the process that writes to it.                     *)
(***************************************************************************)
EXTENDS Integers, Sequences, FiniteSets, SequencesExt

CONSTANTS
  maxprime,        \* the argument
  PIPE_SIZE        \* how many numbers fit into a pipe

ASSUME PrimeAssumption == maxprime \in Nat /\ PIPE_SIZE \in Nat \ {0}

parent == -1
chain == 0
gen == 1
Filter == 2 .. maxprime
Proc == {parent, chain, gen} \cup Filter
Pipes == {gen} \cup Filter

VARIABLES
  fds,             \* the descriptors of each process: the end of a pipe, or Closed
  data,            \* what is in each pipe
  line,            \* where each process is: the line about to run, or "none", "zombie", "gone"
  in_pipe,         \* the pipe_t in of chain and filters
  filter_pipe,
  num,             \* n, prime or num of each process
  stdout,          \* what has been printed
  waits,           \* i of main
  failed           \* history: a Fork has failed

pipeVars == <<in_pipe, filter_pipe, num>>
primeVars == <<fds, data, line, pipeVars, stdout, waits, failed>>

FD == 3 .. maxprime + 5
Closed == <<0, "closed">>
NoFds == [f \in FD |-> Closed]
Holders(end) == {p \in Proc : \E f \in FD : fds[p][f] = end}

PrimeInit ==
  /\ fds = [p \in Proc |-> NoFds]
  /\ data = [k \in Pipes |-> <<>>]
  /\ line = [p \in Proc |-> IF p = parent THEN "pipe92" ELSE "none"]
  /\ in_pipe = [p \in Proc |-> [read |-> 3, write |-> 4]]
  /\ filter_pipe = [p \in Proc |-> [read |-> 3, write |-> 4]]
  /\ num = [p \in Proc |-> 2]
  /\ stdout = <<>>
  /\ waits = 0
  /\ failed = FALSE

-----------------------------------------------------------------------------
Goes(p, from, to) == line[p] = from /\ line' = [line EXCEPT ![p] = to]

\* The two lowest descriptors that are free in the table t, in their order.
MakePipe(t) ==
  LET free == {f \in FD : t[f] = Closed}
      r == CHOOSE f \in free : \A g \in free : f <= g
      w == CHOOSE f \in free \ {r} : \A g \in free \ {r} : f <= g
  IN  [read |-> r, write |-> w]

Opened(t, ends, k) == [t EXCEPT ![ends.read] = <<k, "r">>, ![ends.write] = <<k, "w">>]

\* exit(), or the death by a signal: all descriptors are closed.
Exits(p) ==
  /\ fds' = [fds EXCEPT ![p] = NoFds]
  /\ line' = [line EXCEPT ![p] = "zombie"]

\* Close ends the process when the descriptor is not open.
Close(p, f, from, to) ==
  /\ line[p] = from
  /\ IF fds[p][f] = Closed
       THEN Exits(p)
       ELSE Goes(p, from, to) /\ fds' = [fds EXCEPT ![p][f] = Closed]
  /\ UNCHANGED <<data, pipeVars, stdout, waits, failed>>

\* A number is there; and the end of the pipe.
HasNum(p, f) == data[fds[p][f][1]] # <<>>
AtEnd(p, f) == data[fds[p][f][1]] = <<>> /\ Holders(<<fds[p][f][1], "w">>) = {}
ReadNum(p, f) ==
  /\ HasNum(p, f)
  /\ num' = [num EXCEPT ![p] = Head(data[fds[p][f][1]])]
  /\ data' = [data EXCEPT ![fds[p][f][1]] = Tail(@)]

\* write(2) waits for room, and raises SIGPIPE when nobody can read.
WriteNum(p, f, from, to) ==
  LET k == fds[p][f][1]
  IN  /\ line[p] = from
      /\ IF Holders(<<k, "r">>) = {}
           THEN Exits(p) /\ UNCHANGED data
           ELSE /\ Len(data[k]) < PIPE_SIZE
                /\ data' = [data EXCEPT ![k] = Append(@, num[p])]
                /\ Goes(p, from, to) /\ UNCHANGED fds

-----------------------------------------------------------------------------
\* main
MainPipe ==
  /\ Goes(parent, "pipe92", "fork93")
  /\ fds' = [fds EXCEPT ![parent] = Opened(@, MakePipe(@), gen)]
  /\ in_pipe' = [p \in Proc |-> MakePipe(fds[parent])]
  /\ UNCHANGED <<data, filter_pipe, num, stdout, waits, failed>>

ForkFrom(kid, from, to, start) ==
  /\ line[parent] = from
  /\ line' = [line EXCEPT ![parent] = to, ![kid] = start]
  /\ fds' = [fds EXCEPT ![kid] = fds[parent]]
  /\ UNCHANGED <<data, pipeVars, stdout, waits, failed>>

\* The Fork of main or of the chain fails: an error message and exit.
ForkFails(p) ==
  /\ line[p] \in {"fork93", "fork101", "fork62"}
  /\ Exits(p)
  /\ failed' = TRUE
  /\ UNCHANGED <<data, pipeVars, stdout, waits>>

MainWait ==
  /\ line[parent] = "wait107" /\ waits < 2
  /\ \E p \in {gen, chain} : Goes(p, "zombie", "gone")
  /\ waits' = waits + 1
  /\ UNCHANGED <<fds, data, pipeVars, stdout, failed>>

MainReturns ==
  /\ line[parent] = "wait107" /\ waits = 2
  /\ Exits(parent)
  /\ UNCHANGED <<data, pipeVars, stdout, waits, failed>>

RunMain ==
  \/ MainPipe
  \/ ForkFrom(gen, "fork93", "close94", "close96")
  \/ Close(parent, in_pipe[parent].write, "close94", "fork101")
  \/ ForkFrom(chain, "fork101", "close102", "read49")
  \/ Close(parent, in_pipe[parent].read, "close102", "wait107")
  \/ ForkFails(parent)
  \/ MainWait \/ MainReturns

\* generator
Generate ==
  /\ num[gen] <= maxprime
  /\ WriteNum(gen, in_pipe[gen].write, "write32", "write32")
  /\ num' = [num EXCEPT ![gen] = @ + 1]
  /\ UNCHANGED <<in_pipe, filter_pipe, stdout, waits, failed>>

GenerateEnd ==
  /\ line[gen] = "write32" /\ num[gen] > maxprime
  /\ Exits(gen)
  /\ UNCHANGED <<data, pipeVars, stdout, waits, failed>>

Generator ==
  Close(gen, in_pipe[gen].read, "close96", "write32") \/ Generate \/ GenerateEnd

-----------------------------------------------------------------------------
\* filter_chain
ReadPrime ==
  /\ Goes(chain, "read49", "fork62")
  /\ ReadNum(chain, in_pipe[chain].read)
  /\ stdout' = Append(stdout, num'[chain])
  /\ UNCHANGED <<fds, in_pipe, filter_pipe, waits, failed>>

ChainEnd ==
  /\ line[chain] = "read49" /\ AtEnd(chain, in_pipe[chain].read)
  /\ Exits(chain)
  /\ UNCHANGED <<data, pipeVars, stdout, waits, failed>>

\* A new pipe, and a child for the prime.
ForkFilter ==
  LET prime == num[chain]
      ends == MakePipe(fds[chain])
      table == Opened(fds[chain], ends, prime)
  IN  /\ line[chain] = "fork62"
      /\ line' = [line EXCEPT ![chain] = "close64", ![prime] = "close70"]
      /\ fds' = [fds EXCEPT ![chain] = table, ![prime] = table]
      /\ in_pipe' = [in_pipe EXCEPT ![prime] = in_pipe[chain]]
      /\ filter_pipe' = [filter_pipe EXCEPT ![chain] = ends, ![prime] = ends]
      /\ UNCHANGED <<data, num, stdout, waits, failed>>

\* The mutant keeps the write end of the new pipe open.
CloseWriteEndForgotten ==
  /\ Goes(chain, "close64", "close66")
  /\ UNCHANGED <<fds, data, pipeVars, stdout, waits, failed>>

CloseWriteEnd == Close(chain, filter_pipe[chain].write, "close64", "close66")

\* The old pipe is left to the filter, and the chain goes on with the new one.
CloseReadEnd ==
  /\ Goes(chain, "close66", "read49")
  /\ fds' = [fds EXCEPT ![chain][in_pipe[chain].read] = Closed]
  /\ in_pipe' = [in_pipe EXCEPT ![chain] = filter_pipe[chain]]
  /\ UNCHANGED <<data, filter_pipe, num, stdout, waits, failed>>

Chain ==
  ReadPrime \/ ChainEnd \/ ForkFilter \/ ForkFails(chain) \/ CloseWriteEnd \/ CloseReadEnd

\* filter.  The mutant drops what is smaller than the square of the prime.
FilterReadSquares(prime) ==
  /\ ReadNum(prime, in_pipe[prime].read)
  /\ Goes(prime, "read38", IF num'[prime] < prime * prime THEN "read38" ELSE "write40")
  /\ UNCHANGED <<fds, in_pipe, filter_pipe, stdout, waits, failed>>

FilterRead(prime) ==
  /\ ReadNum(prime, in_pipe[prime].read)
  /\ Goes(prime, "read38", IF num'[prime] % prime = 0 THEN "read38" ELSE "write40")
  /\ UNCHANGED <<fds, in_pipe, filter_pipe, stdout, waits, failed>>

FilterWrite(prime) ==
  /\ WriteNum(prime, filter_pipe[prime].write, "write40", "read38")
  /\ UNCHANGED <<pipeVars, stdout, waits, failed>>

FilterEnd(prime) ==
  /\ AtEnd(prime, in_pipe[prime].read)
  /\ Goes(prime, "read38", "close74")
  /\ UNCHANGED <<fds, data, pipeVars, stdout, waits, failed>>

FilterExit(prime) ==
  /\ line[prime] = "exit77" /\ Exits(prime)
  /\ UNCHANGED <<data, pipeVars, stdout, waits, failed>>

RunFilter(prime) ==
  \/ Close(prime, filter_pipe[prime].read, "close70", "read38")
  \/ line[prime] = "read38" /\ (FilterRead(prime) \/ FilterEnd(prime))
  \/ FilterWrite(prime)
  \/ Close(prime, in_pipe[prime].write, "close74", "exit77")
  \/ FilterExit(prime)

-----------------------------------------------------------------------------
PrimeNext == RunMain \/ Generator \/ Chain \/ \E p \in Filter : RunFilter(p)

Ended == \A p \in Proc : line[p] \in {"none", "zombie", "gone"}

\* Every process that can go on does.
PrimeFair ==
  /\ WF_primeVars(RunMain) /\ WF_primeVars(Generator) /\ WF_primeVars(Chain)
  /\ \A p \in Filter : WF_primeVars(RunFilter(p))

PrimeSpec == PrimeInit /\ [][PrimeNext]_primeVars /\ PrimeFair

-----------------------------------------------------------------------------
IsPrime(n) == \A d \in 2 .. n - 1 : n % d # 0

\* What is printed (prime.c:58) are the primes in their order, none left out, whatever
\* the speed of the filters; all of them, once main returns and no Fork has failed.
PrimesInOrder ==
  /\ \A i, j \in DOMAIN stdout : i < j => stdout[i] < stdout[j]
  /\ \E n \in 0 .. maxprime : ToSet(stdout) = {p \in 2 .. n : IsPrime(p)}
  /\ line[parent] = "zombie" /\ ~failed => ToSet(stdout) = {p \in 2 .. maxprime : IsPrime(p)}

\* Once there is a pipe every process comes to its end, also when a Fork fails: nobody is
\* left who waits for a pipe that a forgotten descriptor keeps open (prime.c:64-74).
AllProcessesEnd == line[parent] = "fork93" ~> Ended
=============================================================================
