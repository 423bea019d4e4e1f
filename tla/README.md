# TLA+ models of the programs in SO-UWr-2024

The repository holds the solutions to an operating systems course: some fifty
small C programs, in directories numbered by exercise list, about processes,
signals, pipes, files, memory, sockets, semaphores and threads. They share no
state with each other. What they share is that each is short and that its
difficulty lies in the order in which things happen. This directory models the
programs with state of their own, checks them with TLC and proves with TLAPS
the safety properties that the runs check.

Line numbers in the modules (`ramen.c:74`, labels such as `"wait26"`) refer to
the C sources under `src/`. `PROJECT.json` maps every definition to its lines.

## 1. Inventory

Modelled:

| Program | State | Operations | What is hard | What makes it correct |
|---|---|---|---|---|
| `13/sem.c` | counter, mutex, condition variable | `init`, `wait`, `post` | the test is stale after the sleep; one signal per post; spurious wakeups | no unit is taken that is not there, no wakeup is lost, it behaves like an atomic semaphore |
| `13/so21_lista_13/philosophers.c` | a semaphore per fork, the semaphore `footman` | the loop of a philosopher | circular wait; the footman is released before the forks | neighbours do not eat together, no deadlock, no starvation |
| `.../savages.c` | `meals`, three semaphores in shared memory | savage, cook | the cook writes without the mutex; a savage waits with the mutex held | the pot goes from 0 to M and down by one; everybody eats |
| `.../barrier.c` | counter, mutex, two turnstiles | `barrier_wait`, horses, `main` that replaces them | waiting with the mutex held; reading the counter without it | nobody passes early, every horse finishes |
| `14/so21_lista_14/ramen.c` | `waiting`, `eating`, `must_wait` | `ramen_wait`, `ramen_finish` | the last one out counts the next group in while it sleeps | a seat for everyone inside, groups do not mix, the queue is not forgotten |
| `.../office.c` | `waiting`, three condition variables | customer, clerk | three signals per customer, any of which may find nobody | seats are counted, the clerk does not oversleep, someone is served |
| `.../ride.c` | `ride_t`, two semaphores, three condition variables | cart, passengers | unlocked spin loop, uninitialised counter, stale queue length | the assertion holds, the cart departs full, is counted right, opens when all want out |
| `7/so21_lista_7/hashdb.c` | two mapped files | insert, query, rehash | kill and restart between any two steps and inside a `strncpy`; a rehash that fails half way | inserted keys are found, once; insertion ends |
| `8/so21_lista_8/stralloc.c` | arenas of bytes, next-fit cursor | `stralloc`, `strfree` | headers between the caller's bytes; merging; last block of an arena | chains intact, contents intact |
| `7/so21_lista_7/forksort.c` | a table in shared memory, the processes that sort it | `QuickSort` with forks and waits, `Partition`, `InsertionSort` | no lock; waits for "any child"; a fork that fails looks like a call that is done | no element in the reach of two processes, sorted when it is checked |
| `8/so21_lista_8/objpool.c` | a bitmap per arena, two index levels | `objalloc`, `objfree` | the levels are caches that are changed under conditions | no object is given out twice, bitmap, counter and index agree |
| `5/so21_lista_5/prime.c` | pipes and the descriptor table of every process | generator, chain, filters, `main` | the end depends on who has closed which descriptor, by number | the primes in order, every process ends |
| `2/so21_lista_2/sinit.c` | pending signals, alarm, children | `sigwait` loop, `sigreap`, `spawn` | signals merge | no zombie is forgotten |
| `2/so21_lista_2/cycle.c` | a pending signal per process | `play`, SIGINT | the ball comes before its receiver sleeps | one ball, never lost, that goes round |
| `9/so21_lista_9/echoserver-fork.c` | table shared with the children, two counters | accept loop, two signal handlers, children | handlers interrupt main and each other; signals merge | the table is exact, the reported total is complete, children are waited for |
| `3/so21_lista_3/coro.c` | run queue, one saved context per coroutine | `coro_add`, `coro_run`, `coro_switch`, `coro_yield`, three filters | a removed queue element's link is followed; values that double as markers | no character is lost or moved, the counts are right, everything ends |

Components of one program interact through shared memory under a mutex (lists
13 and 14), through files (`hashdb`), through signals and `MAP_SHARED` memory
(`echoserver-fork`, `forksort`), through signals alone (`sinit`, `cycle`), through
pipes (`prime`), or by direct jumps (`coro`). `csapp`, which wraps the system
calls, is not in the repository; pthreads, semaphores, `waitpid`, `rename` and
`Longjmp` are modelled from how the programs use them.

Not modelled: see section 8 and the notes in `PROJECT.json`.

## 2. Modules

Each program has a module; `MC` modules and `.cfg` files give TLC its instances, and
theorems are in modules of their own. `Spec` is the safety part; `FairSpec` adds
fairness. In the order of writing:

| Module | Models | Proofs |
|---|---|---|
| `AtomicSem` | what a counting semaphore promises | - |
| `CondSem` | `sem.c`, refines `AtomicSem` | `CondSemProofs` |
| `Philosophers` | `philosophers.c` | `PhilosophersProofs` |
| `Savages` | `savages.c` | `SharedMemoryProofs` |
| `Barrier` | `barrier.c` | `SharedMemoryProofs` |
| `Ramen` | `ramen.c` | `RamenProofs` |
| `Office` | `office.c` | `OfficeProofs` |
| `Ride` | `ride.c` | `RideProofs` |
| `HashDb` | `hashdb.c` | `StorageProofs` |
| `StrAlloc` | `stralloc.c`, `arena.c`, the caller in `test.h` | `StorageProofs` |
| `EchoServer` | `echoserver-fork.c` | `ProcessProofs` |
| `Coro` | `coro.c` | `ProcessProofs` |
| `ForkSort` | `forksort.c` | `SharedMemoryProofs` |
| `ObjPool` | `objpool.c`, its list in `arena.c`, the caller in `test.h` | `StorageProofs` |
| `Prime` | `prime.c` | `ProcessProofs` |
| `Sinit` | `sinit.c` | `ProcessProofs` |
| `Cycle` | `cycle.c` | `ProcessProofs` |

Most instances have more than one program: `MCSharedMemory` the two with semaphores
and a counter in shared memory (`Savages`, `Barrier`), `MCMonitors` two with counters
under one mutex (`Ramen`, `Office`), `MCStorage` the four that keep a data structure in
mapped memory (`HashDb`, `ForkSort`, `StrAlloc`, `ObjPool`), `MCEchoServer` the three that
live by signals (`EchoServer`, `Sinit`, `Cycle`), `MCCoro` the two pipelines (`Coro`, `Prime`).
The programs do not interact. The variable `program` of such a module is chosen in
the initial state and says which of them runs; the others stay in their initial
states, and fairness is asked only of the one that runs. A liveness property either
starts from something the program does, or has `program` as its premise (`SavagesEat`
is `EverySavageEats` and `RaceEnds` is `HorsesFinish` for the program in question), so
nothing is claimed of a program that was not chosen. `MCBarrierCrowd`, `MCRamenQueue`,
`MCRideAssert.cfg` and `MCRideDoors.cfg` are the instances in which TLC refutes what the
sources say.

Some definitions are marked "the mutant ...": a version of the next definition
with a plausible slip in it. They are not part of any specification. Putting one
in the place of the original must break the property `PROJECT.json` names, which
shows that the property looks at that piece of code.

### Correspondence with the code

* **Grain.** With semaphores (`Philosophers`, `Savages`, `Barrier`) and in
  `CondSem` every semaphore operation or access to shared memory is a step. In
  `Ramen`, `Office`, `Ride` all shared data is accessed with the mutex held, so a
  block from lock to unlock or `pthread_cond_wait` is one step (`CondSem` keeps
  the mutex explicit). The exception in `ride.c`, the loop of line 82, is a step
  of its own.
* **Condition variables.** A sleeping thread is at a label of its own; a signal
  moves one of them, chosen freely, or has no effect if there is none.
  `Spurious = TRUE` lets a sleeper wake up at any time (`CondSem`, `Office`).
* **Semaphores.** `sem_wait` is a guard, `sem_post` adds one.
* **`AtomicSem`/`CondSem`.** `pc` holds where each thread is, `mutex` who owns the
  mutex. The refinement `Sem` maps the counter to the atomic semaphore's value and
  the line of a thread to idle, waiting or through; a V happens at the increment, a P at the decrement.
* **`Philosophers`.** One action per line 23-39. `LeftOf` is `(p + N - 1) % N`.
* **`Savages`.** One action per line of `savage` and `cook`. As in the code, the pot
  is not tested again after the wait of line 26.
* **`Barrier`.** Labels are lines of `barrier_wait`. `entered` is a history
  variable. `Replace` is `Wait(NULL)` and the next fork in `main`.
* **`Ramen`.** `RamenQueue`/`RamenEnter` are the two ways through `ramen_wait`,
  `RamenFinish` is the whole of `ramen_finish` with its loop of signals. `Forgotten`
  is the number of sleepers whom `waiting` does not count.
* **`Office`.** The customers of the office are `Client`, its `waiting` is `o_waiting`
  (`Ramen` has the plain names). `WalkIn` sits down and signals; `GoToDesk` and `LeaveDesk` follow
  the two waits; the clerk's calls are three blocks.
* **`Ride`.** `min` is the local of `cart_load`; `aborted` is a failed assertion
  at line 128, after which nothing happens. All threads start at their first line, in any
  order. `Garbage` is what `want_to_leave_count` may hold at the start; `SEM_VALUE_MAX` is
  where `sem_post` fails, which nobody looks at. `start` (the first `want_to_leave_count`) and
  `early` (somebody has boarded from outside before the cart came to line 94) are
  history variables.
* **`HashDb`.** A table is a record of size and entries; `Chain` and `Idx` are the
  entries `db_action` looks at; `Put` is one `db_maybe_insert`. `RehashCopy` copies
  one entry per step, so `Stop` (a kill, or the end of input) may come in between; so it may
  between the `Open` that creates the second file (`RehashOpen`, an empty file) and the
  `Ftruncate` (`RehashTruncate`). `NoFile` is a file that is not there.
  `KillInInsert` and `KillInCopy` are kills inside `strncpy`: the entry then holds some
  other key out of `Torn`. `torn` is a history variable: such a thing has happened to
  the database since its last rehash. A key stands for the first
  bytes of a line, a hash is a constant function.
* **`StrAlloc`.** `mem` is a sequence of arenas, each a function from offsets to
  signed bytes; the caller writes a byte that looks like a free header into the
  strings it gets. A call of `stralloc` is several steps, one for every block that
  `alloc_block` looks at and one for every arena the search leaves; `ar` is the arena it is in and `len` the
  length it was called with, both 0 between calls. `strfree` is one step and comes between calls: the program is sequential.
* **`EchoServer`.** `main`, `sigint` and `chld` say where main and the two handlers
  are. A handler runs on top of what it has interrupted, which goes on only when
  the handler has returned; SIGINT's never returns. `masked` and `pending` are the kernel's state
  of SIGCHLD. A connection and the pid of its child are the same model value.
  `got` is a history variable.
* **`Coro`.** A step is what happens between two jumps. `v` is the value passed
  along; bytes are a small and a capital letter, white space, 0 (which `Longjmp`
  turns into 1) and 0xFF (which as a `char` is `EOF`).
* **`ForkSort`.** A process is the list `todo` of calls it has still to make, the
  `call` it is in and the number of `waits` ahead of it. Only the outermost call of a
  process has children, because what is not forked is too small to fork. A round of a loop is a step. `Main` only
  makes the first call and the check. `lost` is a history variable.
* **`ObjPool`.** A bitmap is the set of its bits; a word has `WORD` bits. `TEST` is
  chosen at the start and is the macro of line 22. `tzcnt` on a full word gives the
  first bit of the next one, as the code would find. `ptrs` is a set and `ptrn` a
  count, so an object given out twice makes them differ.
* **`Prime`.** A descriptor table is a function from numbers to ends of pipes. Labels
  are lines; `parent` is the process that runs `main`. `Close` of a descriptor that is not open ends the process, as `csapp`'s wrapper does.
  `AtEnd` is a read of zero bytes, and `WriteNum` without a reader is
  SIGPIPE. The chain never comes back to line 68, so it has no action.
* **`Sinit`.** `pend` is the set of pending signals, so two of a kind are one. The
  environment sends signals, orphans processes and lets children die.
* **`Cycle`.** `ball[p]` is a pending SIGUSR1. Between `Kill` and `sigsuspend` a player is at `"play"`,
  where the signal is blocked.

## 3. Runs

Deadlock is checked in `philosophers`, `monitors` and `storage`. In `condsem` all threads
may wait for a value that nobody posts, `shared_memory` and `coro` have programs that end
(their liveness properties say that they do), and in `ride` and `echoserver` the code can
stop (section 7); these runs turn it off.

| Run | Instance | Checks |
|---|---|---|
| `condsem` | 3 threads, `init` with -1 to 2, counter at most 2, spurious wakeups | `NoLostWakeup`, `ImplementsSem` (with fairness) |
| `philosophers` | N = 4 | `NeighboursDoNotEat`, `NoDeadlock`, `NoStarvation` |
| `shared_memory` | `Savages`: 4 savages, pot of 3 | `PotChanges`, `SavagesEat` |
| | `Barrier`: 3 horses, n = 3, two laps each, one replacement | `FirstLapTogether`, `RaceEnds` |
| `barrier_crowd` | 3 horses, n = 2 | `HorsesFinish`, **violated** |
| `monitors` | `Ramen`: 5 customers, 2 seats | `NotOvercrowded`, `FewForgotten`, `GroupLeaves`, `EatsUnlessForgotten` |
| | `Office`: 3 customers, 2 seats, spurious wakeups | `OfficeInv`, `OfficeServes` |
| `ramen_queue` | 4 customers, 2 seats | `NobodyForgotten`, **violated** |
| `ride` | 4 passengers, 2 seats, `want_to_leave_count` from -1 to 2 | `AssertFailsOnlyEarly`, `DepartsFull`, `RidersCounted`, `SeatedDeparts` |
| `ride_assert` | the same, `want_to_leave_count` 0 | `AssertHolds`, **violated** |
| `ride_doors` | 3 passengers, 2 seats, `want_to_leave_count` from -1 to 2 | `AllWantToLeave`, **violated** |
| `storage` | `HashDb`: 5 keys, colliding hashes, kills inside `strncpy` | `KeysFound`, `NoDuplicates`, `InsertEnds` |
| | `ForkSort`: 6 elements, 68 tables, a fork that may fail | `OneOwner`, `SortedWhenChecked` |
| | `StrAlloc`: arenas of 9 bytes with a header of 1, at most 2, strings of 1 to 3 bytes | `ChainIntact`, `ContentsIntact`, `NothingToMerge` |
| | `ObjPool`: words of 2 bits, 7 items, 2 arenas, both builds | `PoolExact` |
| `echoserver` | 3 connections, table of 2, 1 line each | `TableExact`, `ReportComplete`, `ZombiesReaped` |
| | `Sinit`: 3 children | `NoZombieForgotten` |
| | `Cycle`: 4 children | `OneBall`, `BallGoesRound` |
| `coro` | all inputs of up to 5 bytes out of 5 kinds | `NothingLost`, `CountsRight`, `AllEnd` |
| | `Prime`: up to 12, pipes of 2 numbers, forks that may fail | `PrimesInOrder`, `AllProcessesEnd` |

What they show, and why the bounds are enough:

* **condsem.** Three threads are needed for the race the code has to survive: one
  sleeps, one posts, one overtakes. `sem.c` implements `AtomicSem`, including that
  a V is followed by the return of some waiting thread.
* **philosophers.** With four the ring has two philosophers who are not
  neighbours, and the footman admits three. `NoDeadlock` says that some
  philosopher can move, one who thinks included; with all of them at the table, which the footman
  prevents, it would be false.
* **shared_memory.** More savages than meals, so that the pot runs out in the middle of
  a round; `PotChanges` is what makes it safe that the cook writes without the mutex.
  As many horses as the barrier has room for, so the counter reaches n
  exactly once in each direction, and two laps, since the barrier does not return to
  its first state and later laps are like the second.
  `barrier_crowd` has the proportion of `main`, more horses than n.
* **monitors.** With five customers and two seats the queue may be longer than the
  restaurant, and the reset of `ramen.c:74` may forget somebody more than once; `FewForgotten`
  bounds how many, and `EatsUnlessForgotten` says that nothing else goes wrong. In `ramen_queue` two
  customers more than seats (`main` has five more) are enough for somebody to sleep in front
  of an open door. In the office a third customer can be turned away while two are
  inside, and signals are lost.
* **ride.** Twice as many passengers as seats: a second load is on its way
  while the first one leaves, and the queue can be as long as the cart. The start values of `want_to_leave_count` are one of
  each kind: negative, 0, one that opens the doors too early, and `seats`. Two is enough for
  `SEM_VALUE_MAX`: `all_ready` never exceeds 1, and `passengers_ready_to_leave` only after the doors
  were opened too early; the theorems hold for every value.
  `SeatedDeparts` names the states in which passengers are stranded or the cart spins for ever,
  and says that there are no others. `ride_assert` and `ride_doors` show that the
  assertion can fail, and the doors can open too early.
* **storage.** Hashes chosen so that chains wrap around, and that a table of 8
  refuses keys a table of 4 holds, so the rehash fails and is repeated with 16. One key has
  a beginning that is another key, with another hash; a kill that leaves it
  is considered while the database has at most `TornSize` entries.
  Six elements are the fewest for two forked halves (of three) at a time with
  `FORKSORT_MIN = INSERTSORT_MAX = 1`; the tables have all patterns of two values,
  and some with up to six. That nobody waits for a child that was never forked is the absence of deadlock.
  An arena of strings starts as a block of full size and a smaller last one, both can be split,
  and the search passes from arena to arena and comes round. All orders of allocations and frees are covered; the number of
  arenas is the only bound on their length. A new arena in the middle of the list needs three; that case is
  in the proof, which has no such bound. With words of two bits seven items need
  two words of the lower level and one of the upper, as the 2000-odd items of the
  code need several of each; the last bit is never used, as there.
* **echoserver.** The third connection finds the table full unless an earlier one
  has ended, so entries are reused and the NULL path is taken. SIGINT may come at any step, from `kill`
  or from the terminal (which signals the children too). With three children one may
  die before, while and after another is waited for. Four children are the fewest
  `cycle.c` accepts. The run may stop: see section 7 for the server, and a player may quit.
* **coro.** Each coroutine looks at one character and the one before it. Up to 12
  there are five primes, so descriptors are reused in both patterns that `pipe(2)` can give,
  and pipes of two numbers run full. Both programs come to an end, which the liveness
  properties state, so deadlock is not checked.

## 4. Fairness

* Threads and processes that are not blocked go on (weak fairness per thread):
  the scheduler of the system. Thinking, eating and sleeping at home are `usleep` calls of
  bounded length and end too; clients of the server that send or hang up are not forced.
* `Philosophers`, `Savages`, `Barrier`: a waiter that is again and again offered
  a unit of a semaphore gets one in the end (strong fairness of `sem_wait`). Linux
  queues waiters on the futex; POSIX does not promise it for default scheduling, and
  without it a philosopher or a savage can starve.
* `CondSem`: strong fairness for the mutex, weak fairness for the rest, nothing
  about which sleeper a signal wakes. Accordingly only the progress of some waiter is claimed.
* `HashDb`: the process goes on with an insertion; kills are not fair.
* `EchoServer`: the server runs, and a forked child gets to line 120. Nothing is
  assumed of clients, of the terminal or of what comes after SIGINT.
* `Coro`: the only process runs.
* `Prime`, `Cycle`: every process that is not blocked runs. A Fork may or may not fail;
  SIGINT need not come. `ForkSort`, `ObjPool`, `Sinit`: no liveness is claimed. (In `Sinit`
  it would need a fair choice among pending signals, which `sigwait` does not promise.)

## 5. Proofs

The inductive invariants were checked with TLC before they were proved; the runs
keep what follows from them. All theorems are about the safety part of a specification, for every value of the constants that
satisfies the `ASSUME` of the module: finite sets of threads, positive sizes, N >= 2, model
values different from each other.

* **`CondSemProofs`.** `IInv` = types, who owns the mutex (`MutexOwner`), the
  counter is still positive where it was tested (`TestStillTrue`), `NoLostWakeup`.
  The last is the delicate one: while somebody sleeps there are at least as many threads *committed* to
  take a unit or to wake a sleeper as there are units. `CommittedMove` says how a
  step of one thread changes that number. From `IInv` every step is
  a step of `AtomicSem` or a stutter (`ImplementsAtomicSem`).
* **`PhilosophersProofs`.** `IInv` = types, each fork is free exactly if nobody holds it and has
  one holder otherwise (`ForkOwnership`), `footman` = N - 1 minus those seated
  (`FootmanCount`). `TableNeverDeadlocks`: if all were blocked, all seated ones
  would wait for a left fork, so the waiting spreads from one philosopher around the whole
  table (lemma `Round`, by the least counterexample), and N would be seated.
* **`SharedMemoryProofs`, `Savages`.** `IInv` = types, one savage inside (`OneInside`), an order
  for a refill is in exactly one of three places (`OneOrder`), the contents of the pot at each stage
  (`PotContents`). `PotChanges` follows step by step.
* **`SharedMemoryProofs`, `Barrier`.** `BarrierFirstLap` is about any number of horses, laps,
  replacements and any n. With more horses than n, as in `main`, its first part is all that is left of the
  barrier: nobody is through before n have arrived. `CrowdInv` is behind it: either the first turnstile was
  never opened, and `waiting` counts who has arrived (`Closed`), or n have entered; and `waiting`
  is never less than the number of horses between two lines, so it is not brought to n before n are
  there. For no more than n horses (the rest of the property, which fails beyond: run
  `barrier_crowd`) `BarrierInv` follows the first lap through its stages:
  the horses gather in front of the first turnstile (`Gather`), pass it
  (`Pass`), go through the second and count themselves again (`Meet`). In each stage `waiting` is the number of
  horses between two lines and each turnstile is closed or binary. In the last stage (`Open`) `waiting` stays at n or
  more, so nobody finds n or 0 in it and both turnstiles stay open. The read of the counter without the
  mutex (`:60`) is harmless because the counter only grows in `Meet`.
* **`RamenProofs`.** `IInv` = types, `eating` counts those who eat and those woken but not
  yet in, the door is closed while the restaurant is full, and
  `waiting` never counts a customer who does not sleep (it may count too few, after
  a reset). `HandOver` is the step of the last
  customer out. `GroupsDoNotMix` is an action property. `FewForgotten` is inductive with `IInv`: a reset happens
  with nobody inside but the one who leaves, so the forgotten ones, the next group and that one are different customers.
* **`StorageProofs`, `HashDb`.** `IInv` = types, every stored key is at the first entry of its chain
  that is free or holds it (`Placed`; of the database only while nothing is `torn`), the copy holds what the loop has passed
  (`Copied`), `KeysFound`. The heart is `PutKeeps`: an insertion disturbs no chain because the entry
  it fills was the end of every search that reached it. It holds for
  every hash function and every `Torn`, with kills and restarts. Part of a key, left in the database by a kill, is in
  a place where its own search may not stop, and may be stored a second time; it harms no other key, since a filled entry
  stays filled, and the next rehash puts it where it belongs. The file it is copied to is never torn while it is
  in use: the kill that tears it also ends the copy, and no process opens that file again.
* **`StorageProofs`, `StrAlloc`.** `StrInv` says of every arena that it is `Sound`: its headers cut it
  into blocks up to the zero at its end (`IsBlocks`); a string is the body of a block
  whose header is its length plus one, no two are in one block, and its bytes are what the caller wrote. The clause that makes
  it inductive is the last one: a block shorter than the full size that is free, or that the caller may free, is followed by
  the end or by a used block that nobody holds (the rest of a split). Hence a search that passes a free block that is
  too short never finds a free one behind it, which is `NothingToMerge`, and no header is ever written by the merging
  code. Beside that, the list has every arena once, and `cur_offset` is at a header of the arena it belongs to, also
  between two rounds of the search. `Headers` is a recursive function; `HeadersAre`
  proves, by the least offset where they differ, that it computes the blocks. The longest string is at most 126 bytes because
  a size has to fit into an `int8_t`.
* **`StorageProofs`, `ObjPool`.** `PoolInv` = types, `ptrs` are items of the arenas and as many as the
  caller thinks, and each arena agrees with them (`ArenaExact`). `BlockFound` is why no object is given out
  twice: as the levels are exact and the arena has a free item, `TzcntFound` leads, twice,
  to a clear bit that comes no later than that item, and so is an item itself. `OneBitMore` says that a bit
  fills or empties no word but its own, the arithmetic behind
  `SetKeepsLevels` and `ClearKeepsLevels`.
* **`OfficeProofs`.** `OfficeInv` = types, `o_waiting` counts the customers inside and is at most `seats`,
  nobody is inside while the clerk sleeps. It is inductive as it stands, also when a wait
  returns without a signal, because `SpuriousWakeup` moves nobody through the door.
* **`RideProofs`.** No theorem has a hypothesis about the order of the threads. `RideInv` says,
  line by line of the cart, who is where and what is counted: the queue is counted (`QueueCounted`);
  while the cart boards the last seat is reported once, and a report means a sleeper for every seat
  (`FullOnce`); as long as nobody boarded early, passengers are called from the queue only while the cart
  spins, as many as it waits for, and the queue is closed till then, so `riding` grows up to `min`
  and stays there, and the read without the mutex does no harm (`CallIn`). `Riders` has the part
  for a start value of `want_to_leave_count` that is not in 1 .. `seats` - 1, the premise of
  `RidersCounted` (without it the property is false, run `ride_doors`): up to the departure all riders
  sleep on `cart` (`Boarding`); after it `want_to_leave_count` is its start value or 0, plus those
  who sleep on `want_to_leave`, and the last rider resets it (`Unboarding`). `UnboardKeeps` is where
  the start value matters: for another one a rider who is not the last would report.
* **`ProcessProofs`, `Sinit`.** `NoZombieForgotten` is inductive with the types.
* **`ProcessProofs`, `Cycle`.** `CycleInv` = types, `OneBall`, and `KickedOnce`: no ball before main's
  kick, which comes once, after all the forks. Two players at least, so that
  nobody signals himself (`NextPlayer`).
* **`ProcessProofs`, `EchoServer`.** `EchoInv` = types; what each child's entry is at each stage of
  its life (`Entries`); no two children share one (`Apart`); what main and the handler of
  SIGCHLD hold in hand between two writes (`MainOK`, `HandlerOK`); `nclients` is never too small, and exact
  until SIGINT comes, which may break off a write for good (`Counting`);
  after the handler of SIGINT no child with an entry may read (`LeftAlone`).
  `TableExact` alone is not inductive: it says nothing of the child that has been
  accepted but not forked, whose entry the next steps add. For `ReportComplete` a second layer (`Summed`) says what `nread`
  adds up: it is the number of lines of the children whose entry was freed (`FreedLines`, a set of pairs of child
  and line, so that the sum is a cardinality); only children with an entry have read lines, and an entry's pid is that of
  its own child. When the server exits all entries are freed, so the sum is complete.
* **`ProcessProofs`, `Coro`.** `CoroInv` has three layers. `Shape`: who runs, who is left on the queue
  and what may be passed on at each point; the three filters leave the queue in
  their order, and `ch` is the last byte read. `Flow`: the letters
  of what was read, swapped, are what was printed and the one on its way. `Counts`: words and characters counted are
  those of what was read, up to the word that is still open and what is not yet counted, for a text without 0xFF (and the words for one that is not empty, as the code finds one word in nothing). The letters of
  a text are a recursive function over its length; that it grows by one letter with one byte is proved by a least counterexample,
  so the theorems hold for texts of every length.
* **`ProcessProofs`, `Prime`.** `SieveInv` says what was printed (`Sieve`: the primes up to the last
  one), and, as long as no Fork has failed, the whole state of the pipeline (`Good`). Descriptors: only 3, 4 and
  5 are ever used, the read end of the chain alternates between 3 and 4, a new pipe takes the other one and
  5, and so the descriptor that line 74 closes is either closed already or the filter's own output.
  It follows that a pipe always has its reader, so nobody is killed by SIGPIPE,
  and that the end of a pipe means that its writer is done (`Ordered`). Numbers: the pipe behind the filter of k holds exactly
  the numbers that no d in 2 .. k divides, from behind what its reader has read up to what its writer has written
  (`FilterFlow`, `ChainFlow`). The first of them is the next prime (`FirstIsPrime`):
  the least divisor of a number is prime (`LeastDivisor`), so a number no filter has divided has no divisor at all below
  the next candidate. After a failed Fork the process that forked is gone, and the chain never prints again
  (`Stopped`): what was printed stays a beginning of the primes.
* **`SharedMemoryProofs`, `ForkSort`.** The table is cut into pieces, the ranges that some process sorts
  now or has still to sort. No element is in two pieces or in a piece and a lost range
  (`Pieces`, with `Fresh` and `Within` for the ranges about to be forked); two elements that are in no common piece or
  lost range are in order (`SortedApart`); `Loops` is the loop invariant of
  `Partition` and of `InsertionSort`. For the end: a process waits as often as it has children
  (`Counted`), which sort proper parts of what it sorts (`Nested`). When
  main goes on, a process that is not gone would have a parent that is not gone, with a
  larger range, up to main, who has waited: so all are gone, there is no piece,
  and everything outside the lost ranges is in order.

Theorems share a module when their programs share a kind of state, forked processes around one mapping
in `SharedMemoryProofs`, processes and signals in `ProcessProofs`, stored data in `StorageProofs`; the proofs of
one program do not use those of another.

Only model-checked: the liveness properties (`NoStarvation`, `SavagesEat`, `RaceEnds`, `EatsUnlessForgotten`,
`OfficeServes`, `SeatedDeparts`, `InsertEnds`, `ZombiesReaped`, `BallGoesRound`, `AllEnd`, `AllProcessesEnd`) and the fair part
of `ImplementsSem`. Fairness and `ENABLED` are out of the prover's reach.

## 6. Assumptions that are not in the code

* `Ramen`: `pthread_cond_wait` returns only after a signal.
* `Ride`: the same; and the loop of line 82 reads `riding` anew in every round (it is not
  `volatile`, so a compiler may read it once).
* `HashDb`: an unfinished `strncpy` leaves some key out of `Torn`, not an arbitrary string; in the run such kills
  end at databases of `TornSize` entries, and in the theorems `TornSize` is any number. One process at a time.
* `StrAlloc`: `mmap` succeeds and every arena starts zeroed.
* `EchoServer`: `Fork` and `Accept` succeed; the child can only die of line 119 or at
  the end of `echo`. A `Rio_writen` that fails ends the child with a line it has read and not counted
  (lines 74-76); that is outside, and `got` grows together with `count`.
* `ForkSort`: `INSERTSORT_MAX <= FORKSORT_MIN`, as in the code; with a larger
  `INSERTSORT_MAX` a child would return from line 86 instead of exiting.
* `ObjPool`: `tzcnt %0, %1` writes its first operand, which is so in Intel syntax
  only; the build files that would select it are not in the repository.
* `Prime`: `stdout` is line buffered. Into a file the unflushed lines of line 58 would
  be copied by every Fork and printed again (the `fflush` of line 59 is commented out).
* `Cycle`: the first child reads `getppid()` while main still runs.
* `CondSem`, `StrAlloc`, `EchoServer`, `Coro`, `ForkSort`, `ObjPool`: the bounds `MaxValue`,
  `MaxArenas`, `MaxRead`, `MaxLen`, `MaxLost`, `MaxPools`. In the theorems they are any numbers.

## 7. What the models say about the programs

* `barrier.c:37`: with more horses than n (main runs P = 100 with N = 50) all can
  block for ever; run `barrier_crowd`. From the second lap on the barrier holds
  nobody back, as the third meeting leaves its turnstile open (`:64`); with n horses
  they still all finish.
* `ramen.c:74`: `waiting` is set to 0 although at most `max_seats` sleepers are
  woken. With two customers more than seats `NobodyForgotten` fails: someone sleeps in
  front of an open door, and may for ever; run `ramen_queue`. How many can be forgotten is `FewForgotten`.
* `ramen.c:59`: the wait is under an `if`; a spurious wakeup overfills the
  restaurant.
* `office.c:92`: the signal that the paperwork is done is lost when the customer
  has not yet come to the second wait; that customer waits for the next round.
  So only the service of *some* customer is a property of the code.
* `ride.c:82`: the cart waits for `riding == min`. When a passenger who was not called boards before it
  reads `riding`, that value is passed over and the cart spins for ever (`SpinsForEver`). This can happen in the
  first round, as `main` starts all threads without an order, and after it when line 87 has reopened the queue of
  a cart that passengers from outside had filled since line 82.
* `ride.c:86`: passengers who queue between lines 80 and 86 are neither signalled
  nor let in; with all others asleep the ride stops for ever (`Stranded`).
* `ride.c:126`: whoever was called takes a seat without testing again; run `ride_assert` has the assertion of
  line 128 fail. `AssertFailsOnlyEarly` says what must have happened before.
* `ride.c:141`: a counter that `ride_init` never sets. From 1 .. `seats` - 1 the doors open before all want to
  leave, run `ride_doors`; from a negative value or from `seats` on the first ride never ends.
* `hashdb.c:43`: a `.rehash` file left by a killed process, an empty one too, makes every later
  rehash fail; no key is lost, but the database cannot grow.
* `hashdb.c:27`: a process killed inside `strncpy` leaves part of a key, which a query for that part finds, and which
  can be stored twice until the next rehash.
* `forksort.c:55`: a fork that fails leaves its range unsorted without a word; the
  assertion of line 115 is the only one to notice.
* `prime.c:74`: the first filter closes a descriptor that is not open and exits with an error
  message; the sieve is not disturbed. `:68` is never reached, so main may return before the last filter.
* `sinit.c:81`: the alarm is never needed to find a zombie.
* `stralloc.c:57`: the rest of a split block is marked as used and never given
  out again. This is also what keeps the merging code (`:66`, `:71`), which adds a
  size to a negative header, from ever running (`NothingToMerge`).
* `echoserver-fork.c:57`: SIGCHLD is unblocked before `nclients` is tested, so the
  last child may be waited for between test and `Sigsuspend`, and the server does
  not exit. The same happens when SIGINT comes between lines 113 and 114 or during
  `delclient`, or reaches a child before line 116. `:25`: a connection that finds
  the table full brings the server down (`TableExact` says that nothing else
  does).
* `coro.c:126`: a byte 0xFF ends the pipeline in the middle of the input. `:130`: an empty
  input has one word.

## 8. Not modelled, and plan

Left out for good:

* programs whose core is still a TODO: `smokers.c`, where nobody takes what the agent posts,
  and `mergesort.c`, whose recursive step is missing;
* `game.c`: a signal that comes outside the read jumps into a dead frame, which has
  no defined outcome;
* `reaper.c` and `demand.c`: a fixed sequence of calls, and a handler without state;
* demonstrations of one system call, listings, measurements, written answers and
  scripts (lists 1, 4, 6, part of 5, 7 and 9).

Next:

1. An abstract set of strings that `HashDb` refines, an abstract pool of strings
   that `StrAlloc` refines; `StrInv` and `HashDb`'s `IInv` have what the two refinement proofs need.
