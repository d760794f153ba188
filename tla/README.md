# TLA+ models of linux-high-performance

The repository holds four small, independent programs about server building
blocks on Linux: a process pool, a thread pool, a memory pool, and a comparison
of locks, atomics and a lock-free queue. This directory models them module by
module, checks the models with TLC on small instances and proves with TLAPS, for
every value of the constants, every invariant and every refinement the passing runs check.

Line numbers below are those of `src/01进程池/processPool.h` for the process
pool, of `src/02线程池/01threadPool.c` for the thread pool and of
`src/03内存池/01memoryPool.c` for the memory pool, unless a file is named.

## Inventory

| part | source | state | operations | interacts by | status |
|---|---|---|---|---|---|
| process pool | `01进程池/processPool.h` | `m_sub_process[]`, `m_stop`, `sub_process_index`, signal pipe, epoll instance, one socketpair per child | constructor, `run_parent`, `run_child`, `sig_handler` | fork, socketpairs, signals, a shared listening socket | modelled (`ProcessPool`) |
| CGI connection | `01进程池/testCgi.cpp` 26-129 | buffer, `m_read_idx` | `init`, `process` | called by `run_child`; forks a program | modelled (`CgiConn`), its outcomes in `ProcessPool` |
| test client | `01进程池/testClient.cpp` | none | one request | TCP | modelled (`CgiConn`) |
| thread pool | `02线程池/01threadPool.c` | worker list, `terminate` flags, job list, mutex, condition variable | `threadPoolCreate`, `threadPoolQueue`, `threadPoolShutdown`, `workerThread` | shared memory | modelled (`ThreadPool`, `JobStack`) |
| memory pool | `03内存池/01memoryPool.c` | blocks with `last`, `end`, `failed`; `current`; large list | create, destroy, reset, alloc, nalloc, calloc, free | sequential calls | modelled (`MemoryPool`) |
| atomic counter | `04锁与无锁/01原子操作.c` | two counters | `add`, `atomic_add` | shared memory | modelled (`SharedCounter`) |
| locks | `04锁与无锁/02锁性能与内存模型.cpp` | three locks, counter | lock, unlock, `atomic_add` | shared memory, memory order | modelled (`SharedCounter`, `AtomicCounter`) |
| lock-free queue | `04锁与无锁/03无锁队列.cpp` 94-147 | linked nodes, `_head`, `_tail`, two counts | `push2`, `pop2`, test threads 242-337 | compare-and-swap | modelled (`LockFreeQueue`, `FifoQueue`) |
| locked list | same file, 162-198, 318-338 | `s_list`, mutex, counts | `mutex_thread_push`, `mutex_thread_pop` | mutex, the counts it shares with the queue | modelled (`LockedList`, `QueueTest`) |
| locked queue | same file, 63-91, 203-239 | linked nodes | `push`, `pop` | mutex | not modelled: nothing calls it |

Timing and printing, argument parsing and the compiled programs beside the
sources are left out.

### What is hard, and what makes each part correct

* **Process pool.** N+1 processes; the connections, tokens and signals of each
  come out of one *edge-triggered* epoll loop, so whatever is not taken at its
  edge stays. Signals coalesce, arrive between `epoll_wait` and `recv`, and
  before their handlers exist. Children die at any moment. Correct means: no
  death, byte or token is forgotten; the parent leaves nobody behind; it does
  leave when told; connections get accepted.
* **Thread pool.** Lost and stolen wakeups, spurious wakeups, a shutdown that
  walks an unprotected list whose nodes free themselves, failures half-way
  through creation. Correct means: a job is run once and none is lost; nobody
  sleeps over work; the shutdown reaches everyone.
* **CGI connection.** A request arrives in any pieces, at any moment between
  two system calls, and in a slot another connection has used before. Correct
  means: the program that runs is the first line the client sent; nothing stays
  unread without an event; a client that waits gets an answer or the end.
* **Memory pool.** Sequential; long legal sequences, alignment arithmetic and a
  missing `return`. Correct means: live pieces never overlap nor leave their
  block (which the code does not achieve), every chunk is freed once, free list
  nodes are used again, and full blocks are searched no longer, but not too early.
* **Atomics, locks.** Correct means: no update lost, mutual exclusion and
  visibility of the protected data under x86 store buffers.
* **Lock-free queue.** Correct means: linearizable as a FIFO queue, no access to
  a deleted node, every element popped once, the rounds end, with
  `MAX_THREAD_NUM` 1 (one pusher, one popper) as it is shipped.

`PROJECT.json` lists the individual hazards at their lines.

## Modules

| module | models | checked by | proved in |
|---|---|---|---|
| `ProcessPool` | parent, children, signals, tokens, connections | `MCProcessPool` with `Pool*.cfg` | `ProcessPoolProofs` |
| `MCProcessPool` | values of the constants and the symmetry of connections | | |
| `ThreadPool` | main, workers, job list, shutdown | `Threads*.cfg` | `ThreadPoolProofs` |
| `JobStack` | abstract: what a thread pool promises its caller | refined by `ThreadPool` | `ThreadPoolProofs` |
| `LockFreeQueue` | `push2`, `pop2`, their threads, `~Queue` | `QueueTest` with `QueuePair.cfg` | `LockFreeQueueProofs`, `QueueTestProofs` |
| `LockedList` | the `std::list` under its mutex and its threads | `QueueTest` | `QueueTestProofs` |
| `QueueTest` | composes both as main does, round by round, on the same counts | `QueuePair.cfg` | `QueueTestProofs` |
| `FifoQueue` | abstract: a queue with consumers that may find it empty | refined by `LockFreeQueue` and by `LockedList` | `QueueTestProofs` |
| `MemoryPool` | all calls of the memory pool | `MCMemoryPool` with `MemoryPool*.cfg` | `MemoryPoolProofs` |
| `MCMemoryPool` | the symmetry of chunks | | |
| `SharedCounter` | the counters, locks and test threads of `04锁与无锁`, 01 and 02, over store buffers | `Counters.cfg` | `SharedCounterProofs` |
| `AtomicCounter` | abstract: every increment is one indivisible step | refined by `SharedCounter` | `SharedCounterProofs` |
| `CgiConn` | one slot of `users[]`, its socket, the CGI program, the clients | `Cgi.cfg` | `CgiConnProofs` |
| `NatLemmas` | lemmas on numbers and finite sets the proofs share: least and greatest elements, division, counting | | itself |

Definitions marked *at fault* are plausible bugs (one byte read instead of all,
one waiter woken instead of all, no wrap of an index). No specification uses
them; each is there to be put in the place of the definition that follows it,
to see that a property notices.

### ProcessPool

A process is named by its `m_idx`: -1 is the parent. `pc` says where it stands
in its loop:

| `pc` | place in the code |
|---|---|
| `fork`, `setup` | constructor 173-198; `setup_sig_pipe` and the first `addfd` |
| `wait` | in `epoll_wait` (255, 367) |
| `events` | in the loop over the batch; `events` is what is left of it |
| `send` | in `send` of the token (282) |
| `signals` | in the loop over `signals[]` (293, 413) |
| `spin` | in the `waitpid` loop of 418 without hope of a 0 |
| `exited`, `reaped` | zombie; waited for. `aborted`: the parent died in its start-up |

The kernel is modelled as the code uses it. An epoll instance is a ready list
that an edge fills and `epoll_wait` empties, because every descriptor is
registered with `EPOLLET` (97). A batch is processed in any order. A socketpair
is the number of unread tokens; a full one blocks the sender, a closed one
loses the token (`EPIPE`, and `SIGPIPE` is ignored). A standard signal is
pending at most once; before its handler is installed `SIGCHLD` is ignored and
`SIGTERM`, `SIGINT` kill. `EINTR` from `epoll_wait` only starts the loop again
and is a stutter. `SIGINT` has the cases of `SIGTERM` and is the same value.
`events && EPOLLIN` (285) is always true. What `cgi_conn::process` does is
reduced to its outcomes: the connection is kept, closed, or closed with a CGI
program forked for it.

Bounds and simplifications: `Conns` connections that are each opened once;
connections and the administrator act at most once, so the signal pipe never
fills; the listen backlog of 5 only delays `Connect`; the system calls that can
only fail for want of descriptors after start-up do not fail; a socketpair of a
dead child loses tokens even if a CGI program still holds its other end.
`Interrupts` is the set of groups that may be signalled, once: the parent alone
(`kill`) or all processes (Ctrl-C).

### ThreadPool

One action per access to shared memory that another thread can see. The two tests
of the flag, which no lock protects, are steps of their own: a worker that has found
the list empty (70) tests its flag (71: `Quit`, `StayOn`), and only then waits (75:
`Wait`), whatever has become of the flag; it tests it again behind the loop (80:
`Leave`, `GoOn`), and only then takes the head (86: `Take`) and unlinks it (88:
`Remove`). Marking a node and reading its `next` are separate steps too.
`pthread_cond_wait` itself releases the mutex and sleeps in one step, as POSIX
requires, and takes the mutex again in another; `Spurious` bounds the wakeups
nobody asked for. Jobs are numbered in the order of main's loop, and
worker `w` is the `w`-th created, whose `next` is `w-1`. Creation and the
job's malloc may fail. `numWorkers < 1` (111) is excluded by the assumption on
`NumWorkers`. When `main` returns every thread ends.

A read of `next` in a node that has been freed yields the old value, or, as
far as `StrayReads` allows, NULL (the walk ends early) or a pointer that kills
the program: three outcomes an allocator can produce. `cut` records that the walk has
ended early so: the workers it did not reach keep their flags clear, and the
properties about the shutdown name that case. Corruption of other
objects through such a pointer is not modelled.

`ImplementsJobStack` maps the abstract stack to `waiting_jobs`, the jobs that
run to those a worker has unlinked and not finished, and *open* to the time
before the list is cleared.

### LockFreeQueue

One action per access to shared memory, as the unoptimised build makes them:
`_tail` is read twice (101, 102), `p->_next` up to four times (132, 142, 144),
`s_count_pop++` is a load and a store. The stores to a new node are part of `new`
because nobody can see them before the compare-and-swap, which on x86 is a full
fence; all other shared writes are locked instructions, except the store of
`s_count_pop` by its only writer, so that interleaving is all the memory
model there is. Addresses come from the set `Node`; `delete` leaves something in
`_next` (`Leftovers`), and `new` may return any address that is not in use. A
step through a pointer to nowhere is not enabled: the program dies there.
`chain` is a history variable: the nodes from `_head` to the end. A push takes
effect when its node is linked, a pop when `_head` moves or when nothing is found
after it; `ImplementsFifo` maps `queue` to the data of `chain` without its first
node and `result` to what each popper has got or is about to read.

The threads of one round are created together and joined before the next;
failures of `pthread_create` are left out. `~Queue` runs when main has returned.

### LockedList and QueueTest

`LockedList` has one action for each access to what the threads share, as if there
were no mutex: `x++` is a load and a store, and `push_back` and `pop_front`, which change
several words of the list, are a step that reads it (`Read`, into `view`) and one that writes
what has become of it; `size` and `front` are steps of their own. Only the steps that take and
release the mutex keep a second thread out: put `LockAnyway` in the place of `Lock` and
the list is no queue any more. The read of `s_count_pop` that decides whether a popper
leaves (190) is made without the mutex. An element counts as taken once `front` has
returned it (`Contents`).
`QueueTest` extends `LockFreeQueue`, instantiates `LockedList` on the same
`s_count_push` and `s_count_pop`, and adds `test`: main runs the threads of the
list, joins them, clears the counts, runs those of the queue, and goes on with
the next round (322-334). `s_list` and the queue are kept from round to round.

### MemoryPool

One action is one call, because the pool is sequential. Sizes and addresses are
in words of eight bytes, with the true sizes of the structures; the pool itself
is scaled down. A block is its `last`, `end` and `failed`; `next` is the order of
the sequence, except the one `next` that is never initialised (92): `wild` says
whether it happens to be garbage, and a walk that reaches it makes the state
`corrupt`, after which nothing happens. `pieces` records what was given out
since the last reset, and whether the caller was told where. `mp_alloc_block` has
no return statement; what `mp_alloc` then returns is the last value computed, a
pointer to a node, so `mp_calloc` clears a node and a large node is written over
one: both are `corrupt`. So is whatever is written behind a block, by `mp_calloc`, by a
large node (`AddNode`), or by the program itself, whose writes to what it was given
without being told where, or behind a block, are the action `Write`. Until such a write
the pool is `live`: a program need not use what it has asked for. A large request is a
chunk of the heap; its list node is small space. `MaxOverrun` bounds how far `last` may
run behind `end`, `MaxBlocks` the blocks. `MemoryPoolAssumption` excludes pools that
cannot hold a large node (243: the recursion has no end).

Rounding `last` up past `end` makes the room negative, which is huge as a `size_t` (267), so
that space behind the block is given out. This needs an `end` that is not aligned: in a pool
of 4096 bytes that is the first block's (its data begin at 56, so it ends at 4152, and
4152 is no multiple of 32) and no other's (psize is 4128, which is one). The instance has
the same: its first block ends at word 15, the others at 12, and the alignment is 4.
`PiecesApart` states what does hold (within a block pieces never overlap, and those of a
block with an aligned end lie in it); that every piece lies in its block, `StaysInBlock`,
is violated by the run `memory_overrun`.

Two more things of this code show in the model and contradict no text of the
repository: reset leaves `current` and `failed` (141), so that emptied blocks before
`current` are not used again (`WornAreSkipped` says which blocks these are); and the
uninitialised `next` above.

### SharedCounter

The programs contain x86 assembly, so the machine is x86: each thread has a buffer
of stores, a load sees the thread's own buffer first, and a locked instruction runs
on memory once that buffer is empty. Taking any of the locks is a locked
instruction; the mutex releases by one, the two spinlocks by an ordinary store.
`counter++` and `*value += add` are a load and a store. A lock attempt that fails
changes nothing and is not a step. `done` counts both nested loops at once.
`Init` chooses which of the two programs runs. `ImplementsCounter` maps the abstract
value to the store to `counter` that was made last, buffered or not, and shows
that the locked sections behave like indivisible increments.
`CountsAssumption` is what keeps the `int` from overflowing; the values in the
sources and in the comments of 02 (up to 2000000000) satisfy it.

### CgiConn

A stream is a sequence of CR, LF and other bytes. It arrives in pieces of any
size, before or after `accept` and between any two steps of the server. `edge` is
the event that epoll holds for the socket: `epoll_wait` takes it, anything that
arrives sets it. `recv` and the search that follows are one step, because the
search touches nothing but the slot; `access` and `fork` may fail. A length of 0
is answered with 0 when bytes are waiting and with 0 or `EAGAIN` when none are.
Streams end by FIN or reset whenever a client pleases, except the shipped client:
it sends one word and CR LF, reads once and closes. The slot is used by one
connection after the other; the next client comes when the last one and its program
have gone, for they have nothing in common but the slot and the child. `spins` says that the child
is in the loop of `processPool.h` 418 for good, which it enters when one of its CGI programs, of this
slot or another, has ended and none is left (`pool_cgi_spin`): it serves nobody any more. A program may write and
ends; an `execl` that fails is a program that ends without writing. Names longer
than the client's own buffer are not modelled.

## Fairness

`ProcessPool`: weak fairness for the parent, for each child and for the delivery
of each pending signal, since the kernel schedules every runnable process and
delivers signals. Clients, CGI programs, crashes and the administrator are free.
`ThreadPool`: weak fairness for main's own steps and for each worker: every
thread runs, jobs end, and the mutex is given in the end to a thread that waits
while it is free. When to shut down and when to return is the caller's choice
and not fair.
`LockFreeQueue`: weak fairness for each thread and for main; the compare-and-swap
loops themselves get no further help. In `QueueTest` taking the mutex of the list
is strongly fair: a popper asks for it again and again, and the scheduler runs the
other thread at some moment when it is free.
`SharedCounter`: weak fairness for each thread and for its store buffer, which the
processor empties; a lock need not be fair, since rivals run out of rounds.
`CgiConn`: weak fairness for delivery by the network, the event loop, `process`, the
client's read, and the end of CGI programs. The event loop is fair only while the child comes back to it:
`Spin`, which needs no fairness, disables `Wake` for ever, and `TestClientEnds` has a spinning child whose
connection is still open as its exception. Nothing is assumed of `accept`, since
`pool_stranded` shows that a connection may be left in the backlog:
`TestClientEnds` starts where it has been accepted.

## Runs

| run | instance | shows |
|---|---|---|
| `pool_safety` | 2 children, 2 connections, any process may fail at start-up, child 0 may crash, kill or Ctrl-C, CGI programs; 803 thousand states | `NoOrphans`, `EveryDeathNoticed`, `SignalBytesHaveEdge`, `TokensBacked`, `FullPipeHasEdge`, `Balanced` |
| `pool_live` | 2 children, 2 connections, no CGI program; any process may fail at start-up, any child may crash, kill of the parent; 178 thousand states | `ParentTerminates`, `OldestIsAccepted` |
| `threads` | 3 workers, 2 jobs, 1 spurious wakeup, all stray reads; 219 thousand states | `RunOnce`, `NoneLost`, `WorkConserving`, `MarksLiveNode`, `NobodySleepsOn`, `ImplementsJobStack`, `ShutdownEnds`, `JobsGetRun` |
| `queue_pair` | 1 pusher, 1 popper (`MAX_THREAD_NUM`), 3 elements, 2 rounds of list and queue, 4 addresses; 532 thousand states | `NoDanglingAccess`, `ChainLinked`, `TestsLeaveEmpty`, `ImplementsFifo`, `ListImplementsFifo`, `RoundsEnd` |
| `memory_pool` | a pool of 8 words, small sizes 3 and 4, large 5, 4 blocks, 3 chunks; 162 thousand states | `PiecesApart`, `HeapOwned`, `LargeListBounded`, `WornAreSkipped` |
| `counters` | 2 threads, 3 rounds of 2 increments, both programs; 40 thousand states | `OwnerIsAlone`, `PrintsRight`, `ImplementsCounter`, `TestsEnd` |
| `cgi_conn` | a buffer of 5, all streams of up to 5 bytes, any number of connections one after the other, a child that may spin; 1.55 million states | `FindsRequest`, `DropsOnlyLineless`, `SleepsOnNothing`, `TestClientEnds` |

Four addresses hold a full queue of three and its head, so that `new` never
waits, and six pushes in two rounds force addresses to be reused while `_tail`
or a local still holds them. Two children are the least with which the round
robin, the table scan and "one of several is gone" happen; two connections the
least with which an edge is shared. Three workers let one be woken, one run and one sleep; two jobs let one signal
be sent while the worker woken by the other has not yet come to the list, and one job be dropped while the other is run.
A block of the pool takes one or two pieces of each size, so that new blocks, worn blocks,
overruns and list nodes all occur, and its first block ends unaligned as the shipped one does; `SkipAfter` and `Probes` are 0 there, so that the
limits of lines 173 and 236 are reached within those bounds. Two threads are what both programs
of `SharedCounter` start; three rounds let a stale store of one of them undo several
of the other, and two increments per critical section make a thread read its own
buffer. With a buffer of 5, of which 4 may be filled, a line can be shorter, just
fit, be too long, and be cut everywhere, with bytes behind it.
Deadlock is not checked because all these systems may
stop: clients stop coming, pools shut down, tests end.

### Where the code and its comments part

| run | instance | shows |
|---|---|---|
| `pool_stranded` | 2 connections, no failure | Two connections in one edge get one token and one `accept`; the second waits until yet another client connects (against line 237). |
| `pool_cgi_spin` | 1 child, 1 connection with a CGI program | When the last CGI process has been collected `waitpid` returns -1, which the loop of 418 takes for a pid: the child spins, never sees `SIGTERM`, and the parent waits for ever (against 322; `testClient.cpp` 50 seems to have met it). |
| `threads_walk` | 2 workers, 1 job | `worker=worker->next` (172) reads a node that its worker freed. |
| `memory_overrun` | as `memory_pool` | `last` rounded up goes past `end`, the room is a huge `size_t` (267), and memory behind the block is given out (against 43, 268 and 272). |
| `memory_no_return` | as `memory_pool` | `mp_alloc_block` reserves space and returns nothing (181), against its comment (148): whoever needs a new block gets some other address. |

Seen while modelling, without a run: children that die before the parent's `SIGCHLD`
handler exists (217) are never collected, which is the exception `unseen` in
`EveryDeathNoticed`, and if that is all of them a parent that is told to stop waits for ever, which
`ParentTerminates` excludes by name; with more than the shipped one thread
of each kind `_tail` stays behind the last node for good when two pushes overlap (120 of
`03无锁队列.cpp`), counts of `s_count_pop++` (263) are lost, and nodes are read after they
were deleted (`NoDanglingAccess` is stated for what is shipped); `Queue::pop` (89), which
nothing calls, deletes the node `_tail` points to.

## Proofs

All theorems are about a specification whose constants are left open, under the
named assumptions of the modules:

| assumption | why the code justifies it |
|---|---|
| `PoolAssumption` | `MAX_PROCESS_NUMBER` is asserted (176); the rest says what the sets of events range over |
| `ThreadPoolAssumption` | `numWorkers < 1` becomes 1 (111); bounds are numbers |
| `CountsAssumption` | the sums fit an `int`, as all counts in the sources do |
| `MemoryPoolAssumption` | a pool holds a large node; sizes are positive |
| `CgiConnAssumption` | the buffer has room for more than its terminating zero |
| `QueueAssumption` | a thread pushes or pops; `new` never returns NULL |
| `OnePair` (a hypothesis, not an assumption) | `MAX_THREAD_NUM` is 1: one pusher, one popper |

`OnePair` is there because what it is needed for is false without it (see above);
the theorem about the list under its mutex does without. Bounds such as
`MaxBlocks`, `MaxStream` or `MaxOverrun` are constants too, so that the theorems
hold for each of them and none is a limit of the result.

### The argument of each proof

Seldom is a property inductive. Each proof module names its invariant, which TLC
checked on the instance of the run before it was proved; below is what it adds, and why.

`ProcessPoolProofs`
* `TypeCorrect`: by itself inductive, with the bound of the constructor's loop.
* `ParentLeavesNobody`: nothing in `NoOrphans` says why an empty table means that
  everybody was waited for. `TableInv` adds that an entry is gone exactly when its
  child was reaped or not yet forked, that the parent has forked all when it
  reaches its loop, and that its `m_stop` implies an empty table.
* `DeathsAreNoticed`: `DeathInv` adds that bytes in the buffers exist only for processes
  that run; a death makes `SIGCHLD` pending, `sig_handler` moves it to the
  signal pipe, `recv` moves all of the pipe to `signals[]`, and the byte is
  consumed only by the step that collects every zombie.
* `SignalsKeepEdge`, `FullPipesKeepEdge`: `EdgeInv` follows one event from the ready
  list through the batch until it is handled, and says of the parent that a stop
  leaves no signal event behind it, so that it never sleeps over one.
* `AcceptsFindConnections`: `TokenInv` is a ledger. The backlog holds at least one
  connection for each edge of the listening socket, in the ready list or in the
  batch, for the token being sent, and for each token in a socketpair; a child has
  at least as many tokens as it has events for them.
* `TurnsBalanced`: `Balanced` compares children that may be anywhere in the round.
  `TurnInv` orders them as the round robin will reach them: of two, the one that is
  reached sooner has had as many turns, or one fewer. The remainder that wraps the index
  (281) is a lemma.

`ThreadPoolProofs`
* The invariant is `TypeOK`, `MutexInv` (who is inside `jobs_mtx`),
  `ListInv` (whoever is about to unlink a job holds the head of the list; main's
  next job is new), `WalkInv` (nodes before the walk are marked and those behind
  it are not; only marked workers leave) and the properties themselves.
* `TypeCorrect`, `JobsRunOnce`, `JobsNotLost`, `WalkMarksLive`.
* `ShutdownWakesAll`: a worker that has found its flag clear holds the mutex from there until it
  sleeps, so the shutdown, which takes the mutex after it has set the flags, broadcasts after that; any
  test made later finds the flag set. `WalkInv` says that behind the walk every flag is, unless it was cut short.
* `SignalsSuffice`: `WakeInv` counts. While anybody sleeps and no flag is set there are
  at most as many jobs as workers awake to take one, and a worker between its
  test and its sleep found the list empty and keeps it so by the mutex.
* `PoolImplementsStack`: initial states map to initial states; adding, unlinking,
  finishing a job and clearing the list map to `Submit`, `Start`, `Finish` and
  `Close`; every other step stutters.

`SharedCounterProofs`
* `OwnerAlone`: a thread is said to hold a lock until *memory* has its release
  (`Holder`), which is after its store buffer has drained; at most one thread does, and
  the lock's word is 1 as long as one does (`LockInv`). `Flow` and `Buffered` bound what
  is in a buffer: the sums of one critical section, and the release behind them.
* `CounterRefined`: `CountInv` says that the last sum on its way to memory, or memory if
  there is none, is the number of increments made. The map of the refinement reads it.
* `PrintedRight`: the exact values follow from `CountInv`, the upper bound of the demo from
  `BoundInv` (no value exceeds the sums stored), its lower bound of 2 from `PlainInv`:
  what the first round of a thread stores is 1 at least, what a second one stores is 2 at least,
  and the last store to arrive is not a first one.
* `TypeCorrect`: the bounds of the counters follow from the above.

`MemoryPoolProofs`
* `SpaceApart`: a block has given out what lies below its `last` (`BlockInv`, `PieceInv`), and
  `Align` goes up by less than the alignment; what is taken next is above both. An aligned `end`
  cannot be passed by rounding up what lies before it (`AlignBelow`), which is where that hypothesis is needed.
* `ChunksOwned`: inductive together with the types.
* `ListBounded` has two parts. `GrowsWhenFull` is about every step and any number of chunks: the list
  gets a node only when each node the search looks at holds a chunk. From it follows the bound: while
  there were never more chunks than the search looks at, a list that grows has as many nodes as there are
  chunks. With more chunks, free nodes may lie where the search does not look, and the list has no bound.
* `SkippedWhenWorn`: `SkipInv` adds that `failed` does not rise from one block to the next, from `current` on, so that
  the blocks that are worn at a time are the first ones.
* `TypeCorrect`: `current` stays within the blocks, whichever calls follow each other.

`CgiConnProofs`
* `RequestFound`: `InOrder` says that what was received, what waits in the socket and what the client has yet to
  send make up, in this order, a beginning of the stream, so nothing of the connection before is left
  in the slot; `Undecided` says that what was received has no line yet.
* `OnlyLinelessDropped`, `NothingSleptOn`, `TypeCorrect`: in the same invariant; a buffer that is full without a
  line, and the end of the stream, are the only other ways out.

`LockFreeQueueProofs` (lemmas) and `QueueTestProofs` (theorems)
* `AccessesAreLive`, `ChainHolds`: the live nodes are those of the chain, those a pusher has made and the one
  the popper has taken off, and no node is two of these (`NodesInv`); the chain passes through no node twice and
  ends in NULL (`ChainInv`). What a thread has read stays true, since nobody but the pusher moves
  `_tail` and nobody but the popper moves `_head` (`PusherInv`, `PopperInv`): that is where one of each
  is needed. Nothing is assumed of the addresses `new` returns, so that reuse (ABA) is covered.
* `EmptyAfterTests`: `CountInv` relates the length of the chain to both counts and to what the threads are about to
  count; `ListInv` does so for the list. `WholeInv` puts them together: while one of the two is tested, the other
  stands where a round begins or is empty.
* `QueueIsFifo`: the compare-and-swap that links a node maps to `Push`, the one that moves
  `_head` to `Pop`, the test that finds NULL to `Empty`, and every other step, those of the list included,
  to a stutter. `LockedListIsFifo` is for any number of threads. Its invariant says that whoever is inside a call
  owns the mutex, so that what it has read of the list is still the list and a list it has found not empty
  still is; then `PushBack` maps to `Push`, `Front` to `Pop`, finding it empty to `Empty`, the rest to a stutter.

### Only model-checked

Liveness: `ParentTerminates`, `OldestIsAccepted`, `ShutdownEnds`, `JobsGetRun`, `RoundsEnd`, `TestsEnd`,
`TestClientEnds`. Each depends on fairness, and ENABLED is beyond these provers. The properties that the code violates (`NothingStranded`, `WalksLiveNodes`, `SpaceIsReturned`,
`StaysInBlock`, and `ParentTerminates` with CGI programs) have counterexamples instead of proofs.

## Plan

1. *Done:* `ProcessPool`, `ThreadPool`, `JobStack`, `LockFreeQueue`, `FifoQueue`, their
   runs and the proofs of the two pools.
2. *Done:* `MemoryPool`, `SharedCounter` and `AtomicCounter`, `CgiConn`,
   `LockedList` and its composition with the lock-free queue.
3. *Done:* every invariant and refinement of the runs as a theorem.
4. Next: safety facts on which the liveness arguments rest, stated for any instance (a step that is not
   a stutter brings a measure down), and which parts of `LockFreeQueue` hold with several poppers and one pusher.

## Not modelled

* `Queue::push` and `Queue::pop` (63-91 of `03无锁队列.cpp`) and their threads (203-239):
  main starts none of them.
* Argument parsing, `bind`, `listen` and `connect`, timing, printing: input and output
  without a state of their own.
* Failures of `pthread_create` in `04锁与无锁`: `pthread_join` of a thread that was never
  created is undefined, and main does nothing about it.
* The end of file that children would see on their socketpairs if the parent crashed (386
  of the process pool): siblings and CGI programs inherit the other ends, and which of
  them hold one would have to be tracked per descriptor.
* What a signal does to a CGI process between `fork` and `execl`, and whatever the kernel does
  beyond what the code observes.
* The compiled programs beside the sources.
