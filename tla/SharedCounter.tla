--------------------------- MODULE SharedCounter ---------------------------
(* The counters of src/04: threads that increment one int under a mutex, a  *)
(* pthread spinlock, a spinlock made of an atomic_flag, or by "lock; xaddl" *)
(* (02锁性能与内存模型.cpp, "bench"), and one int by xaddl beside one int   *)
(* without any protection (01原子操作.c, "demo").                           *)
(*                                                                          *)
(* The inline assembly fixes the machine: x86, which is total store order.  *)
(* A store waits in the buffer of its thread until the machine writes it; a *)
(* load sees the thread's own buffer first; a locked instruction runs on    *)
(* memory, once the buffer is empty.                                        *)
EXTENDS Naturals, Sequences, FiniteSets, FiniteSetsExt

CONSTANTS Threads,  \* the MAX_THREAD_NUM (THREAD_NUMBER) threads of a test
          Loops,    \* FOR_LOOP_COUNT
          Adds      \* FOR_ADD_COUNT

\* The products fit an int (INT_MAX), so that no addition of the programs overflows.
ASSUME CountsAssumption ==
    /\ Loops \in Nat \ {0} /\ Adds \in Nat \ {0}
    /\ IsFiniteSet(Threads) /\ Threads # {}
    /\ Cardinality(Threads) * Loops * Adds <= 2147483647

VARIABLES tests,    \* the tests main has still to finish; the first one runs
          mem,      \* counter (s_i), plain (s_j) and word, the lock: 1 when held
          buffer,   \* buffer[t]: stores of t that are not in memory yet
          pc,       \* pc[t]: the next step of thread t
          reg,      \* reg[t]: the value t has loaded for its increment
          done,     \* done[t]: increments t has made, over both loops
          printed   \* what main has printed, one record per test

threadVars == <<pc, reg, done>>
vars == <<tests, mem, buffer, threadVars, printed>>

Locked == {"mutex", "spin", "flag"}
Test == Head(tests)

\* At fault: i <= FOR_LOOP_COUNT in the test of the loop.
TotalOneMore == Loops * Adds + 1

\* Both loops together: FOR_LOOP_COUNT rounds of FOR_ADD_COUNT increments,
\* THREAD_INCR_COUNT of them in the demo.
Total == Loops * Adds

NoMemory == [counter |-> 0, plain |-> 0, word |-> 0]

Each(x) == [t \in Threads |-> x]

Init == /\ tests \in {<<"mutex", "atomic", "spin", "flag">>, <<"demo">>}
        /\ mem = NoMemory
        /\ buffer = Each(<<>>)
        /\ pc = Each("head") /\ reg = Each(0) /\ done = Each(0)
        /\ printed = <<>>

-----------------------------------------------------------------------------
(* The machine *)

Store(t, loc, v) == buffer' = [buffer EXCEPT ![t] = Append(@, [loc |-> loc, val |-> v])]

\* What a load of t sees: its own last store to loc, or memory.
Load(t, loc) ==
    LET own == {n \in DOMAIN buffer[t] : buffer[t][n].loc = loc}
    IN  IF own = {} THEN mem[loc] ELSE buffer[t][Max(own)].val

\* The machine writes the oldest store of t to memory.
Drain(t) ==
    /\ tests # <<>> /\ buffer[t] # <<>>
    /\ mem' = [mem EXCEPT ![Head(buffer[t]).loc] = Head(buffer[t]).val]
    /\ buffer' = [buffer EXCEPT ![t] = Tail(@)]
    /\ UNCHANGED <<tests, threadVars, printed>>

-----------------------------------------------------------------------------
(* The steps of a thread *)

At(t, l) == tests # <<>> /\ pc[t] = l
GoTo(t, l) == pc' = [pc EXCEPT ![t] = l]

\* for(...): another round, or the thread returns; by the time it has left,
\* the kernel has drained its buffer.
LoopHead(t) ==
    /\ At(t, "head")
    /\ \/ /\ done[t] < Total
          /\ GoTo(t, IF Test \in Locked THEN "lock" ELSE "xadd")
       \/ /\ done[t] >= Total /\ buffer[t] = <<>>
          /\ GoTo(t, "out")
    /\ UNCHANGED <<tests, mem, buffer, reg, done, printed>>

\* At fault: lock() is a test and then a set, and the test was an old one.
LockUntested(t) ==
    /\ At(t, "lock")
    /\ buffer[t] = <<>>
    /\ mem' = [mem EXCEPT !.word = 1]
    /\ GoTo(t, "load")
    /\ UNCHANGED <<tests, buffer, reg, done, printed>>

\* A successful lock(): all three take the word by a locked instruction. A
\* failed one changes nothing, the thread spins or sleeps.
Lock(t) ==
    /\ At(t, "lock")
    /\ buffer[t] = <<>> /\ mem.word = 0
    /\ mem' = [mem EXCEPT !.word = 1]
    /\ GoTo(t, "load")
    /\ UNCHANGED <<tests, buffer, reg, done, printed>>

\* counter++ in do_for_add and *value += add in add(): a load ...
LoadForAdd(t) ==
    /\ At(t, "load")
    /\ reg' = [reg EXCEPT ![t] = Load(t, IF Test = "demo" THEN "plain" ELSE "counter")]
    /\ GoTo(t, "store")
    /\ UNCHANGED <<tests, mem, buffer, done, printed>>

\* ... and a store, which ends the round of the demo, and the critical section
\* when it was the last of FOR_ADD_COUNT.
StoreSum(t) ==
    /\ At(t, "store")
    /\ Store(t, IF Test = "demo" THEN "plain" ELSE "counter", reg[t] + 1)
    /\ IF Test = "demo"
       THEN GoTo(t, "head") /\ UNCHANGED done
       ELSE /\ done' = [done EXCEPT ![t] = @ + 1]
            /\ GoTo(t, IF (done[t] + 1) % Adds = 0 THEN "unlock" ELSE "load")
    /\ UNCHANGED <<tests, mem, reg, printed>>

\* At fault: memory_order_relaxed on a machine that lets the release overtake.
UnlockOvertakes(t) ==
    /\ At(t, "unlock")
    /\ mem' = [mem EXCEPT !.word = 0] /\ UNCHANGED buffer
    /\ GoTo(t, "head")
    /\ UNCHANGED <<tests, reg, done, printed>>

\* At fault: a path leaves the critical section without unlock().
UnlockForgotten(t) ==
    /\ At(t, "unlock")
    /\ GoTo(t, "head")
    /\ UNCHANGED <<tests, mem, buffer, reg, done, printed>>

\* unlock(): the mutex releases by a locked instruction, the two spinlocks by
\* an ordinary store, which queues behind the stores of the critical section.
Unlock(t) ==
    /\ At(t, "unlock")
    /\ IF Test = "mutex"
       THEN buffer[t] = <<>> /\ mem' = [mem EXCEPT !.word = 0] /\ UNCHANGED buffer
       ELSE Store(t, "word", 0) /\ UNCHANGED mem
    /\ GoTo(t, "head")
    /\ UNCHANGED <<tests, reg, done, printed>>

\* At fault: xaddl without the lock prefix, its store waits in the buffer.
AtomicAddUnlocked(t) ==
    /\ At(t, "xadd")
    /\ buffer[t] = <<>>
    /\ Store(t, "counter", Load(t, "counter") + 1)
    /\ done' = [done EXCEPT ![t] = @ + 1]
    /\ GoTo(t, IF Test = "demo" THEN "load" ELSE "head")
    /\ UNCHANGED <<tests, mem, reg, printed>>

\* atomic_add: "lock; xaddl"; the demo goes on with the unprotected s_j.
AtomicAdd(t) ==
    /\ At(t, "xadd")
    /\ buffer[t] = <<>>
    /\ mem' = [mem EXCEPT !.counter = @ + 1]
    /\ done' = [done EXCEPT ![t] = @ + 1]
    /\ GoTo(t, IF Test = "demo" THEN "load" ELSE "head")
    /\ UNCHANGED <<tests, buffer, reg, printed>>

-----------------------------------------------------------------------------
(* main *)

\* At fault: the loop of pthread_join ends after one thread.
JoinedOne == tests # <<>> /\ \E t \in Threads : pc[t] = "out"

Joined == tests # <<>> /\ \A t \in Threads : pc[t] = "out"

\* main has joined the threads of a test: it prints, clears counter and
\* launches the threads of the next one.
JoinAndPrint ==
    /\ Joined
    /\ printed' = Append(printed, [counter |-> mem.counter, plain |-> mem.plain])
    /\ tests' = Tail(tests)
    /\ mem' = [mem EXCEPT !.counter = 0]
    /\ pc' = Each("head") /\ reg' = Each(0) /\ done' = Each(0)
    /\ UNCHANGED buffer

Step(t) == LoopHead(t) \/ Lock(t) \/ LoadForAdd(t) \/ StoreSum(t) \/ Unlock(t) \/ AtomicAdd(t)

Next == JoinAndPrint \/ \E t \in Threads : Step(t) \/ Drain(t)

\* The scheduler runs every runnable thread and the machine drains buffers; a
\* lock need not be fair, since its rivals run out of rounds.
Fairness == /\ \A t \in Threads : WF_vars(Step(t)) /\ WF_vars(Drain(t))
            /\ WF_vars(JoinAndPrint)

Spec == Init /\ [][Next]_vars /\ Fairness

-----------------------------------------------------------------------------
(* Properties *)

InSection(t) == tests # <<>> /\ Test \in Locked /\ pc[t] \in {"load", "store", "unlock"}

Locations == DOMAIN NoMemory
Expected == Cardinality(Threads) * Total

\* Types; the lock is one bit, and the machine never buffers more than the
\* stores of one critical section and its release.
TypeOK ==
    /\ Len(tests) <= 4
    /\ \A l \in Locations : mem[l] \in 0..Expected
    /\ mem.word \in {0, 1}
    /\ \A t \in Threads :
        /\ Len(buffer[t]) <= Adds + 1
        /\ \A n \in DOMAIN buffer[t] :
              buffer[t][n].loc \in Locations /\ buffer[t][n].val \in 0..Expected
        /\ pc[t] \in {"head", "lock", "load", "store", "unlock", "xadd", "out"}
        /\ reg[t] \in 0..Expected /\ done[t] \in 0..Total

\* The owner of a lock is alone, also while the release of the last owner is
\* still in a buffer: no other thread is in do_for_add, and none has an increment
\* that memory does not hold yet.
OwnerIsAlone ==
    \A t, u \in Threads : InSection(t) /\ u # t =>
        /\ ~InSection(u)
        /\ \A n \in DOMAIN buffer[u] : buffer[u][n].loc # "counter"

\* What main prints. Each increment of each thread is counted once, under every
\* lock and by the locked instruction: "atomic s_i actual" is what is expected.
\* Without protection increments are lost, but not all: once the threads do two
\* rounds or more, s_j lies between 2 and what is expected.
PrintsRight ==
    \A n \in DOMAIN printed :
        /\ printed[n].counter = Expected
        /\ Len(printed) = 1 /\ tests = <<>> /\ Total > 1 => printed[n].plain \in 2..Expected

\* The counter as the program means it: the store that was made last, whether
\* or not memory holds it yet.
Owners == {t \in Threads : \E n \in DOMAIN buffer[t] : buffer[t][n].loc = "counter"}
Counted == IF Owners = {} THEN mem.counter ELSE Load(CHOOSE t \in Owners : TRUE, "counter")

Abstract == INSTANCE AtomicCounter WITH
    tests <- Len(tests),
    value <- Counted,
    left <- [t \in Threads |-> Total - done[t]]

\* The lock tests and the atomic one behave as one atomic counter.
ImplementsCounter == Abstract!Spec

\* Every test ends: no thread waits for a lock, or spins, for ever.
TestsEnd == <>(tests = <<>>)
=============================================================================
