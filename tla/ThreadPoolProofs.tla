--------------------------- MODULE ThreadPoolProofs ---------------------------
(***************************************************************************)
(* Proofs about ThreadPool, for any number of workers and jobs.            *)
(***************************************************************************)
EXTENDS ThreadPool, SequenceTheorems, FiniteSetTheorems, TLAPS

(***************************************************************************)
(* The inductive invariant.  MutexInv says who is inside jobs_mtx; ListInv *)
(* that whoever is about to unlink a job has the head of the list in its   *)
(* hands, and that main's next job is new; WalkInv how far the unlocked    *)
(* walk of threadPoolShutdown has come and who may leave because of it.    *)
(***************************************************************************)
Inside(w) == pc[w] \in {"test", "empty", "wait", "check", "leave", "take", "remove", "unlock"}

MutexInv ==
  /\ \A w \in Worker : Inside(w) <=> jobs_mtx = w
  /\ main \in {"add", "added", "clear", "cleared"} <=> jobs_mtx = Main

Known == Queued \cup done \cup dropped \cup Held

ListInv ==
  /\ \A w \in Worker : pc[w] = "remove" => waiting_jobs # <<>> /\ job[w] = Head(waiting_jobs)
  /\ \A w \in Worker : pc[w] = "run" => job[w] # Null
  /\ main \in {"add", "added"} => i \in Job
  /\ \A j \in Known : j < i \/ (main = "added" /\ j = i)
  /\ main = "added" => i \in Known

Walking == main \in {"mark", "next"}

WalkInv ==
  /\ workers \in 0 .. NumWorkers
  /\ main \notin {"cleared", "getchar", "exited"} =>
       \A w \in Worker : pc[w] # "unborn" <=> w <= workers
  /\ \A w \in Worker : next[w] = IF pc[w] = "unborn" THEN Null ELSE w - 1
  /\ main \in {"create", "loop", "add", "added"} => \A w \in Worker : ~terminate[w]
  /\ Walking => worker \in 1 .. workers
  /\ main = "mark" => \A w \in Worker : terminate[w] <=> worker < w /\ w <= workers
  /\ main = "next" => \A w \in Worker : terminate[w] <=> worker <= w /\ w <= workers
  /\ ~cut /\ main \in {"shutlock", "clear", "cleared", "getchar", "exited"} =>
       \A w \in Worker : pc[w] # "unborn" => terminate[w]
  /\ \A w \in Worker : pc[w] \in {"leave", "free", "gone"} => terminate[w]
  /\ \A w \in freed : pc[w] = "gone"
  /\ ~cut /\ main \in {"cleared", "getchar", "exited"} =>
       \A w \in Worker : pc[w] \notin {"wait", "sleep"}

JobsInv == RunOnce /\ NoneLost /\ ListInv
IInv    == TypeOK /\ MutexInv /\ WalkInv /\ JobsInv

LEMMA Constants == NumWorkers \in Nat \ {0} /\ NumJobs \in Nat
BY ThreadPoolAssumption

LEMMA InitInv == Init => IInv
<1> SUFFICES ASSUME Init PROVE IInv
  OBVIOUS
<1> USE Constants DEF Init
<1>1. Queued = {} /\ Held = {}
  BY EmptySeq DEF Queued, Held, Holds
<1>2. TypeOK
  <2>1. waiting_jobs \in Seq(Job)
    BY EmptySeq
  <2>2. i \in 1 .. NumJobs + 1 /\ spurious \in Nat /\ jobs_mtx \in Worker \cup {Main, Free}
    OBVIOUS
  <2>3. /\ pc \in [Worker -> {"unborn", "lock", "test", "empty", "wait", "sleep", "wake",
                             "check", "take", "remove", "unlock", "run", "leave", "free",
                             "gone"}]
        /\ job \in [Worker -> Job \cup {Null}]
        /\ next \in [Worker -> Worker \cup {Null}]
        /\ terminate \in [Worker -> BOOLEAN]
    OBVIOUS
  <2> QED
    BY <2>1, <2>2, <2>3 DEF TypeOK
<1>3. MutexInv
  BY DEF MutexInv, Inside, Worker, Main, Free
<1>4. WalkInv
  BY DEF WalkInv, Walking, Null, Worker
<1>5. RunOnce
  BY <1>1, EmptySeq DEF RunOnce, Holds
<1>6. NoneLost
  BY DEF NoneLost, Job
<1>7. ListInv
  BY <1>1 DEF ListInv, Known
<1> QED
  BY <1>2, <1>3, <1>4, <1>5, <1>6, <1>7 DEF IInv, JobsInv

-----------------------------------------------------------------------------
(***************************************************************************)
(* Sequences: what LL_ADD and LL_REMOVE do to the elements of the list.    *)
(***************************************************************************)
Elems(q)    == {q[k] : k \in 1 .. Len(q)}
Distinct(q) == \A a, b \in 1 .. Len(q) : a # b => q[a] # q[b]

LEMMA PushFront ==
  ASSUME NEW S, NEW q \in Seq(S), NEW e \in S
  PROVE  LET r == <<e>> \o q IN
           /\ r \in Seq(S)
           /\ r # <<>>
           /\ Head(r) = e
           /\ Tail(r) = q
           /\ Elems(r) = Elems(q) \cup {e}
           /\ Distinct(q) /\ e \notin Elems(q) => Distinct(r)
<1> DEFINE r == <<e>> \o q
<1>1. <<e>> \in Seq(S) /\ Len(<<e>>) = 1 /\ <<e>>[1] = e
  OBVIOUS
<1>2. /\ r \in Seq(S)
      /\ Len(r) = Len(q) + 1
      /\ Len(q) \in Nat
      /\ \A k \in 1 .. Len(r) : r[k] = IF k <= 1 THEN <<e>>[k] ELSE q[k - 1]
  BY <1>1, ConcatProperties, LenProperties
<1>3. r[1] = e /\ \A k \in 1 .. Len(q) : r[k + 1] = q[k]
  BY <1>1, <1>2
<1> HIDE DEF r
<1>4. r # <<>> /\ Head(r) = e
  BY <1>2, <1>3, EmptySeq
<1>5. Tail(r) = q
  <2>1. /\ Tail(r) \in Seq(S)
        /\ Len(Tail(r)) = Len(q)
        /\ \A k \in 1 .. Len(q) : Tail(r)[k] = q[k]
    BY <1>2, <1>3, <1>4, HeadTailProperties
  <2> QED
    BY <2>1, SeqEqual
<1>6. Elems(r) = Elems(q) \cup {e}
  <2>1. Elems(r) \subseteq Elems(q) \cup {e}
    <3> SUFFICES ASSUME NEW k \in 1 .. Len(r) PROVE r[k] \in Elems(q) \cup {e}
      BY DEF Elems
    <3>1. k = 1 \/ (k - 1 \in 1 .. Len(q) /\ r[k] = q[k - 1])
      BY <1>2, <1>3
    <3> QED
      BY <1>3, <3>1 DEF Elems
  <2>2. e \in Elems(r)
    BY <1>2, <1>3 DEF Elems
  <2>3. Elems(q) \subseteq Elems(r)
    <3> SUFFICES ASSUME NEW k \in 1 .. Len(q) PROVE q[k] \in Elems(r)
      BY DEF Elems
    <3>1. k + 1 \in 1 .. Len(r)
      BY <1>2
    <3> QED
      BY <1>3, <3>1 DEF Elems
  <2> QED
    BY <2>1, <2>2, <2>3
<1>7. Distinct(q) /\ e \notin Elems(q) => Distinct(r)
  <2> SUFFICES ASSUME Distinct(q), e \notin Elems(q),
                      NEW a \in 1 .. Len(r), NEW b \in 1 .. Len(r), a < b
               PROVE  r[a] # r[b]
    BY <1>2 DEF Distinct
  <2>1. b - 1 \in 1 .. Len(q) /\ r[b] = q[b - 1]
    BY <1>2, <1>3
  <2>2. CASE a = 1
    BY <1>3, <2>1, <2>2 DEF Elems
  <2>3. CASE a # 1
    <3>1. a - 1 \in 1 .. Len(q) /\ r[a] = q[a - 1] /\ a - 1 # b - 1
      BY <1>2, <1>3, <2>3
    <3> QED
      BY <2>1, <3>1 DEF Distinct
  <2> QED
    BY <2>2, <2>3
<1> QED
  BY <1>2, <1>4, <1>5, <1>6, <1>7 DEF r

LEMMA PopFront ==
  ASSUME NEW S, NEW q \in Seq(S), q # <<>>, Distinct(q)
  PROVE  /\ Head(q) \in S
         /\ Tail(q) \in Seq(S)
         /\ Head(q) \in Elems(q)
         /\ Elems(Tail(q)) = Elems(q) \ {Head(q)}
         /\ Distinct(Tail(q))
<1>1. /\ Head(q) \in S
      /\ Tail(q) \in Seq(S)
      /\ Len(q) \in Nat \ {0}
      /\ Len(Tail(q)) = Len(q) - 1
      /\ \A k \in 1 .. Len(Tail(q)) : Tail(q)[k] = q[k + 1]
  BY HeadTailProperties, EmptySeq
<1>2. Head(q) = q[1]
  BY <1>1
<1>3. \A k \in 1 .. Len(Tail(q)) : k + 1 \in 1 .. Len(q) /\ k + 1 # 1
  BY <1>1
<1>4. \A k \in 1 .. Len(q) : k # 1 => k - 1 \in 1 .. Len(Tail(q)) /\ q[k] = Tail(q)[k - 1]
  BY <1>1
<1>5. 1 \in 1 .. Len(q)
  BY <1>1
<1>6. Elems(Tail(q)) \subseteq Elems(q) \ {Head(q)}
  BY <1>1, <1>2, <1>3, <1>5 DEF Elems, Distinct
<1>7. Elems(q) \ {Head(q)} \subseteq Elems(Tail(q))
  BY <1>2, <1>4 DEF Elems
<1>8. Distinct(Tail(q))
  BY <1>1, <1>3 DEF Distinct
<1>9. Head(q) \in Elems(q)
  BY <1>2, <1>5 DEF Elems
<1> QED
  BY <1>1, <1>6, <1>7, <1>8, <1>9

-----------------------------------------------------------------------------
(***************************************************************************)
(* Types.                                                                  *)
(***************************************************************************)
LEMMA TypeStep == IInv /\ [Next]_vars => TypeOK'
<1> SUFFICES ASSUME IInv, [Next]_vars
             PROVE  TypeOK'
  OBVIOUS
<1>t. TypeOK
  BY DEF IInv
<1> USE Constants, <1>t DEF TypeOK
<1>1. CASE CreateWorker
  <2>1. workers + 1 \in Worker
    BY <1>1 DEF CreateWorker, Worker, Null
  <2> QED
    BY <1>1, <2>1 DEF CreateWorker, poolVars, history
<1>2. CASE CreateFails
  BY <1>2 DEF CreateFails, poolVars, threadVars, nodeVars, mainVars, history
<1>3. CASE QueueLock
  BY <1>3 DEF QueueLock, poolVars, threadVars, nodeVars, mainVars, history
<1>4. CASE SkipJob
  <2>1. i \in Job /\ i + 1 \in 1 .. NumJobs + 1
    BY <1>4 DEF SkipJob, Job
  <2> QED
    BY <1>4, <2>1 DEF SkipJob, poolVars, threadVars, nodeVars
<1>5. CASE QueueAdd
  <2>1. i \in Job
    BY <1>5 DEF QueueAdd, LL_ADD, Signal, SignalOne, IInv, JobsInv, ListInv
  <2>2. waiting_jobs' \in Seq(Job)
    BY <1>5, <2>1, PushFront DEF QueueAdd, LL_ADD, Signal, SignalOne
  <2>3. pc' \in [Worker -> {"unborn", "lock", "test", "empty", "wait", "sleep", "wake", "check",
                           "take", "remove", "unlock", "run", "leave", "free", "gone"}]
    BY <1>5 DEF QueueAdd, LL_ADD, Signal, SignalOne, Sleepers
  <2> QED
    BY <1>5, <2>2, <2>3 DEF QueueAdd, LL_ADD, Signal, SignalOne, nodeVars, history
<1>6. CASE QueueUnlock
  <2>1. i + 1 \in 1 .. NumJobs + 1
    BY <1>6 DEF QueueUnlock, IInv, JobsInv, ListInv, Job
  <2> QED
    BY <1>6, <2>1 DEF QueueUnlock, threadVars, nodeVars, history
<1>7. CASE BeginShutdown
  BY <1>7 DEF BeginShutdown, poolVars, threadVars, nodeVars, mainVars, history
<1>8. CASE Mark
  BY <1>8 DEF Mark, poolVars, threadVars, nodeVars, mainVars, history
<1>9. CASE NextWorker
  <2>1. worker \in Worker
    BY <1>9 DEF NextWorker, IInv, WalkInv, Walking, Worker
  <2> QED
    BY <1>9, <2>1 DEF NextWorker, poolVars, threadVars, nodeVars, history
<1>26. CASE StrayNext
  <2>1. worker \in Worker
    BY <1>26 DEF StrayNext, IInv, WalkInv, Walking, Worker
  <2> QED
    BY <1>26, <2>1 DEF StrayNext, poolVars, threadVars, nodeVars, history
<1>10. CASE ShutdownLock
  BY <1>10 DEF ShutdownLock, poolVars, threadVars, nodeVars, mainVars, history
<1>11. CASE ShutdownClear
  <2>1. Queued \subseteq Job
    BY ElementOfSeq DEF Queued
  <2>2. waiting_jobs' \in Seq(Job)
    BY <1>11, EmptySeq DEF ShutdownClear, Broadcast
  <2> QED
    BY <1>11, <2>1, <2>2 DEF ShutdownClear, Broadcast, Null
<1>12. CASE ShutdownUnlock
  BY <1>12 DEF ShutdownUnlock, poolVars, threadVars, nodeVars, mainVars, history
<1>13. CASE Return
  BY <1>13 DEF Return, poolVars, threadVars, nodeVars, mainVars, history
<1>14. ASSUME NEW w \in Worker, Lock(w)
      PROVE  TypeOK'
  BY <1>14 DEF Lock, Moves, poolVars, threadVars, nodeVars, mainVars, history
<1>15. ASSUME NEW w \in Worker, Test(w)
      PROVE  TypeOK'
  BY <1>15 DEF Test, Moves, poolVars, threadVars, nodeVars, mainVars, history
<1>16. ASSUME NEW w \in Worker, Quit(w)
      PROVE  TypeOK'
  BY <1>16 DEF Quit, Moves, poolVars, threadVars, nodeVars, mainVars, history
<1>27. ASSUME NEW w \in Worker, StayOn(w)
      PROVE  TypeOK'
  BY <1>27 DEF StayOn, Moves, poolVars, threadVars, nodeVars, mainVars, history
<1>28. ASSUME NEW w \in Worker, GoOn(w)
      PROVE  TypeOK'
  BY <1>28 DEF GoOn, Moves, poolVars, threadVars, nodeVars, mainVars, history
<1>29. ASSUME NEW w \in Worker, UnlockAndLeave(w)
      PROVE  TypeOK'
  BY <1>29 DEF UnlockAndLeave, Moves, poolVars, threadVars, nodeVars, mainVars, history
<1>17. ASSUME NEW w \in Worker, Wait(w)
      PROVE  TypeOK'
  BY <1>17 DEF Wait, Moves, poolVars, threadVars, nodeVars, mainVars, history
<1>18. ASSUME NEW w \in Worker, Leave(w)
      PROVE  TypeOK'
  BY <1>18 DEF Leave, Moves, poolVars, threadVars, nodeVars, mainVars, history
<1>19. ASSUME NEW w \in Worker, Take(w)
      PROVE  TypeOK'
  <2>1. waiting_jobs # <<>> => Head(waiting_jobs) \in Job
    BY HeadTailProperties
  <2> QED
    BY <1>19, <2>1 DEF Take, Moves, poolVars, nodeVars, mainVars, history
<1>20. ASSUME NEW w \in Worker, Remove(w)
      PROVE  TypeOK'
  <2>1. waiting_jobs # <<>>
    BY <1>20 DEF Remove, Moves, IInv, JobsInv, ListInv
  <2>2. Tail(waiting_jobs) \in Seq(Job)
    BY <2>1, HeadTailProperties
  <2> QED
    BY <1>20, <2>2 DEF Remove, Moves, nodeVars, mainVars, history
<1>21. ASSUME NEW w \in Worker, Unlock(w)
      PROVE  TypeOK'
  BY <1>21 DEF Unlock, Moves, poolVars, threadVars, nodeVars, mainVars, history
<1>22. ASSUME NEW w \in Worker, Run(w)
      PROVE  TypeOK'
  <2>1. job[w] \in Job
    BY <1>22 DEF Run, Moves, IInv, JobsInv, ListInv
  <2> QED
    BY <1>22, <2>1 DEF Run, Moves, poolVars, nodeVars, mainVars
<1>23. ASSUME NEW w \in Worker, FreeWorker(w)
      PROVE  TypeOK'
  BY <1>23 DEF FreeWorker, Moves, poolVars, threadVars, nodeVars, mainVars, history
<1>24. ASSUME NEW w \in Worker, WakeSpuriously(w)
      PROVE  TypeOK'
  BY <1>24 DEF WakeSpuriously, Moves, poolVars, threadVars, nodeVars, mainVars, history
<1>25. CASE UNCHANGED vars
  BY <1>25 DEF vars, poolVars, threadVars, nodeVars, mainVars, history
<1> QED
  BY <1>1, <1>2, <1>3, <1>4, <1>5, <1>6, <1>7, <1>8, <1>9, <1>10, <1>11, <1>12,
     <1>13, <1>14, <1>15, <1>16, <1>17, <1>18, <1>19, <1>20, <1>21, <1>22, <1>23,
     <1>24, <1>25, <1>26, <1>27, <1>28, <1>29
  DEF Next, MainStep, CallerStep, WorkerStep

-----------------------------------------------------------------------------
(***************************************************************************)
(* Mutual exclusion.                                                       *)
(***************************************************************************)
LEMMA MutexStep == IInv /\ [Next]_vars => MutexInv'
<1> SUFFICES ASSUME IInv, [Next]_vars
             PROVE  MutexInv'
  OBVIOUS
<1>t. /\ MutexInv
      /\ pc \in [Worker -> {"unborn", "lock", "test", "empty", "wait", "sleep", "wake", "check",
                            "take", "remove", "unlock", "run", "leave", "free", "gone"}]
      /\ Main \notin Worker /\ Free \notin Worker /\ Main # Free
  BY DEF IInv, TypeOK, Main, Free, Worker
<1>c. main = "create" /\ workers < NumWorkers => workers + 1 \in Worker /\ pc[workers + 1] = "unborn"
  BY Constants DEF IInv, WalkInv, Worker
<1> USE <1>t DEF MutexInv, Inside
<1>1. CASE CreateWorker
  BY <1>1, <1>c DEF CreateWorker, poolVars
<1>2. CASE CreateFails
  BY <1>2 DEF CreateFails, poolVars, threadVars, nodeVars, mainVars, history
<1>3. CASE QueueLock
  BY <1>3 DEF QueueLock, poolVars, threadVars, nodeVars, mainVars, history
<1>4. CASE SkipJob
  BY <1>4 DEF SkipJob, poolVars, threadVars, nodeVars, mainVars, history
<1>5. CASE QueueAdd
  BY <1>5 DEF QueueAdd, LL_ADD, Signal, SignalOne, Sleepers
<1>6. CASE QueueUnlock
  BY <1>6 DEF QueueUnlock, poolVars, threadVars, nodeVars, mainVars, history
<1>7. CASE BeginShutdown
  BY <1>7 DEF BeginShutdown, poolVars, threadVars, nodeVars, mainVars, history
<1>8. CASE Mark
  BY <1>8 DEF Mark, poolVars, threadVars, nodeVars, mainVars, history
<1>9. CASE NextWorker
  BY <1>9 DEF NextWorker, poolVars, threadVars, nodeVars, mainVars, history
<1>26. CASE StrayNext
  BY <1>26 DEF StrayNext, poolVars, threadVars, nodeVars, mainVars, history
<1>10. CASE ShutdownLock
  BY <1>10 DEF ShutdownLock, poolVars, threadVars, nodeVars, mainVars, history
<1>11. CASE ShutdownClear
  BY <1>11 DEF ShutdownClear, Broadcast, poolVars, threadVars, nodeVars, mainVars, history
<1>12. CASE ShutdownUnlock
  BY <1>12 DEF ShutdownUnlock, poolVars, threadVars, nodeVars, mainVars, history
<1>13. CASE Return
  BY <1>13 DEF Return, poolVars, threadVars, nodeVars, mainVars, history
<1>14. ASSUME NEW w \in Worker, Lock(w)
      PROVE  MutexInv'
  BY <1>14 DEF Lock, Moves, poolVars, threadVars, nodeVars, mainVars, history
<1>15. ASSUME NEW w \in Worker, Test(w)
      PROVE  MutexInv'
  BY <1>15 DEF Test, Moves, poolVars, threadVars, nodeVars, mainVars, history
<1>16. ASSUME NEW w \in Worker, Quit(w)
      PROVE  MutexInv'
  BY <1>16 DEF Quit, Moves, poolVars, threadVars, nodeVars, mainVars, history
<1>27. ASSUME NEW w \in Worker, StayOn(w)
      PROVE  MutexInv'
  BY <1>27 DEF StayOn, Moves, poolVars, threadVars, nodeVars, mainVars, history
<1>28. ASSUME NEW w \in Worker, GoOn(w)
      PROVE  MutexInv'
  BY <1>28 DEF GoOn, Moves, poolVars, threadVars, nodeVars, mainVars, history
<1>29. ASSUME NEW w \in Worker, UnlockAndLeave(w)
      PROVE  MutexInv'
  BY <1>29 DEF UnlockAndLeave, Moves, poolVars, threadVars, nodeVars, mainVars, history
<1>17. ASSUME NEW w \in Worker, Wait(w)
      PROVE  MutexInv'
  BY <1>17 DEF Wait, Moves, poolVars, threadVars, nodeVars, mainVars, history
<1>18. ASSUME NEW w \in Worker, Leave(w)
      PROVE  MutexInv'
  BY <1>18 DEF Leave, Moves, poolVars, threadVars, nodeVars, mainVars, history
<1>19. ASSUME NEW w \in Worker, Take(w)
      PROVE  MutexInv'
  BY <1>19 DEF Take, Moves, poolVars, threadVars, nodeVars, mainVars, history
<1>20. ASSUME NEW w \in Worker, Remove(w)
      PROVE  MutexInv'
  BY <1>20 DEF Remove, Moves, poolVars, threadVars, nodeVars, mainVars, history
<1>21. ASSUME NEW w \in Worker, Unlock(w)
      PROVE  MutexInv'
  BY <1>21 DEF Unlock, Moves, poolVars, threadVars, nodeVars, mainVars, history
<1>22. ASSUME NEW w \in Worker, Run(w)
      PROVE  MutexInv'
  BY <1>22 DEF Run, Moves, poolVars, threadVars, nodeVars, mainVars, history
<1>23. ASSUME NEW w \in Worker, FreeWorker(w)
      PROVE  MutexInv'
  BY <1>23 DEF FreeWorker, Moves, poolVars, threadVars, nodeVars, mainVars, history
<1>24. ASSUME NEW w \in Worker, WakeSpuriously(w)
      PROVE  MutexInv'
  BY <1>24 DEF WakeSpuriously, Moves, poolVars, threadVars, nodeVars, mainVars, history
<1>25. CASE UNCHANGED vars
  BY <1>25 DEF vars, poolVars, threadVars, nodeVars, mainVars, history
<1> QED
  BY <1>1, <1>2, <1>3, <1>4, <1>5, <1>6, <1>7, <1>8, <1>9, <1>10, <1>11, <1>12,
     <1>13, <1>14, <1>15, <1>16, <1>17, <1>18, <1>19, <1>20, <1>21, <1>22, <1>23,
     <1>24, <1>25, <1>26, <1>27, <1>28, <1>29
  DEF Next, MainStep, CallerStep, WorkerStep

-----------------------------------------------------------------------------
(***************************************************************************)
(* The walk of the shutdown.                                               *)
(***************************************************************************)
LEMMA WalkStep == IInv /\ [Next]_vars => WalkInv'
<1> SUFFICES ASSUME IInv, [Next]_vars
             PROVE  WalkInv'
  OBVIOUS
<1>t. /\ WalkInv
      /\ pc \in [Worker -> {"unborn", "lock", "test", "empty", "wait", "sleep", "wake", "check",
                            "take", "remove", "unlock", "run", "leave", "free", "gone"}]
      /\ next \in [Worker -> Worker \cup {Null}]
      /\ terminate \in [Worker -> BOOLEAN]
      /\ freed \subseteq Worker
  BY DEF IInv, TypeOK
<1>c. \A w : w \in Worker <=> w \in Nat /\ 1 <= w /\ w <= NumWorkers
  BY Constants DEF Worker
<1> USE Constants, <1>t, <1>c DEF WalkInv, Walking, Null
<1>1. CASE CreateWorker
  BY <1>1 DEF CreateWorker, poolVars, threadVars, nodeVars, mainVars, history
<1>2. CASE CreateFails
  BY <1>2 DEF CreateFails, poolVars, threadVars, nodeVars, mainVars, history
<1>3. CASE QueueLock
  BY <1>3 DEF QueueLock, poolVars, threadVars, nodeVars, mainVars, history
<1>4. CASE SkipJob
  BY <1>4 DEF SkipJob, poolVars, threadVars, nodeVars, mainVars, history
<1>5. CASE QueueAdd
  BY <1>5 DEF QueueAdd, LL_ADD, Signal, SignalOne, Sleepers, nodeVars
<1>6. CASE QueueUnlock
  BY <1>6 DEF QueueUnlock, poolVars, threadVars, nodeVars, mainVars, history
<1>7. CASE BeginShutdown
  BY <1>7 DEF BeginShutdown, poolVars, threadVars, nodeVars, mainVars, history
<1>8. CASE Mark
  BY <1>8 DEF Mark, poolVars, threadVars, nodeVars, mainVars, history
<1>9. CASE NextWorker
  BY <1>9 DEF NextWorker, poolVars, threadVars, nodeVars, mainVars, history
<1>26. CASE StrayNext
  BY <1>26 DEF StrayNext, poolVars, threadVars, nodeVars, mainVars, history
<1>10. CASE ShutdownLock
  BY <1>10 DEF ShutdownLock, poolVars, threadVars, nodeVars, mainVars, history
<1>11. CASE ShutdownClear
  <2>1. \A w \in Worker : pc[w] # "wait"
    <3>1. jobs_mtx = Main
      BY <1>11 DEF ShutdownClear, IInv, MutexInv
    <3> QED
      BY <3>1 DEF IInv, MutexInv, Inside, Main
  <2> QED
    BY <1>11, <2>1 DEF ShutdownClear, Broadcast, poolVars, threadVars, nodeVars, mainVars, history
<1>12. CASE ShutdownUnlock
  BY <1>12 DEF ShutdownUnlock, poolVars, threadVars, nodeVars, mainVars, history
<1>13. CASE Return
  BY <1>13 DEF Return, poolVars, threadVars, nodeVars, mainVars, history
<1>14. ASSUME NEW w \in Worker, Lock(w)
      PROVE  WalkInv'
  BY <1>14 DEF Lock, Moves, poolVars, threadVars, nodeVars, mainVars, history
<1>15. ASSUME NEW w \in Worker, Test(w)
      PROVE  WalkInv'
  BY <1>15 DEF Test, Moves, poolVars, threadVars, nodeVars, mainVars, history
<1>16. ASSUME NEW w \in Worker, Quit(w)
      PROVE  WalkInv'
  BY <1>16 DEF Quit, Moves, poolVars, threadVars, nodeVars, mainVars, history
<1>27. ASSUME NEW w \in Worker, StayOn(w)
      PROVE  WalkInv'
  BY <1>27 DEF StayOn, Moves, poolVars, threadVars, nodeVars, mainVars, history
<1>28. ASSUME NEW w \in Worker, GoOn(w)
      PROVE  WalkInv'
  BY <1>28 DEF GoOn, Moves, poolVars, threadVars, nodeVars, mainVars, history
<1>29. ASSUME NEW w \in Worker, UnlockAndLeave(w)
      PROVE  WalkInv'
  BY <1>29 DEF UnlockAndLeave, Moves, poolVars, threadVars, nodeVars, mainVars, history
<1>17. ASSUME NEW w \in Worker, Wait(w)
      PROVE  WalkInv'
  BY <1>17 DEF Wait, Moves, poolVars, threadVars, nodeVars, mainVars, history
<1>18. ASSUME NEW w \in Worker, Leave(w)
      PROVE  WalkInv'
  BY <1>18 DEF Leave, Moves, poolVars, threadVars, nodeVars, mainVars, history
<1>19. ASSUME NEW w \in Worker, Take(w)
      PROVE  WalkInv'
  BY <1>19 DEF Take, Moves, poolVars, threadVars, nodeVars, mainVars, history
<1>20. ASSUME NEW w \in Worker, Remove(w)
      PROVE  WalkInv'
  BY <1>20 DEF Remove, Moves, poolVars, threadVars, nodeVars, mainVars, history
<1>21. ASSUME NEW w \in Worker, Unlock(w)
      PROVE  WalkInv'
  BY <1>21 DEF Unlock, Moves, poolVars, threadVars, nodeVars, mainVars, history
<1>22. ASSUME NEW w \in Worker, Run(w)
      PROVE  WalkInv'
  BY <1>22 DEF Run, Moves, poolVars, threadVars, nodeVars, mainVars, history
<1>23. ASSUME NEW w \in Worker, FreeWorker(w)
      PROVE  WalkInv'
  BY <1>23 DEF FreeWorker, Moves, poolVars, threadVars, nodeVars, mainVars, history
<1>24. ASSUME NEW w \in Worker, WakeSpuriously(w)
      PROVE  WalkInv'
  BY <1>24 DEF WakeSpuriously, Moves, poolVars, threadVars, nodeVars, mainVars, history
<1>25. CASE UNCHANGED vars
  BY <1>25 DEF vars, poolVars, threadVars, nodeVars, mainVars, history
<1> QED
  BY <1>1, <1>2, <1>3, <1>4, <1>5, <1>6, <1>7, <1>8, <1>9, <1>10, <1>11, <1>12,
     <1>13, <1>14, <1>15, <1>16, <1>17, <1>18, <1>19, <1>20, <1>21, <1>22, <1>23,
     <1>24, <1>25, <1>26, <1>27, <1>28, <1>29
  DEF Next, MainStep, CallerStep, WorkerStep

-----------------------------------------------------------------------------
(***************************************************************************)
(* The jobs.                                                               *)
(***************************************************************************)
(* A step that leaves every job where it is.  *)
LEMMA JobsStay ==
  ASSUME JobsInv,
         waiting_jobs' = waiting_jobs, done' = done, dropped' = dropped, i' = i,
         \A w \in Worker : Holds(w)' <=> Holds(w),
         \A w \in Worker : Holds(w) => job'[w] = job[w],
         \A w \in Worker : pc'[w] = "remove" => pc[w] = "remove" /\ job'[w] = job[w],
         \A w \in Worker : pc'[w] = "run" => job'[w] # Null,
         main' \in {"add", "added"} => main' = main,
         main = "added" => main' = main
  PROVE  JobsInv' /\ Held' = Held
<1>1. Held' = Held
  BY DEF Held
<1>2. Queued' = Queued
  BY DEF Queued
<1>3. RunOnce'
  BY <1>2 DEF JobsInv, RunOnce
<1>4. NoneLost'
  BY <1>1, <1>2 DEF JobsInv, NoneLost
<1>5. ListInv'
  BY <1>1, <1>2 DEF JobsInv, ListInv, Known
<1> QED
  BY <1>1, <1>3, <1>4, <1>5 DEF JobsInv

LEMMA JobsStep == IInv /\ [Next]_vars => JobsInv'
<1> SUFFICES ASSUME IInv, [Next]_vars
             PROVE  JobsInv'
  OBVIOUS
<1>t. /\ JobsInv
      /\ pc \in [Worker -> {"unborn", "lock", "test", "empty", "wait", "sleep", "wake", "check",
                            "take", "remove", "unlock", "run", "leave", "free", "gone"}]
      /\ job \in [Worker -> Job \cup {Null}]
      /\ \A w \in Worker : pc[w] = "run" => job[w] # Null
  BY DEF IInv, TypeOK, JobsInv, ListInv
<1>q. /\ Queued = Elems(waiting_jobs) /\ Queued' = Elems(waiting_jobs')
      /\ Distinct(waiting_jobs)
      /\ RunOnce' <=>
           /\ Distinct(waiting_jobs')
           /\ Queued' \cap (done' \cup dropped') = {}
           /\ \A w \in Worker : Holds(w)' => job'[w] \notin Queued' \cup done' \cup dropped'
           /\ \A v, w \in Worker : v # w /\ Holds(v)' /\ Holds(w)' => job'[v] # job'[w]
  BY <1>t DEF Queued, Elems, Distinct, JobsInv, RunOnce
<1>n. i \in Nat /\ Job \subseteq Nat /\ waiting_jobs \in Seq(Job)
  BY Constants DEF IInv, TypeOK, Job
<1>k. Known \subseteq Nat
  <2>1. Queued \subseteq Job
    BY <1>n, ElementOfSeq DEF Queued
  <2>2. Held \subseteq Job \cup {Null}
    BY <1>t DEF Held
  <2>3. done \subseteq Job /\ dropped \subseteq Job
    BY DEF IInv, TypeOK
  <2> QED
    BY <1>n, <2>1, <2>2, <2>3 DEF Known, Null
<1>1. CASE CreateWorker
  <2>1. workers + 1 \in Worker /\ pc[workers + 1] = "unborn"
    BY <1>1, Constants DEF CreateWorker, IInv, WalkInv, Worker
  <2> QED
    BY <1>1, <1>t, <2>1, JobsStay DEF CreateWorker, poolVars, history, Holds
<1>2. CASE CreateFails
  BY <1>2, <1>t, JobsStay DEF Holds, CreateFails, poolVars, threadVars, nodeVars, mainVars, history
<1>3. CASE QueueLock
  <2>1. i \in Job /\ main = "loop"
    BY <1>3, Constants DEF QueueLock, IInv, TypeOK, Job
  <2>2. /\ Queued' = Queued /\ Held' = Held /\ UNCHANGED <<waiting_jobs, pc, job, done, dropped, i>>
        /\ main' = "add"
    BY <1>3 DEF QueueLock, Queued, Held, Holds, threadVars, history
  <2> QED
    BY <1>t, <1>q, <2>1, <2>2 DEF JobsInv, RunOnce, NoneLost, ListInv, Known, Holds
<1>4. CASE SkipJob
  <2>1. /\ main = "loop" /\ main' = main /\ i' = i + 1 /\ dropped' = dropped \cup {i}
        /\ UNCHANGED <<waiting_jobs, pc, job, done>>
    BY <1>4 DEF SkipJob, poolVars, threadVars
  <2>2. Queued' = Queued /\ Held' = Held /\ \A w \in Worker : Holds(w)' <=> Holds(w)
    BY <2>1 DEF Queued, Held, Holds
  <2>3. \A j \in Known : j < i
    BY <1>t, <2>1 DEF JobsInv, ListInv
  <2>4. i \notin Queued /\ i \notin Held
    BY <1>n, <2>3 DEF Known
  <2>5. \A w \in Worker : Holds(w) => job[w] # i
    BY <2>4 DEF Held
  <2>6. RunOnce'
    BY <1>t, <1>q, <2>1, <2>2, <2>4, <2>5 DEF JobsInv, RunOnce
  <2>7. NoneLost'
    BY <1>n, <1>t, <2>1, <2>2 DEF JobsInv, NoneLost
  <2>8. \A j \in Known' : j < i'
    <3>1. Known' = Known \cup {i} /\ Known \subseteq Nat
      BY <1>k, <2>1, <2>2 DEF Known
    <3> QED
      BY <1>n, <2>1, <2>3, <3>1
  <2>9. ListInv'
    BY <1>t, <2>1, <2>8 DEF JobsInv, ListInv
  <2> QED
    BY <2>6, <2>7, <2>9 DEF JobsInv
<1>5. CASE QueueAdd
  <2>1. /\ main = "add" /\ main' = "added" /\ i' = i /\ done' = done /\ dropped' = dropped
        /\ job' = job /\ waiting_jobs' = <<i>> \o waiting_jobs
        /\ \A w \in Worker : pc'[w] # pc[w] => pc[w] = "sleep" /\ pc'[w] = "wake"
    BY <1>5, <1>t DEF QueueAdd, LL_ADD, Signal, SignalOne, Sleepers, history
  <2>2. /\ i \in Job /\ \A j \in Known : j < i
    BY <1>t, <2>1 DEF JobsInv, ListInv
  <2>3. i \notin Queued /\ i \notin Held /\ i \notin done /\ i \notin dropped
    BY <1>n, <2>2 DEF Known
  <2>4. Queued' = Queued \cup {i} /\ Distinct(waiting_jobs')
    BY <1>n, <1>q, <2>1, <2>2, <2>3, PushFront
  <2>5. (\A w \in Worker : Holds(w)' <=> Holds(w)) /\ Held' = Held
    BY <2>1 DEF Held, Holds
  <2>6. \A w \in Worker : Holds(w) => job[w] # i
    BY <2>3 DEF Held
  <2>7. RunOnce'
    BY <1>t, <1>q, <2>1, <2>3, <2>4, <2>5, <2>6 DEF JobsInv, RunOnce
  <2>8. NoneLost'
    BY <1>t, <2>1, <2>4, <2>5 DEF JobsInv, NoneLost
  <2>9. \A w \in Worker : pc[w] # "remove"
    BY <2>1 DEF IInv, MutexInv, Inside, Main, Worker
  <2>10. ListInv'
    <3>1. Known' = Known \cup {i}
      BY <2>1, <2>4, <2>5 DEF Known
    <3> QED
      BY <1>t, <2>1, <2>2, <2>4, <2>9, <3>1 DEF JobsInv, ListInv
  <2> QED
    BY <2>7, <2>8, <2>10 DEF JobsInv
<1>6. CASE QueueUnlock
  <2>1. /\ main = "added" /\ main' = "loop" /\ i' = i + 1
        /\ UNCHANGED <<waiting_jobs, pc, job, done, dropped>>
    BY <1>6 DEF QueueUnlock, threadVars, history
  <2>2. Queued' = Queued /\ Held' = Held /\ \A w \in Worker : Holds(w)' <=> Holds(w)
    BY <2>1 DEF Queued, Held, Holds
  <2>3. RunOnce'
    BY <1>t, <1>q, <2>1, <2>2 DEF JobsInv, RunOnce
  <2>4. i \in Known /\ \A j \in Known : j < i \/ j = i
    BY <1>t, <2>1 DEF JobsInv, ListInv
  <2>5. NoneLost'
    BY <1>n, <1>t, <2>1, <2>2, <2>4 DEF JobsInv, NoneLost, Known
  <2>6. Known' = Known /\ \A j \in Known : j < i'
    <3>1. Known' = Known /\ Known \subseteq Nat
      BY <1>k, <2>1, <2>2 DEF Known
    <3> QED
      BY <1>n, <2>1, <2>4, <3>1
  <2>7. ListInv'
    BY <1>t, <2>1, <2>6 DEF JobsInv, ListInv
  <2> QED
    BY <2>3, <2>5, <2>7 DEF JobsInv
<1>7. CASE BeginShutdown
  BY <1>7, <1>t, JobsStay DEF Holds, BeginShutdown, poolVars, threadVars, nodeVars, mainVars, history
<1>8. CASE Mark
  BY <1>8, <1>t, JobsStay DEF Holds, Mark, poolVars, threadVars, nodeVars, mainVars, history
<1>9. CASE NextWorker
  BY <1>9, <1>t, JobsStay DEF Holds, NextWorker, poolVars, threadVars, nodeVars, mainVars, history
<1>26. CASE StrayNext
  BY <1>26, <1>t, JobsStay DEF Holds, StrayNext, poolVars, threadVars, nodeVars, mainVars, history
<1>10. CASE ShutdownLock
  BY <1>10, <1>t, JobsStay DEF Holds, ShutdownLock, poolVars, threadVars, nodeVars, mainVars, history
<1>11. CASE ShutdownClear
  <2>1. /\ main = "clear" /\ main' = "cleared" /\ waiting_jobs' = <<>>
        /\ dropped' = dropped \cup Queued /\ done' = done /\ i' = i /\ job' = job
        /\ \A w \in Worker : pc'[w] # pc[w] => pc[w] = "sleep" /\ pc'[w] = "wake"
    BY <1>11 DEF ShutdownClear, Broadcast
  <2>2. Queued' = {} /\ Distinct(waiting_jobs')
    BY <1>q, <2>1, EmptySeq DEF Elems, Distinct
  <2>3. (\A w \in Worker : Holds(w)' <=> Holds(w)) /\ Held' = Held
    BY <2>1 DEF Held, Holds
  <2>4. RunOnce'
    BY <1>t, <1>q, <2>1, <2>2, <2>3 DEF JobsInv, RunOnce
  <2>5. NoneLost'
    BY <1>t, <2>1, <2>2, <2>3 DEF JobsInv, NoneLost
  <2>6. Known' = Known
    BY <2>1, <2>2, <2>3 DEF Known
  <2>7. \A w \in Worker : pc[w] # "remove"
    BY <2>1 DEF IInv, MutexInv, Inside, Main, Worker
  <2>8. ListInv'
    BY <1>t, <2>1, <2>6, <2>7 DEF JobsInv, ListInv
  <2> QED
    BY <2>4, <2>5, <2>8 DEF JobsInv
<1>12. CASE ShutdownUnlock
  BY <1>12, <1>t, JobsStay DEF Holds, ShutdownUnlock, poolVars, threadVars, nodeVars, mainVars, history
<1>13. CASE Return
  BY <1>13, <1>t, JobsStay DEF Holds, Return, poolVars, threadVars, nodeVars, mainVars, history
<1>14. ASSUME NEW w \in Worker, Lock(w)
      PROVE  JobsInv'
  BY <1>14, <1>t, JobsStay DEF Holds, Lock, Moves, poolVars, threadVars, nodeVars, mainVars, history
<1>15. ASSUME NEW w \in Worker, Test(w)
      PROVE  JobsInv'
  BY <1>15, <1>t, JobsStay DEF Holds, Test, Moves, poolVars, threadVars, nodeVars, mainVars, history
<1>16. ASSUME NEW w \in Worker, Quit(w)
      PROVE  JobsInv'
  BY <1>16, <1>t, JobsStay DEF Holds, Quit, Moves, poolVars, threadVars, nodeVars, mainVars, history
<1>27. ASSUME NEW w \in Worker, StayOn(w)
      PROVE  JobsInv'
  BY <1>27, <1>t, JobsStay DEF Holds, StayOn, Moves, poolVars, threadVars, nodeVars, mainVars, history
<1>28. ASSUME NEW w \in Worker, GoOn(w)
      PROVE  JobsInv'
  BY <1>28, <1>t, JobsStay DEF Holds, GoOn, Moves, poolVars, threadVars, nodeVars, mainVars, history
<1>29. ASSUME NEW w \in Worker, UnlockAndLeave(w)
      PROVE  JobsInv'
  BY <1>29, <1>t, JobsStay DEF Holds, UnlockAndLeave, Moves, poolVars, threadVars, nodeVars, mainVars, history
<1>17. ASSUME NEW w \in Worker, Wait(w)
      PROVE  JobsInv'
  BY <1>17, <1>t, JobsStay DEF Holds, Wait, Moves, poolVars, threadVars, nodeVars, mainVars, history
<1>18. ASSUME NEW w \in Worker, Leave(w)
      PROVE  JobsInv'
  BY <1>18, <1>t, JobsStay DEF Holds, Leave, Moves, poolVars, threadVars, nodeVars, mainVars, history
<1>19. ASSUME NEW w \in Worker, Take(w)
      PROVE  JobsInv'
  <2>1. /\ pc[w] = "take" /\ \A v \in Worker : v # w => pc'[v] = pc[v] /\ job'[v] = job[v]
        /\ pc'[w] = IF waiting_jobs = <<>> THEN "unlock" ELSE "remove"
        /\ job'[w] = IF waiting_jobs = <<>> THEN Null ELSE Head(waiting_jobs)
        /\ UNCHANGED <<waiting_jobs, done, dropped, i, main>>
    BY <1>19, <1>t DEF Take, Moves, poolVars, mainVars, history
  <2>2. \A v \in Worker : (Holds(v)' <=> Holds(v)) /\ (Holds(v) => job'[v] = job[v])
    BY <2>1 DEF Holds
  <2>3. Held' = Held
    BY <2>2 DEF Held
  <2>4. Queued' = Queued
    BY <2>1 DEF Queued
  <2>5. RunOnce'
    BY <1>t, <1>q, <2>1, <2>2, <2>4 DEF JobsInv, RunOnce
  <2>6. NoneLost'
    BY <1>t, <2>1, <2>3, <2>4 DEF JobsInv, NoneLost
  <2>7. ListInv'
    BY <1>t, <2>1, <2>3, <2>4 DEF JobsInv, ListInv, Known
  <2> QED
    BY <2>5, <2>6, <2>7 DEF JobsInv
<1>20. ASSUME NEW w \in Worker, Remove(w)
      PROVE  JobsInv'
  <2>1. /\ pc[w] = "remove" /\ pc'[w] = "unlock"
        /\ \A v \in Worker : v # w => pc'[v] = pc[v]
        /\ waiting_jobs' = Tail(waiting_jobs)
        /\ UNCHANGED <<job, done, dropped, i, main>>
    BY <1>20, <1>t DEF Remove, Moves, mainVars, history
  <2>2. waiting_jobs # <<>> /\ job[w] = Head(waiting_jobs)
    BY <1>t, <2>1 DEF JobsInv, ListInv
  <2>3. /\ job[w] \in Job /\ job[w] \in Queued
        /\ Queued' = Queued \ {job[w]} /\ Distinct(waiting_jobs')
    BY <1>n, <1>q, <2>1, <2>2, PopFront
  <2>4. job[w] # Null
    BY <2>3 DEF Job, Null
  <2>5. \A v \in Worker : Holds(v)' <=> Holds(v) \/ v = w
    BY <2>1, <2>4 DEF Holds
  <2>6. Held' = Held \cup {job[w]}
    BY <2>1, <2>5 DEF Held
  <2>7. \A v \in Worker : Holds(v) => job[v] # job[w]
    BY <1>t, <2>3 DEF JobsInv, RunOnce
  <2>8. RunOnce'
    BY <1>t, <1>q, <2>1, <2>3, <2>5, <2>7 DEF JobsInv, RunOnce
  <2>9. NoneLost'
    BY <1>t, <2>1, <2>3, <2>6 DEF JobsInv, NoneLost
  <2>10. \A v \in Worker : v # w => pc[v] # "remove"
    BY <2>1 DEF IInv, MutexInv, Inside
  <2>11. Known' = Known
    BY <2>1, <2>3, <2>6 DEF Known
  <2>12. ListInv'
    BY <1>t, <2>1, <2>10, <2>11 DEF JobsInv, ListInv
  <2> QED
    BY <2>8, <2>9, <2>12 DEF JobsInv
<1>21. ASSUME NEW w \in Worker, Unlock(w)
      PROVE  JobsInv'
  BY <1>21, <1>t, JobsStay DEF Holds, Unlock, Moves, poolVars, threadVars, nodeVars, mainVars, history
<1>22. ASSUME NEW w \in Worker, Run(w)
      PROVE  JobsInv'
  <2>1. /\ pc[w] = "run" /\ pc'[w] = "lock"
        /\ \A v \in Worker : v # w => pc'[v] = pc[v]
        /\ done' = done \cup {job[w]}
        /\ UNCHANGED <<waiting_jobs, job, dropped, i, main>>
    BY <1>22, <1>t DEF Run, Moves, poolVars, mainVars
  <2>2. Queued' = Queued
    BY <2>1 DEF Queued
  <2>3. \A v \in Worker : Holds(v)' <=> Holds(v) /\ v # w
    BY <2>1 DEF Holds
  <2>4. Holds(w) /\ \A v \in Worker : Holds(v)' => job[v] # job[w]
    BY <1>t, <2>1, <2>3 DEF JobsInv, RunOnce, Holds
  <2>5. Held' = Held \ {job[w]} /\ job[w] \in Held
    BY <2>1, <2>3, <2>4 DEF Held
  <2>6. job[w] \notin Queued
    BY <1>t, <2>4 DEF JobsInv, RunOnce
  <2>7. RunOnce'
    BY <1>t, <1>q, <2>1, <2>2, <2>3, <2>4, <2>6 DEF JobsInv, RunOnce
  <2>8. NoneLost'
    BY <1>t, <2>1, <2>2, <2>5 DEF JobsInv, NoneLost
  <2>9. Known' = Known
    BY <2>1, <2>2, <2>5 DEF Known
  <2>10. ListInv'
    BY <1>t, <2>1, <2>9 DEF JobsInv, ListInv
  <2> QED
    BY <2>7, <2>8, <2>10 DEF JobsInv
<1>23. ASSUME NEW w \in Worker, FreeWorker(w)
      PROVE  JobsInv'
  BY <1>23, <1>t, JobsStay DEF Holds, FreeWorker, Moves, poolVars, threadVars, nodeVars, mainVars, history
<1>24. ASSUME NEW w \in Worker, WakeSpuriously(w)
      PROVE  JobsInv'
  BY <1>24, <1>t, JobsStay DEF Holds, WakeSpuriously, Moves, poolVars, threadVars, nodeVars, mainVars, history
<1>25. CASE UNCHANGED vars
  BY <1>25, <1>t, JobsStay DEF Holds, vars, poolVars, threadVars, nodeVars, mainVars, history
<1> QED
  BY <1>1, <1>2, <1>3, <1>4, <1>5, <1>6, <1>7, <1>8, <1>9, <1>10, <1>11, <1>12,
     <1>13, <1>14, <1>15, <1>16, <1>17, <1>18, <1>19, <1>20, <1>21, <1>22, <1>23,
     <1>24, <1>25, <1>26, <1>27, <1>28, <1>29
  DEF Next, MainStep, CallerStep, WorkerStep

-----------------------------------------------------------------------------
(***************************************************************************)
(* The theorems.                                                           *)
(***************************************************************************)
LEMMA Inductive == Spec => []IInv
<1>1. IInv /\ [Next]_vars => IInv'
  BY TypeStep, MutexStep, WalkStep, JobsStep DEF IInv
<1> QED
  BY InitInv, <1>1, PTL DEF Spec

(* Every variable keeps its type: main's loop never runs past its last job, *)
(* and nobody takes from or unlinks from an empty list.                     *)
THEOREM TypeCorrect == Spec => []TypeOK
BY Inductive, PTL DEF IInv

(* No interleaving of workers and main runs a job twice: see RunOnce.       *)
THEOREM JobsRunOnce == Spec => []RunOnce
BY Inductive, PTL DEF IInv, JobsInv

(* No job that was queued disappears, except by the shutdown.               *)
THEOREM JobsNotLost == Spec => []NoneLost
BY Inductive, PTL DEF IInv, JobsInv

(* No worker is left asleep by the shutdown, although it sets the flags and *)
(* the workers read them without a lock: a worker that found its flag clear *)
(* (71) holds the mutex until it sleeps (75), the flags are all set before  *)
(* the broadcast, and the broadcast is made with the mutex held, so that it *)
(* comes after that worker fell asleep and not in between.  (The walk must  *)
(* not be cut short by a NULL read from a freed node.)                      *)
THEOREM ShutdownWakesAll == Spec => []NobodySleepsOn
<1>1. IInv => NobodySleepsOn
  BY DEF IInv, WalkInv, NobodySleepsOn
<1> QED
  BY Inductive, <1>1, PTL

(* The walk only writes to nodes that are still allocated.                  *)
THEOREM WalkMarksLive == Spec => []MarksLiveNode
<1>1. IInv => MarksLiveNode
  <2> SUFFICES ASSUME IInv, main = "mark", worker \in freed
               PROVE  FALSE
    BY DEF MarksLiveNode
  <2>1. worker \in Worker /\ pc[worker] = "gone" /\ terminate[worker]
    BY DEF IInv, TypeOK, WalkInv
  <2>2. ~(worker < worker)
    BY <2>1 DEF Worker
  <2> QED
    BY <2>1, <2>2 DEF IInv, WalkInv
<1> QED
  BY Inductive, <1>1, PTL

-----------------------------------------------------------------------------
(***************************************************************************)
(* One signal per job.  A worker that goes to sleep has found the list     *)
(* empty, and the mutex keeps it empty until it sleeps.                    *)
(***************************************************************************)
Flagged == \E w \in Worker : terminate[w]

EnoughAwake == ~Flagged /\ Sleepers # {} => Len(waiting_jobs) <= Cardinality(Awake)

WakeInv ==
  /\ \A w \in Worker : pc[w] \in {"empty", "wait"} => waiting_jobs = <<>>
  /\ EnoughAwake

LEMMA AwakeFinite == IsFiniteSet(Awake) /\ Cardinality(Awake) \in Nat
<1>1. IsFiniteSet(Worker)
  BY Constants, FS_Interval DEF Worker
<1>2. IsFiniteSet(Awake)
  BY <1>1, FS_Subset DEF Awake
<1> QED
  BY <1>2, FS_CardinalityType

LEMMA WakeInit == Init => WakeInv
<1> SUFFICES ASSUME Init PROVE WakeInv
  OBVIOUS
<1>1. Sleepers = {} /\ \A w \in Worker : pc[w] = "unborn"
  BY DEF Init, Sleepers
<1> QED
  BY <1>1 DEF WakeInv, EnoughAwake

(* More workers awake than before are at least as many.  *)
LEMMA MoreAwake ==
  ASSUME NEW S \in SUBSET Worker, Awake \subseteq S
  PROVE  Cardinality(S) \in Nat /\ Cardinality(Awake) <= Cardinality(S)
<1>1. IsFiniteSet(Worker)
  BY Constants, FS_Interval DEF Worker
<1>2. IsFiniteSet(S)
  BY <1>1, FS_Subset
<1>3. Cardinality(S) \in Nat
  BY <1>2, FS_CardinalityType
<1>4. Cardinality(Awake) <= Cardinality(S)
  BY <1>2, FS_Subset
<1> QED
  BY <1>3, <1>4

(* A step that leaves the list alone and sends nobody to sleep.  *)
LEMMA WakeKept ==
  ASSUME TypeOK, WakeInv, waiting_jobs' = waiting_jobs,
         Flagged => Flagged',
         \A w \in Worker : /\ pc'[w] \in {"empty", "wait"} => pc[w] \in {"empty", "wait"}
                           /\ pc'[w] = "sleep" => pc[w] = "sleep",
         Flagged' \/ Awake \subseteq Awake'
  PROVE  WakeInv'
<1>1. EnoughAwake'
  <2> SUFFICES ASSUME ~Flagged', Sleepers' # {}
               PROVE  Len(waiting_jobs') <= Cardinality(Awake)'
    BY DEF EnoughAwake
  <2>1. Sleepers # {} /\ ~Flagged
    BY DEF Sleepers
  <2>2. Awake' \in SUBSET Worker /\ Awake \subseteq Awake'
    BY DEF Awake
  <2>3. Cardinality(Awake') \in Nat /\ Cardinality(Awake) <= Cardinality(Awake')
    BY <2>2, MoreAwake
  <2>4. Len(waiting_jobs) \in Nat
    BY LenProperties DEF TypeOK
  <2>5. Len(waiting_jobs) <= Cardinality(Awake)
    BY <2>1 DEF WakeInv, EnoughAwake
  <2> QED
    BY <2>3, <2>4, <2>5, AwakeFinite
<1> QED
  BY <1>1 DEF WakeInv

LEMMA WakeNext == IInv /\ WakeInv /\ [Next]_vars => WakeInv'
<1> SUFFICES ASSUME IInv, WakeInv, [Next]_vars
             PROVE  WakeInv'
  OBVIOUS
<1>t. /\ TypeOK
      /\ pc \in [Worker -> {"unborn", "lock", "test", "empty", "wait", "sleep", "wake", "check",
                            "take", "remove", "unlock", "run", "leave", "free", "gone"}]
      /\ terminate \in [Worker -> BOOLEAN]
      /\ waiting_jobs \in Seq(Job)
  BY DEF IInv, TypeOK
<1>n. Len(waiting_jobs) \in Nat
  BY <1>t, LenProperties
<1>0. Len(<<>>) = 0
  BY EmptySeq
<1>a. ASSUME UNCHANGED <<pc, waiting_jobs, terminate>>
      PROVE  WakeInv'
  BY <1>t, <1>a, WakeKept DEF Awake, Flagged
<1>b. ASSUME waiting_jobs' = <<>>
      PROVE  WakeInv'
  <2>1. Awake' \in SUBSET Worker
    BY DEF Awake
  <2>a. IsFiniteSet(Worker)
    BY Constants, FS_Interval DEF Worker
  <2>2. IsFiniteSet(Awake')
    BY <2>1, <2>a, FS_Subset
  <2>3. Cardinality(Awake') \in Nat
    BY <2>2, FS_CardinalityType
  <2> QED
    BY <1>0, <1>b, <2>3 DEF WakeInv, EnoughAwake
<1>1. CASE CreateWorker
  <2>1. workers + 1 \in Worker /\ pc[workers + 1] = "unborn"
    BY <1>1, Constants DEF CreateWorker, IInv, WalkInv, Worker
  <2>2. /\ pc' = [pc EXCEPT ![workers + 1] = "lock"]
        /\ waiting_jobs' = waiting_jobs /\ terminate' = terminate
    BY <1>1 DEF CreateWorker, poolVars
  <2>3. Awake \subseteq Awake'
    BY <1>t, <2>2 DEF Awake
  <2> QED
    BY <1>t, <2>1, <2>2, <2>3, WakeKept DEF Flagged
<1>2. CASE \/ CreateFails \/ QueueLock \/ SkipJob \/ QueueUnlock \/ BeginShutdown
           \/ NextWorker \/ StrayNext \/ ShutdownLock \/ ShutdownUnlock \/ Return
  BY <1>a, <1>2
  DEF CreateFails, QueueLock, SkipJob, QueueUnlock, BeginShutdown, NextWorker, StrayNext,
      ShutdownLock, ShutdownUnlock, Return, poolVars, threadVars, nodeVars
<1>3. CASE QueueAdd
  <2>1. /\ jobs_mtx = Main
        /\ waiting_jobs' = <<i>> \o waiting_jobs
        /\ SignalOne
        /\ terminate' = terminate
    BY <1>3 DEF QueueAdd, LL_ADD, Signal, nodeVars, IInv, MutexInv
  <2>2. Len(waiting_jobs') = Len(waiting_jobs) + 1
    <3>1. i \in Job
      BY <1>3 DEF QueueAdd, IInv, JobsInv, ListInv
    <3>2. <<i>> \in Seq(Job) /\ Len(<<i>>) = 1
      BY <3>1
    <3> QED
      BY <1>t, <1>n, <2>1, <3>2, ConcatProperties
  <2>3. \A w \in Worker : pc[w] \notin {"empty", "wait"}
    BY <2>1 DEF IInv, MutexInv, Inside, Main, Worker
  <2>4. CASE Sleepers = {}
    <3>1. pc' = pc
      BY <2>1, <2>4 DEF SignalOne
    <3> QED
      BY <2>3, <2>4, <3>1 DEF WakeInv, EnoughAwake, Sleepers
  <2>5. CASE Sleepers # {}
    <3>1. PICK w \in Sleepers : pc' = [pc EXCEPT ![w] = "wake"]
      BY <2>1, <2>5 DEF SignalOne
    <3>2. w \in Worker /\ w \notin Awake
      BY <3>1 DEF Sleepers, Awake
    <3>3. Awake' = Awake \cup {w}
      BY <1>t, <3>1, <3>2 DEF Awake
    <3>4. Cardinality(Awake') = Cardinality(Awake) + 1
      BY <3>2, <3>3, AwakeFinite, FS_AddElement
    <3>5. \A v \in Worker : pc'[v] \notin {"empty", "wait"}
      BY <1>t, <2>3, <3>1
    <3>6. Flagged' = Flagged
      BY <2>1 DEF Flagged
    <3>7. ~Flagged => Len(waiting_jobs) <= Cardinality(Awake)
      BY <2>5 DEF WakeInv, EnoughAwake
    <3>8. ~Flagged' => Len(waiting_jobs') <= Cardinality(Awake')
      BY <1>n, <2>2, <3>4, <3>6, <3>7, AwakeFinite
    <3> QED
      BY <3>5, <3>8 DEF WakeInv, EnoughAwake
  <2> QED
    BY <2>4, <2>5
<1>4. CASE Mark
  <2>1. worker \in Worker /\ terminate' = [terminate EXCEPT ![worker] = TRUE]
    BY <1>4, Constants DEF Mark, IInv, WalkInv, Walking, Worker
  <2>2. Flagged'
    BY <1>t, <2>1 DEF Flagged
  <2> QED
    BY <1>t, <1>4, <2>2, WakeKept DEF Mark, poolVars, threadVars
<1>5. CASE ShutdownClear
  BY <1>b, <1>5 DEF ShutdownClear
<1>6. ASSUME NEW w \in Worker, Lock(w)
      PROVE  WakeInv'
  <2>1. /\ pc[w] \in {"lock", "wake"} /\ pc' = [pc EXCEPT ![w] = "test"]
        /\ waiting_jobs' = waiting_jobs /\ terminate' = terminate
    BY <1>6 DEF Lock, Moves, nodeVars
  <2>2. Awake \subseteq Awake'
    BY <1>t, <2>1 DEF Awake
  <2> QED
    BY <1>t, <2>1, <2>2, WakeKept DEF Flagged
<1>7. ASSUME NEW w \in Worker, Test(w)
      PROVE  WakeInv'
  <2>1. /\ pc[w] = "test"
        /\ pc' = [pc EXCEPT ![w] = IF waiting_jobs = <<>> THEN "empty" ELSE "check"]
        /\ waiting_jobs' = waiting_jobs /\ terminate' = terminate
    BY <1>7 DEF Test, Moves, poolVars, nodeVars
  <2>2. Awake \subseteq Awake'
    BY <1>t, <2>1 DEF Awake
  <2>3. CASE waiting_jobs = <<>>
    BY <1>b, <2>1, <2>3
  <2>4. CASE waiting_jobs # <<>>
    BY <1>t, <2>1, <2>2, <2>4, WakeKept DEF Flagged
  <2> QED
    BY <2>3, <2>4
<1>8. ASSUME NEW w \in Worker, Quit(w) \/ Leave(w)
      PROVE  WakeInv'
  <2>1. /\ terminate[w] /\ waiting_jobs' = waiting_jobs /\ terminate' = terminate
        /\ pc' = [pc EXCEPT ![w] = "check"] \/ pc' = [pc EXCEPT ![w] = "leave"]
    BY <1>8 DEF Quit, Leave, Moves, poolVars, nodeVars
  <2>2. Flagged'
    BY <2>1 DEF Flagged
  <2> QED
    BY <1>t, <2>1, <2>2, WakeKept
<1>9. ASSUME NEW w \in Worker, StayOn(w) \/ Wait(w)
      PROVE  WakeInv'
  <2>1. pc[w] \in {"empty", "wait"} /\ waiting_jobs' = waiting_jobs
    BY <1>9 DEF StayOn, Wait, Moves, poolVars
  <2>2. waiting_jobs' = <<>>
    BY <2>1 DEF WakeInv
  <2> QED
    BY <1>b, <2>2
<1>10. ASSUME NEW w \in Worker, Take(w)
       PROVE  WakeInv'
  <2>1. /\ pc[w] = "take"
        /\ pc' = [pc EXCEPT ![w] = IF waiting_jobs = <<>> THEN "unlock" ELSE "remove"]
        /\ waiting_jobs' = waiting_jobs /\ terminate' = terminate
    BY <1>10 DEF Take, Moves, poolVars, nodeVars
  <2>2. CASE waiting_jobs = <<>>
    BY <1>b, <2>1, <2>2
  <2>3. CASE waiting_jobs # <<>>
    <3>1. Awake \subseteq Awake'
      BY <1>t, <2>1, <2>3 DEF Awake
    <3> QED
      BY <1>t, <2>1, <2>3, <3>1, WakeKept DEF Flagged
  <2> QED
    BY <2>2, <2>3
<1>11. ASSUME NEW w \in Worker, Remove(w)
       PROVE  WakeInv'
  <2>1. /\ pc[w] = "remove" /\ pc' = [pc EXCEPT ![w] = "unlock"]
        /\ waiting_jobs' = Tail(waiting_jobs) /\ terminate' = terminate
    BY <1>11 DEF Remove, Moves, nodeVars
  <2>2. waiting_jobs # <<>>
    BY <2>1 DEF IInv, JobsInv, ListInv
  <2>3. Len(waiting_jobs') = Len(waiting_jobs) - 1
    BY <1>t, <2>1, <2>2, HeadTailProperties
  <2>4. \A v \in Worker : pc'[v] \notin {"empty", "wait"}
    <3>1. \A v \in Worker : pc[v] \notin {"empty", "wait"}
      BY <2>2 DEF WakeInv
    <3> QED
      BY <1>t, <2>1, <3>1
  <2>5. w \in Awake /\ Awake' = Awake \ {w}
    BY <1>t, <2>1 DEF Awake
  <2>6. Cardinality(Awake') = Cardinality(Awake) - 1
    BY <2>5, AwakeFinite, FS_RemoveElement
  <2>7. Flagged' = Flagged /\ Sleepers' = Sleepers
    BY <1>t, <2>1 DEF Flagged, Sleepers
  <2>8. ~Flagged /\ Sleepers # {} => Len(waiting_jobs') <= Cardinality(Awake')
    BY <1>n, <2>3, <2>6, AwakeFinite DEF WakeInv, EnoughAwake
  <2> QED
    BY <2>4, <2>7, <2>8 DEF WakeInv, EnoughAwake
<1>14. ASSUME NEW w \in Worker, GoOn(w)
       PROVE  WakeInv'
  <2>1. /\ pc[w] = "check" /\ pc' = [pc EXCEPT ![w] = "take"]
        /\ waiting_jobs' = waiting_jobs /\ terminate' = terminate
    BY <1>14 DEF GoOn, Moves, poolVars, nodeVars
  <2>2. Awake \subseteq Awake'
    BY <1>t, <2>1 DEF Awake
  <2> QED
    BY <1>t, <2>1, <2>2, WakeKept DEF Flagged
<1>12. ASSUME NEW w \in Worker,
              \/ Unlock(w) \/ Run(w) \/ UnlockAndLeave(w) \/ FreeWorker(w)
              \/ WakeSpuriously(w)
       PROVE  WakeInv'
  <2>1. /\ pc[w] \in {"unlock", "run", "leave", "free", "sleep"}
        /\ \/ pc' = [pc EXCEPT ![w] = "lock"]
           \/ pc' = [pc EXCEPT ![w] = "run"]
           \/ pc' = [pc EXCEPT ![w] = "free"]
           \/ pc' = [pc EXCEPT ![w] = "gone"]
           \/ pc' = [pc EXCEPT ![w] = "wake"]
        /\ waiting_jobs' = waiting_jobs /\ terminate' = terminate
    BY <1>12 DEF Unlock, Run, UnlockAndLeave, FreeWorker, WakeSpuriously, Moves, poolVars, nodeVars
  <2>2. Awake \subseteq Awake'
    BY <1>t, <2>1 DEF Awake
  <2> QED
    BY <1>t, <2>1, <2>2, WakeKept DEF Flagged
<1>13. CASE UNCHANGED vars
  BY <1>a, <1>13 DEF vars, poolVars, threadVars, nodeVars
<1> QED
  BY <1>1, <1>2, <1>3, <1>4, <1>5, <1>6, <1>7, <1>8, <1>9, <1>10, <1>11, <1>12, <1>13, <1>14
  DEF Next, MainStep, CallerStep, WorkerStep

(* No job waits for a wakeup that was not sent: with any number of workers, *)
(* as long as somebody sleeps and the shutdown has not begun, each waiting  *)
(* job has a worker that is on its way without being woken.                 *)
THEOREM SignalsSuffice == Spec => []WorkConserving
<1>1. Spec => []WakeInv
  BY Inductive, WakeInit, WakeNext, PTL DEF Spec
<1>2. WakeInv => WorkConserving
  BY DEF WakeInv, EnoughAwake, WorkConserving, Flagged
<1> QED
  BY <1>1, <1>2, PTL

-----------------------------------------------------------------------------
(***************************************************************************)
(* Every step of the pool is a step of the stack of jobs, or a stutter.    *)
(***************************************************************************)
LEMMA StackInit == Init => Stack!Init
<1>1. Init => Held = {}
  BY DEF Init, Held, Holds
<1> QED
  BY <1>1 DEF Init, Stack!Init

(* A step that leaves the jobs and the life of the pool alone stutters.  *)
LEMMA Stutters ==
  ASSUME waiting_jobs' = waiting_jobs, done' = done,
         \A w \in Worker : Holds(w)' <=> Holds(w),
         \A w \in Worker : Holds(w) => job'[w] = job[w],
         main' \in {"cleared", "getchar", "exited"} <=> main \in {"cleared", "getchar", "exited"}
  PROVE  UNCHANGED Stack!vars
BY DEF Stack!vars, Held

LEMMA StackStep == IInv /\ [Next]_vars => [Stack!Next]_(Stack!vars)
<1> SUFFICES ASSUME IInv, [Next]_vars
             PROVE  Stack!Next \/ UNCHANGED Stack!vars
  OBVIOUS
<1>t. /\ pc \in [Worker -> {"unborn", "lock", "test", "empty", "wait", "sleep", "wake", "check",
                            "take", "remove", "unlock", "run", "leave", "free", "gone"}]
      /\ job \in [Worker -> Job \cup {Null}]
      /\ done \subseteq Job
      /\ waiting_jobs \in Seq(Job)
      /\ \A w \in Worker : pc[w] = "run" => job[w] # Null
      /\ Stack!Waiting = Queued
      /\ RunOnce /\ ListInv
  BY DEF IInv, TypeOK, JobsInv, ListInv, Stack!Waiting, Queued
<1>1. CASE CreateWorker
  <2>1. workers + 1 \in Worker /\ pc[workers + 1] = "unborn"
    BY <1>1, Constants DEF CreateWorker, IInv, WalkInv, Worker
  <2> QED
    BY <1>1, <1>t, <2>1, Stutters DEF CreateWorker, poolVars, history, Holds
<1>2. CASE CreateFails
  BY <1>2, <1>t, Stutters DEF Holds, CreateFails, poolVars, threadVars, nodeVars, mainVars, history
<1>3. CASE QueueLock
  BY <1>3, <1>t, Stutters DEF Holds, QueueLock, poolVars, threadVars, nodeVars, mainVars, history
<1>4. CASE SkipJob
  BY <1>4, <1>t, Stutters DEF Holds, SkipJob, poolVars, threadVars, nodeVars, mainVars, history
<1>5. CASE QueueAdd
  <2>1. /\ main = "add" /\ main' = "added" /\ done' = done /\ job' = job
        /\ waiting_jobs' = <<i>> \o waiting_jobs
        /\ \A w \in Worker : pc'[w] # pc[w] => pc[w] = "sleep" /\ pc'[w] = "wake"
    BY <1>5, <1>t DEF QueueAdd, LL_ADD, Signal, SignalOne, Sleepers, history
  <2>2. Held' = Held
    BY <2>1 DEF Held, Holds
  <2>3. i \in Job /\ \A j \in Known : j < i
    BY <1>t, <2>1 DEF ListInv
  <2>4. i \notin Queued \cup Held \cup done
    BY <2>3 DEF Known, Job
  <2>5. Stack!Submit(i)
    BY <1>t, <2>1, <2>2, <2>4 DEF Stack!Submit
  <2> QED
    BY <2>3, <2>5 DEF Stack!Next
<1>6. CASE QueueUnlock
  BY <1>6, <1>t, Stutters DEF Holds, QueueUnlock, poolVars, threadVars, nodeVars, mainVars, history
<1>7. CASE BeginShutdown
  BY <1>7, <1>t, Stutters DEF Holds, BeginShutdown, poolVars, threadVars, nodeVars, mainVars, history
<1>8. CASE Mark
  BY <1>8, <1>t, Stutters DEF Holds, Mark, poolVars, threadVars, nodeVars, mainVars, history
<1>9. CASE NextWorker
  BY <1>9, <1>t, Stutters DEF Holds, NextWorker, poolVars, threadVars, nodeVars, mainVars, history
<1>26. CASE StrayNext
  BY <1>26, <1>t, Stutters DEF Holds, StrayNext, poolVars, threadVars, nodeVars, mainVars, history
<1>10. CASE ShutdownLock
  BY <1>10, <1>t, Stutters DEF Holds, ShutdownLock, poolVars, threadVars, nodeVars, mainVars, history
<1>11. CASE ShutdownClear
  <2>1. /\ main = "clear" /\ main' = "cleared" /\ waiting_jobs' = <<>>
        /\ done' = done /\ job' = job
        /\ \A w \in Worker : pc'[w] # pc[w] => pc[w] = "sleep" /\ pc'[w] = "wake"
    BY <1>11 DEF ShutdownClear, Broadcast
  <2>2. Held' = Held
    BY <2>1 DEF Held, Holds
  <2>3. Stack!Close
    BY <2>1, <2>2 DEF Stack!Close
  <2> QED
    BY <2>3 DEF Stack!Next
<1>12. CASE ShutdownUnlock
  BY <1>12, <1>t, Stutters DEF Holds, ShutdownUnlock, poolVars, threadVars, nodeVars, mainVars, history
<1>13. CASE Return
  BY <1>13, <1>t, Stutters DEF Holds, Return, poolVars, threadVars, nodeVars, mainVars, history
<1>14. ASSUME NEW w \in Worker, Lock(w)
      PROVE  Stack!Next \/ UNCHANGED Stack!vars
  BY <1>14, <1>t, Stutters DEF Holds, Lock, Moves, poolVars, threadVars, nodeVars, mainVars, history
<1>15. ASSUME NEW w \in Worker, Test(w)
      PROVE  Stack!Next \/ UNCHANGED Stack!vars
  BY <1>15, <1>t, Stutters DEF Holds, Test, Moves, poolVars, threadVars, nodeVars, mainVars, history
<1>16. ASSUME NEW w \in Worker, Quit(w)
      PROVE  Stack!Next \/ UNCHANGED Stack!vars
  BY <1>16, <1>t, Stutters DEF Holds, Quit, Moves, poolVars, threadVars, nodeVars, mainVars, history
<1>27. ASSUME NEW w \in Worker, StayOn(w)
      PROVE  Stack!Next \/ UNCHANGED Stack!vars
  BY <1>27, <1>t, Stutters DEF Holds, StayOn, Moves, poolVars, threadVars, nodeVars, mainVars, history
<1>28. ASSUME NEW w \in Worker, GoOn(w)
      PROVE  Stack!Next \/ UNCHANGED Stack!vars
  BY <1>28, <1>t, Stutters DEF Holds, GoOn, Moves, poolVars, threadVars, nodeVars, mainVars, history
<1>29. ASSUME NEW w \in Worker, UnlockAndLeave(w)
      PROVE  Stack!Next \/ UNCHANGED Stack!vars
  BY <1>29, <1>t, Stutters DEF Holds, UnlockAndLeave, Moves, poolVars, threadVars, nodeVars, mainVars, history
<1>17. ASSUME NEW w \in Worker, Wait(w)
      PROVE  Stack!Next \/ UNCHANGED Stack!vars
  BY <1>17, <1>t, Stutters DEF Holds, Wait, Moves, poolVars, threadVars, nodeVars, mainVars, history
<1>18. ASSUME NEW w \in Worker, Leave(w)
      PROVE  Stack!Next \/ UNCHANGED Stack!vars
  BY <1>18, <1>t, Stutters DEF Holds, Leave, Moves, poolVars, threadVars, nodeVars, mainVars, history
<1>19. ASSUME NEW w \in Worker, Take(w)
      PROVE  Stack!Next \/ UNCHANGED Stack!vars
  BY <1>19, <1>t, Stutters DEF Holds, Take, Moves, poolVars, threadVars, nodeVars, mainVars, history
<1>20. ASSUME NEW w \in Worker, Remove(w)
      PROVE  Stack!Next \/ UNCHANGED Stack!vars
  <2>1. /\ pc[w] = "remove" /\ pc'[w] = "unlock"
        /\ \A v \in Worker : v # w => pc'[v] = pc[v]
        /\ waiting_jobs' = Tail(waiting_jobs)
        /\ UNCHANGED <<job, done, main>>
    BY <1>20, <1>t DEF Remove, Moves, mainVars, history
  <2>2. waiting_jobs # <<>> /\ job[w] = Head(waiting_jobs)
    BY <1>t, <2>1 DEF ListInv
  <2>3. job[w] \in Queued /\ job[w] \in Job
    BY <1>t, <2>2, PopFront DEF RunOnce, Distinct, Elems, Queued
  <2>4. \A v \in Worker : Holds(v)' <=> Holds(v) \/ v = w
    BY <2>1, <2>3 DEF Holds, Job, Null
  <2>5. Held' = Held \cup {job[w]}
    BY <2>1, <2>4 DEF Held
  <2>6. job[w] \notin Held \cup done
    BY <1>t, <2>3 DEF RunOnce, Held
  <2>7. Stack!Start
    BY <2>1, <2>2, <2>5, <2>6 DEF Stack!Start
  <2> QED
    BY <2>7 DEF Stack!Next
<1>21. ASSUME NEW w \in Worker, Unlock(w)
      PROVE  Stack!Next \/ UNCHANGED Stack!vars
  BY <1>21, <1>t, Stutters DEF Holds, Unlock, Moves, poolVars, threadVars, nodeVars, mainVars, history
<1>22. ASSUME NEW w \in Worker, Run(w)
      PROVE  Stack!Next \/ UNCHANGED Stack!vars
  <2>1. /\ pc[w] = "run" /\ pc'[w] = "lock"
        /\ \A v \in Worker : v # w => pc'[v] = pc[v]
        /\ done' = done \cup {job[w]}
        /\ UNCHANGED <<waiting_jobs, job, main>>
    BY <1>22, <1>t DEF Run, Moves, poolVars, mainVars
  <2>2. \A v \in Worker : Holds(v)' <=> Holds(v) /\ v # w
    BY <2>1 DEF Holds
  <2>3. Holds(w) /\ \A v \in Worker : Holds(v)' => job[v] # job[w]
    BY <1>t, <2>1, <2>2 DEF RunOnce, Holds
  <2>4. Held' = Held \ {job[w]} /\ job[w] \in Held
    BY <2>1, <2>2, <2>3 DEF Held
  <2>5. job[w] \in Job /\ job[w] \notin done
    BY <1>t, <2>1, <2>3 DEF RunOnce, Null
  <2>6. Stack!Finish(job[w])
    BY <2>1, <2>4, <2>5 DEF Stack!Finish
  <2> QED
    BY <2>5, <2>6 DEF Stack!Next
<1>23. ASSUME NEW w \in Worker, FreeWorker(w)
      PROVE  Stack!Next \/ UNCHANGED Stack!vars
  BY <1>23, <1>t, Stutters DEF Holds, FreeWorker, Moves, poolVars, threadVars, nodeVars, mainVars, history
<1>24. ASSUME NEW w \in Worker, WakeSpuriously(w)
      PROVE  Stack!Next \/ UNCHANGED Stack!vars
  BY <1>24, <1>t, Stutters DEF Holds, WakeSpuriously, Moves, poolVars, threadVars, nodeVars, mainVars, history
<1>25. CASE UNCHANGED vars
  BY <1>25, <1>t, Stutters DEF Holds, vars, poolVars, threadVars, nodeVars, mainVars, history
<1> QED
  BY <1>1, <1>2, <1>3, <1>4, <1>5, <1>6, <1>7, <1>8, <1>9, <1>10, <1>11, <1>12,
     <1>13, <1>14, <1>15, <1>16, <1>17, <1>18, <1>19, <1>20, <1>21, <1>22, <1>23,
     <1>24, <1>25, <1>26, <1>27, <1>28, <1>29
  DEF Next, MainStep, CallerStep, WorkerStep

(* The pool implements the stack of jobs: newest first, started once,       *)
(* finished once, and after the shutdown nothing is started any more.       *)
THEOREM PoolImplementsStack == Spec => ImplementsJobStack
<1>1. Spec => [][Stack!Next]_(Stack!vars)
  BY Inductive, StackStep, PTL DEF Spec
<1> QED
  BY StackInit, <1>1, PTL DEF Spec, ImplementsJobStack, Stack!Spec
=============================================================================
