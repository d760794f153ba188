------------------------------ MODULE ThreadPool ------------------------------
(***************************************************************************)
(* The thread pool of 02线程池/01threadPool.c.  The main thread creates    *)
(* the workers, queues its jobs and shuts the pool down; a worker takes    *)
(* the newest job from the front of waiting_jobs, or sleeps on jobs_cond.  *)
(* waiting_jobs is protected by jobs_mtx.  The worker list and the         *)
(* terminate flags are not: threadPoolShutdown walks the list and sets the *)
(* flags while the workers read their own and free their own node.         *)
(*                                                                         *)
(* Worker w is the w-th to be created, job i the i-th of main's loop; 0 is *)
(* NULL.  A thread that waits for the mutex is one whose lock step is not  *)
(* enabled; a thread that waits on the condition variable is at "sleep".   *)
(***************************************************************************)
EXTENDS Integers, Sequences, FiniteSets

CONSTANTS
  NumWorkers,  \* MAX_THREADS_COUNT
  NumJobs,     \* MAX_JOBS_COUNT
  Spurious,    \* bound on the wakeups nobody asked for
  StrayReads   \* what else the next field of a freed node may read as

ASSUME ThreadPoolAssumption ==
  /\ NumWorkers \in Nat \ {0}
  /\ NumJobs \in Nat
  /\ Spurious \in Nat
  /\ StrayReads \subseteq {"null", "wild"}

Worker == 1 .. NumWorkers
Job    == 1 .. NumJobs
Null   == 0
Main   == 0               \* the main thread, as an owner of the mutex
Free   == -1              \* the mutex has no owner

VARIABLES
  main,          \* where the main thread stands
  pc,            \* where each worker stands
  jobs_mtx,      \* the owner of the mutex
  waiting_jobs,  \* the job list, its head first
  job,           \* workerThread's local variable
  workers,       \* head of the worker list
  next,          \* worker->next
  terminate,     \* worker->terminate
  freed,         \* workers whose node has been freed
  worker,        \* threadPoolShutdown's local variable
  i,             \* main's loop counter: the next job to be made
  done,          \* jobs that have been run
  dropped,       \* jobs that were never made or were thrown away by the shutdown
  spurious,      \* spurious wakeups so far
  cut            \* history: a NULL in a freed node ended the walk of the shutdown early

poolVars   == <<jobs_mtx, waiting_jobs>>
threadVars == <<pc, job>>
nodeVars   == <<workers, next, terminate, freed>>
mainVars   == <<main, worker, i>>
history    == <<done, dropped, spurious, cut>>
vars == <<poolVars, threadVars, nodeVars, mainVars, history>>

Init ==
  /\ main = "create"
  /\ pc = [w \in Worker |-> "unborn"]
  /\ jobs_mtx = Free
  /\ waiting_jobs = <<>>
  /\ job = [w \in Worker |-> Null]
  /\ workers = Null
  /\ next = [w \in Worker |-> Null]
  /\ terminate = [w \in Worker |-> FALSE]
  /\ freed = {}
  /\ worker = Null
  /\ i = 1
  /\ done = {}
  /\ dropped = {}
  /\ spurious = 0
  /\ cut = FALSE

-----------------------------------------------------------------------------
(***************************************************************************)
(* threadPoolCreate.  LL_ADD puts the new node in front; the thread may    *)
(* run before that, but never looks at the list.                           *)
(***************************************************************************)
CreateWorker ==
  /\ main = "create"
  /\ workers < NumWorkers
  /\ LET w == workers + 1 IN
       /\ pc' = [pc EXCEPT ![w] = "lock"]
       /\ next' = [next EXCEPT ![w] = workers]
       /\ workers' = w
       /\ main' = IF w = NumWorkers THEN "loop" ELSE "create"
  /\ UNCHANGED <<poolVars, job, terminate, freed, worker, i, history>>

(* malloc or pthread_create fails: -1, which main ignores. *)
CreateFails ==
  /\ main = "create"
  /\ main' = "loop"
  /\ UNCHANGED <<poolVars, threadVars, nodeVars, worker, i, history>>

-----------------------------------------------------------------------------
(***************************************************************************)
(* main's loop and threadPoolQueue.                                        *)
(***************************************************************************)
QueueLockOneMore ==             \* at fault: <= in place of < in main's loop
  /\ main = "loop"
  /\ i <= NumJobs + 1
  /\ jobs_mtx = Free
  /\ jobs_mtx' = Main
  /\ main' = "add"
  /\ UNCHANGED <<waiting_jobs, threadVars, nodeVars, worker, i, history>>

QueueLock ==
  /\ main = "loop"
  /\ i <= NumJobs
  /\ jobs_mtx = Free
  /\ jobs_mtx' = Main
  /\ main' = "add"
  /\ UNCHANGED <<waiting_jobs, threadVars, nodeVars, worker, i, history>>

(* The job's malloc fails: continue. *)
SkipJob ==
  /\ main = "loop"
  /\ i <= NumJobs
  /\ i' = i + 1
  /\ dropped' = dropped \cup {i}
  /\ UNCHANGED <<poolVars, threadVars, nodeVars, main, worker, done, spurious, cut>>

Sleepers == {w \in Worker : pc[w] = "sleep"}

(* The head of the job list after LL_ADD; at fault: next is not set, the   *)
(* job goes to the end.                                                    *)
LL_ADD_Unlinked(j) == <<j>>
LL_ADD_Last(j)     == Append(waiting_jobs, j)
LL_ADD(j)          == <<j>> \o waiting_jobs

(* pthread_cond_signal wakes one of the sleepers; at fault: it is only     *)
(* called for the first job of the list, or not at all.                    *)
SignalOne ==
  IF Sleepers = {} THEN UNCHANGED pc
                   ELSE \E w \in Sleepers : pc' = [pc EXCEPT ![w] = "wake"]
SignalIfFirst == IF waiting_jobs = <<>> THEN SignalOne ELSE UNCHANGED pc
SignalNobody  == UNCHANGED pc
Signal        == SignalOne

QueueAdd ==
  /\ main = "add"
  /\ waiting_jobs' = LL_ADD(i)
  /\ Signal
  /\ main' = "added"
  /\ UNCHANGED <<jobs_mtx, job, nodeVars, worker, i, history>>

QueueUnlock ==
  /\ main = "added"
  /\ jobs_mtx' = Free
  /\ i' = i + 1
  /\ main' = "loop"
  /\ UNCHANGED <<waiting_jobs, threadVars, nodeVars, worker, history>>

-----------------------------------------------------------------------------
(***************************************************************************)
(* threadPoolShutdown.  The walk over the list holds no lock.              *)
(***************************************************************************)
BeginShutdown ==
  /\ main = "loop"
  /\ i > NumJobs
  /\ worker' = workers
  /\ main' = IF workers = Null THEN "shutlock" ELSE "mark"
  /\ UNCHANGED <<poolVars, threadVars, nodeVars, i, history>>

Mark ==
  /\ main = "mark"
  /\ terminate' = [terminate EXCEPT ![worker] = TRUE]
  /\ main' = "next"
  /\ UNCHANGED <<poolVars, threadVars, workers, next, freed, worker, i, history>>

(* worker=worker->next.  The node may have been freed by now: as a rule     *)
(* free() leaves this field of it alone and the old value is read.          *)
NextWorker ==
  /\ main = "next"
  /\ worker' = next[worker]
  /\ main' = IF next[worker] = Null THEN "shutlock" ELSE "mark"
  /\ UNCHANGED <<poolVars, threadVars, nodeVars, i, history>>

(* But the freed memory may be in use again: the walk reads NULL and ends   *)
(* early, or a pointer to nowhere and the program dies of it.               *)
StrayNext ==
  /\ main = "next"
  /\ worker \in freed
  /\ \/ "null" \in StrayReads /\ worker' = Null /\ main' = "shutlock" /\ cut' = TRUE
     \/ "wild" \in StrayReads /\ main' = "crashed" /\ UNCHANGED <<worker, cut>>
  /\ UNCHANGED <<poolVars, threadVars, nodeVars, i, done, dropped, spurious>>

(* At fault: the list is cleared and the broadcast made without the mutex. *)
ShutdownUnlocked ==
  /\ main = "shutlock"
  /\ main' = "clear"
  /\ UNCHANGED <<poolVars, threadVars, nodeVars, worker, i, history>>

ShutdownLock ==
  /\ main = "shutlock"
  /\ jobs_mtx = Free
  /\ jobs_mtx' = Main
  /\ main' = "clear"
  /\ UNCHANGED <<waiting_jobs, threadVars, nodeVars, worker, i, history>>

Queued == {waiting_jobs[k] : k \in 1 .. Len(waiting_jobs)}

(* pthread_cond_broadcast wakes every sleeper; at fault: only one. *)
BroadcastToOne == SignalOne
Broadcast      == pc' = [w \in Worker |-> IF pc[w] = "sleep" THEN "wake" ELSE pc[w]]

(* The jobs are dropped and every sleeper is woken. *)
ShutdownClear ==
  /\ main = "clear"
  /\ workers' = Null
  /\ waiting_jobs' = <<>>
  /\ dropped' = dropped \cup Queued
  /\ Broadcast
  /\ main' = "cleared"
  /\ UNCHANGED <<jobs_mtx, job, next, terminate, freed, worker, i, done, spurious, cut>>

ShutdownUnlock ==
  /\ main = "cleared"
  /\ jobs_mtx' = Free
  /\ main' = "getchar"
  /\ UNCHANGED <<waiting_jobs, threadVars, nodeVars, worker, i, history>>

(* A key is pressed and main returns, which ends every thread. *)
Return ==
  /\ main = "getchar"
  /\ main' = "exited"
  /\ UNCHANGED <<poolVars, threadVars, nodeVars, worker, i, history>>

-----------------------------------------------------------------------------
(***************************************************************************)
(* workerThread.                                                           *)
(***************************************************************************)
Moves(w, from, to) ==
  /\ main \notin {"exited", "crashed"}
  /\ pc[w] = from
  /\ pc' = [pc EXCEPT ![w] = to]

(* pthread_mutex_lock, and the lock pthread_cond_wait takes when it returns. *)
Lock(w) ==
  /\ Moves(w, "lock", "test") \/ Moves(w, "wake", "test")
  /\ jobs_mtx = Free
  /\ jobs_mtx' = w
  /\ UNCHANGED <<waiting_jobs, job, nodeVars, mainVars, history>>

(* while(waiting_jobs == NULL) *)
Test(w) ==
  /\ Moves(w, "test", IF waiting_jobs = <<>> THEN "empty" ELSE "check")
  /\ UNCHANGED <<poolVars, job, nodeVars, mainVars, history>>

(* No job, and no lock protects the flag: out of the loop if it is set,    *)
(* which is tested once more there, and otherwise on to pthread_cond_wait. *)
Quit(w) ==
  /\ terminate[w]
  /\ Moves(w, "empty", "check")
  /\ UNCHANGED <<poolVars, job, nodeVars, mainVars, history>>

StayOn(w) ==
  /\ ~terminate[w]
  /\ Moves(w, "empty", "wait")
  /\ UNCHANGED <<poolVars, job, nodeVars, mainVars, history>>

(* pthread_cond_wait, whatever the flag says by now: it releases the mutex  *)
(* and sleeps in one step.                                                 *)
Wait(w) ==
  /\ Moves(w, "wait", "sleep")
  /\ jobs_mtx' = Free
  /\ UNCHANGED <<waiting_jobs, job, nodeVars, mainVars, history>>

WakeSpuriously(w) ==
  /\ spurious < Spurious
  /\ Moves(w, "sleep", "wake")
  /\ spurious' = spurious + 1
  /\ UNCHANGED <<poolVars, job, nodeVars, mainVars, done, dropped, cut>>

(* if(worker->terminate), again without regard to who sets it; at fault:   *)
(* anybody's flag is taken for the own one.                                *)
LeaveOnAnyFlag(w) ==
  /\ \E v \in Worker : terminate[v]
  /\ Moves(w, "check", "leave")
  /\ UNCHANGED <<poolVars, job, nodeVars, mainVars, history>>

Leave(w) ==
  /\ terminate[w]
  /\ Moves(w, "check", "leave")
  /\ UNCHANGED <<poolVars, job, nodeVars, mainVars, history>>

GoOn(w) ==
  /\ ~terminate[w]
  /\ Moves(w, "check", "take")
  /\ UNCHANGED <<poolVars, job, nodeVars, mainVars, history>>

UnlockAndLeave(w) ==
  /\ Moves(w, "leave", "free")
  /\ jobs_mtx' = Free
  /\ UNCHANGED <<waiting_jobs, job, nodeVars, mainVars, history>>

(* job = waiting_jobs, which may be NULL; at fault: unlocked too early. *)
TakeAndUnlock(w) ==
  /\ Moves(w, "take", IF waiting_jobs = <<>> THEN "unlock" ELSE "remove")
  /\ job' = [job EXCEPT ![w] = IF waiting_jobs = <<>> THEN Null ELSE Head(waiting_jobs)]
  /\ jobs_mtx' = Free
  /\ UNCHANGED <<waiting_jobs, nodeVars, mainVars, history>>

Take(w) ==
  /\ Moves(w, "take", IF waiting_jobs = <<>> THEN "unlock" ELSE "remove")
  /\ job' = [job EXCEPT ![w] = IF waiting_jobs = <<>> THEN Null ELSE Head(waiting_jobs)]
  /\ UNCHANGED <<poolVars, nodeVars, mainVars, history>>

(* LL_REMOVE. *)
Remove(w) ==
  /\ Moves(w, "remove", "unlock")
  /\ waiting_jobs' = Tail(waiting_jobs)
  /\ UNCHANGED <<jobs_mtx, job, nodeVars, mainVars, history>>

Unlock(w) ==
  /\ Moves(w, "unlock", IF job[w] = Null THEN "lock" ELSE "run")
  /\ jobs_mtx' = Free
  /\ UNCHANGED <<waiting_jobs, job, nodeVars, mainVars, history>>

(* job_function: prints and frees the job. *)
Run(w) ==
  /\ Moves(w, "run", "lock")
  /\ done' = done \cup {job[w]}
  /\ UNCHANGED <<poolVars, job, nodeVars, mainVars, dropped, spurious, cut>>

(* free(worker), pthread_exit. *)
FreeWorker(w) ==
  /\ Moves(w, "free", "gone")
  /\ freed' = freed \cup {w}
  /\ UNCHANGED <<poolVars, job, workers, next, terminate, mainVars, history>>

-----------------------------------------------------------------------------
(* What the library and main's loop do by themselves, and what the caller   *)
(* decides: when to shut the pool down and when to return.                  *)
MainStep ==
  \/ CreateWorker \/ CreateFails
  \/ QueueLock \/ SkipJob \/ QueueAdd \/ QueueUnlock
  \/ Mark \/ NextWorker \/ StrayNext \/ ShutdownLock \/ ShutdownClear \/ ShutdownUnlock

CallerStep == BeginShutdown \/ Return

WorkerStep(w) ==
  \/ Lock(w) \/ Test(w) \/ Quit(w) \/ StayOn(w) \/ Wait(w)
  \/ Leave(w) \/ UnlockAndLeave(w) \/ FreeWorker(w)
  \/ GoOn(w) \/ Take(w) \/ Remove(w) \/ Unlock(w) \/ Run(w)

Next ==
  \/ MainStep
  \/ CallerStep
  \/ \E w \in Worker : WorkerStep(w) \/ WakeSpuriously(w)

(* The scheduler runs every thread that can run, jobs end, and the mutex is *)
(* given in the end to a thread that waits for it while it is free.         *)
Fairness == WF_vars(MainStep) /\ \A w \in Worker : WF_vars(WorkerStep(w))

Spec == Init /\ [][Next]_vars /\ Fairness

-----------------------------------------------------------------------------
(***************************************************************************)
(* Properties.                                                             *)
(***************************************************************************)
(* Types of the variables. *)
TypeOK ==
  /\ main \in {"create", "loop", "add", "added", "mark", "next", "shutlock", "clear",
               "cleared", "getchar", "exited", "crashed"}
  /\ pc \in [Worker -> {"unborn", "lock", "test", "empty", "wait", "sleep", "wake", "check",
                        "take", "remove", "unlock", "run", "leave", "free", "gone"}]
  /\ jobs_mtx \in Worker \cup {Main, Free}
  /\ waiting_jobs \in Seq(Job)
  /\ job \in [Worker -> Job \cup {Null}]
  /\ workers \in Worker \cup {Null}
  /\ next \in [Worker -> Worker \cup {Null}]
  /\ terminate \in [Worker -> BOOLEAN]
  /\ freed \subseteq Worker
  /\ worker \in Worker \cup {Null}
  /\ i \in 1 .. NumJobs + 1
  /\ done \subseteq Job
  /\ dropped \subseteq Job
  /\ spurious \in Nat
  /\ cut \in BOOLEAN

(* The job a worker has removed from the list and not finished. *)
Holds(w) == pc[w] = "run" \/ (pc[w] = "unlock" /\ job[w] # Null)

Held == {job[w] : w \in {v \in Worker : Holds(v)}}

(* A job is run at most once: it is never both in the list and in the hands *)
(* of a worker, nor with two workers, nor anywhere once it has been run.    *)
RunOnce ==
  /\ \A a, b \in 1 .. Len(waiting_jobs) : a # b => waiting_jobs[a] # waiting_jobs[b]
  /\ Queued \cap (done \cup dropped) = {}
  /\ \A w \in Worker : Holds(w) => job[w] \notin Queued \cup done \cup dropped
  /\ \A v, w \in Worker : v # w /\ Holds(v) /\ Holds(w) => job[v] # job[w]

(* No job is lost: what main has queued is in the list, with a worker, run, *)
(* or was dropped by the shutdown.                                          *)
NoneLost ==
  \A j \in Job : j < i => j \in Queued \cup done \cup dropped \cup Held

(* A worker on its way to the list without having to be woken. *)
Awake == {w \in Worker : pc[w] \in {"lock", "wake", "test", "empty", "check", "take", "remove"}}

(* One signal per job is enough: before the shutdown no worker sleeps while *)
(* there are more jobs waiting than workers on their way to take one.  The  *)
(* signal comes after the job is in the list (160-162).                     *)
WorkConserving ==
  (main \notin {"add", "added"} /\ \A w \in Worker : ~terminate[w]) =>
    (Sleepers # {} => Len(waiting_jobs) <= Cardinality(Awake))

(* Once the shutdown has broadcast, nobody sleeps or is about to: a worker  *)
(* that goes to sleep later would never be woken again.  A worker that has  *)
(* found its flag clear (71) before the walk set it (173) still goes to     *)
(* sleep (75), but before the shutdown gets the mutex, and so before the    *)
(* broadcast.  (The walk must not have been cut short.)                     *)
NobodySleepsOn ==
  main \in {"cleared", "getchar"} /\ ~cut =>
    \A w \in Worker : pc[w] \notin {"wait", "sleep"} /\ (pc[w] = "empty" => terminate[w])

(* The walk never sets a flag through a freed node. *)
MarksLiveNode == main = "mark" => worker \notin freed

(* Line 171: the shutdown walks over all the workers.  Every node it reads  *)
(* is one that its worker has not freed yet.                                *)
WalksLiveNodes == main \in {"mark", "next"} => worker \notin freed

(* After the shutdown every worker leaves and frees its node (146), unless  *)
(* the walk was cut short. *)
ShutdownEnds ==
  (main = "getchar" /\ ~cut) ~>
    (main = "exited" \/ \A w \in Worker : pc[w] = "unborn" \/ w \in freed)

(* As long as nobody shuts the pool down, a pool with a worker runs every   *)
(* job that was queued.                                                     *)
JobsGetRun ==
  \A j \in Job :
    (j \in Queued /\ workers # Null) ~> (j \in done \/ \E w \in Worker : terminate[w])

(* The pool implements the stack of jobs its caller can rely on. *)
Stack == INSTANCE JobStack WITH
  Jobs     <- Job,
  stack    <- waiting_jobs,
  running  <- Held,
  finished <- done,
  open     <- main \notin {"cleared", "getchar", "exited"}

ImplementsJobStack == Stack!Spec
=============================================================================
