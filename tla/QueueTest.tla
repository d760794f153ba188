------------------------------ MODULE QueueTest ------------------------------
(***************************************************************************)
(* main of 03无锁队列.cpp: every round runs the test of the locked list    *)
(* and then the test of the lock-free queue, on the same two counts.       *)
(***************************************************************************)
EXTENDS LockFreeQueue

VARIABLES
  test,  \* the test that runs: "list" or "queue"
  at, owner, list, view, loaded, made, value

Locked == INSTANCE LockedList

listVars  == <<at, owner, list, view, loaded, made, value>>
queueOnly == <<mainVars, pc, heapVars, queueVars, p, pushVars, popVars>>
wholeVars == <<vars, test, listVars>>

WholeInit == Init /\ Locked!Init /\ test = "list"

(* A step of the test of the list. *)
OnList(A) == test = "list" /\ A /\ UNCHANGED <<test, queueOnly>>

(* Its threads have been joined: the counts are cleared for the queue. *)
ListEnds ==
  /\ test = "list"
  /\ Locked!Done
  /\ test' = "queue"
  /\ s_count_push' = 0
  /\ s_count_pop' = 0
  /\ UNCHANGED <<queueOnly, listVars>>

(* A step of the lock-free queue; the next round begins with the list,     *)
(* which is kept as it is.                                                 *)
OnQueue(A) ==
  /\ test = "queue"
  /\ A
  /\ IF round' # round /\ main' = "run"
       THEN /\ test' = "list"
            /\ at' = Locked!Begin
            /\ made' = [th \in Pushers |-> 0]
            /\ UNCHANGED <<owner, list, view, loaded, value>>
       ELSE UNCHANGED <<test, listVars>>

WholeNext == OnList(Locked!Next) \/ ListEnds \/ OnQueue(Next)

(* The scheduler runs every thread.  A popper of the list asks for the     *)
(* mutex again and again; at some moment between two of its turns the      *)
(* pusher is scheduled.                                                    *)
WholeFairness ==
  /\ \A th \in Pushers :
       /\ WF_wholeVars(OnList(Locked!Push(th))) /\ SF_wholeVars(OnList(Locked!Lock(th)))
       /\ WF_wholeVars(OnQueue(push2(th)))
  /\ \A th \in Poppers :
       /\ WF_wholeVars(OnList(Locked!Pop(th))) /\ SF_wholeVars(OnList(Locked!Lock(th)))
       /\ WF_wholeVars(OnQueue(pop2(th)))
  /\ WF_wholeVars(ListEnds) /\ WF_wholeVars(OnQueue(MainStep))

WholeSpec == WholeInit /\ [][WholeNext]_wholeVars /\ WholeFairness

-----------------------------------------------------------------------------
(***************************************************************************)
(* Properties of the list; most of those of the queue are in LockFreeQueue.        *)
(***************************************************************************)
(* Line 16: the counts say what went in and came out.  What has been pushed *)
(* on s_list is in it or has been popped whenever nobody holds the mutex,  *)
(* clearing the counts between the tests confuses neither, and a popper of *)
(* the list that has left, on a count it read without the mutex (190),     *)
(* leaves nothing behind; when the threads of the queue have been joined,  *)
(* it is empty and all nodes but one are deleted, and this one in the end. *)
TestsLeaveEmpty ==
  /\ RoundLeavesEmpty
  /\ test = "list" =>
       /\ owner = {} => s_count_push = Len(list) + s_count_pop
       /\ (\E th \in Poppers : at[th] = "done") => list = <<>>

(* The mutex makes the std::list the same queue that push2 and pop2 are,   *)
(* although its calls read and write it in several steps.                  *)
ListImplementsFifo == Locked!Fifo!Spec
=============================================================================
