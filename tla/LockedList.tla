----------------------------- MODULE LockedList -----------------------------
(***************************************************************************)
(* The queue that 03无锁队列.cpp compares with: a std::list and two counts *)
(* that the threads of mutex_thread_push and mutex_thread_pop change under *)
(* one mutex, except that a popper reads s_count_pop without it.           *)
(*                                                                         *)
(* One action is one access to what the threads share.  A call that        *)
(* changes the list is two, as x++ is: it reads the list, and writes what  *)
(* it has made of it.  Only the mutex keeps other threads from what lies   *)
(* in between.                                                             *)
(***************************************************************************)
EXTENDS Integers, Sequences, FiniteSets

CONSTANTS Pushers, Poppers, Count, Nothing

VARIABLES
  at,     \* where each thread stands
  owner,  \* the thread that holds the mutex, if any
  list,   \* s_list
  view,   \* the list as the thread that changes it has read it
  loaded, \* the count as the thread that increments it has read it
  made,   \* loop counter of a pusher
  value,  \* what a popper found in the list last, or Nothing
  s_count_push, s_count_pop

counts == <<s_count_push, s_count_pop>>
locals == <<view, loaded, made, value>>
vars   == <<at, owner, list, locals, counts>>

Thread == Pushers \cup Poppers
Total  == Count * Cardinality(Pushers)

(* All threads of a round at their start. *)
Begin == [th \in Thread |-> "lock"]

Init ==
  /\ at = Begin
  /\ owner = {}
  /\ list = <<>>
  /\ view = [th \in Thread |-> <<>>]
  /\ loaded = [th \in Thread |-> 0]
  /\ made = [th \in Pushers |-> 0]
  /\ value = [th \in Poppers |-> Nothing]
  /\ s_count_push = 0
  /\ s_count_pop = 0

Moves(th, from, to) == at[th] = from /\ at' = [at EXCEPT ![th] = to]

(* pthread_mutex_lock; at fault: the mutex is not taken. *)
LockAnyway(th) ==
  /\ Moves(th, "lock", IF th \in Pushers THEN "load" ELSE "size")
  /\ UNCHANGED <<owner, list, locals, counts>>

Lock(th) ==
  /\ Moves(th, "lock", IF th \in Pushers THEN "load" ELSE "size")
  /\ owner = {}
  /\ owner' = {th}
  /\ UNCHANGED <<list, locals, counts>>

Unlock(th) ==
  /\ owner' = {}
  /\ UNCHANGED <<list, view, loaded, value, counts>>

(* The first half of count++, and of push_back() and pop_front(). *)
Load(th, count) ==
  /\ Moves(th, "load", "store")
  /\ loaded' = [loaded EXCEPT ![th] = count]
  /\ UNCHANGED <<owner, list, view, made, value, counts>>

Read(th) ==
  /\ Moves(th, "read", "write")
  /\ view' = [view EXCEPT ![th] = list]
  /\ UNCHANGED <<owner, list, loaded, made, value, counts>>

(* mutex_thread_push: s_count_push++, push_back(i), unlock, next i. *)
CountPush(th) ==
  /\ Moves(th, "store", "read")
  /\ s_count_push' = loaded[th] + 1
  /\ UNCHANGED <<owner, list, locals, s_count_pop>>

PushBack(th) ==
  /\ Moves(th, "write", "unlock")
  /\ list' = Append(view[th], made[th])
  /\ UNCHANGED <<owner, locals, counts>>

UnlockPush(th) ==
  /\ Moves(th, "unlock", IF made[th] + 1 < Count THEN "lock" ELSE "done")
  /\ made' = [made EXCEPT ![th] = @ + 1]
  /\ Unlock(th)

(* mutex_thread_pop: nothing is counted when size() is 0; at fault: it is. *)
AfterEmptyCounted == "load"
AfterEmpty        == "unlock"

Size(th) ==
  /\ Moves(th, "size", IF list = <<>> THEN AfterEmpty ELSE "front")
  /\ value' = IF list = <<>> THEN [value EXCEPT ![th] = Nothing] ELSE value
  /\ UNCHANGED <<owner, list, view, loaded, made, counts>>

(* front(); at fault: back(). *)
TakenBack  == list[Len(list)]
TakenFront == Head(list)

Front(th) ==
  /\ Moves(th, "front", "read")
  /\ value' = [value EXCEPT ![th] = TakenFront]
  /\ UNCHANGED <<owner, list, view, loaded, made, counts>>

PopFront(th) ==
  /\ Moves(th, "write", "load")
  /\ list' = Tail(view[th])
  /\ UNCHANGED <<owner, locals, counts>>

CountPop(th) ==
  /\ Moves(th, "store", "unlock")
  /\ s_count_pop' = loaded[th] + 1
  /\ UNCHANGED <<owner, list, locals, s_count_push>>

UnlockPop(th) ==
  /\ Moves(th, "unlock", "check")
  /\ Unlock(th)
  /\ UNCHANGED made

(* if (s_count_pop >= FOR_LOOP_COUNT * MAX_THREAD_NUM) break; *)
Check(th) ==
  /\ Moves(th, "check", IF s_count_pop >= Total THEN "done" ELSE "lock")
  /\ UNCHANGED <<owner, list, locals, counts>>

Push(th) ==
  \/ Lock(th) \/ Load(th, s_count_push) \/ CountPush(th)
  \/ Read(th) \/ PushBack(th) \/ UnlockPush(th)

Pop(th) ==
  \/ Lock(th) \/ Size(th) \/ Front(th) \/ Read(th) \/ PopFront(th)
  \/ Load(th, s_count_pop) \/ CountPop(th) \/ UnlockPop(th) \/ Check(th)

Next ==
  \/ \E th \in Pushers : Push(th)
  \/ \E th \in Poppers : Pop(th)

Done == \A th \in Thread : at[th] = "done"

-----------------------------------------------------------------------------
(* As a queue, from which an element is gone once front() has returned it;  *)
(* the fairness and the rounds are in QueueTest.                            *)
Contents == IF \E c \in Poppers : at[c] \in {"read", "write"} THEN Tail(list) ELSE list

Fifo == INSTANCE FifoQueue WITH
  Elements  <- 0 .. Count - 1,
  Consumers <- Poppers,
  queue     <- Contents,
  result    <- value
=============================================================================
