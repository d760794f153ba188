---------------------------- MODULE QueueTestProofs ----------------------------
(***************************************************************************)
(* Proofs about QueueTest: the locked list for any number of threads as a  *)
(* queue, and the two tests in turn for one pusher and one popper.         *)
(***************************************************************************)
EXTENDS QueueTest, LockFreeQueueProofs

-----------------------------------------------------------------------------
(***************************************************************************)
(* The locked list is a queue, for any number of threads: a thread between *)
(* lock and unlock is alone there, so that what it has read of the list or *)
(* of a count is still true when it writes it.                             *)
(***************************************************************************)
Inside(th) == at[th] \in {"load", "store", "read", "write", "size", "front", "unlock"}

PlaceInv ==
  /\ at \in [Thread -> {"lock", "load", "store", "read", "write", "size", "front",
                        "unlock", "check", "done"}]
  /\ DOMAIN view = Thread /\ DOMAIN loaded = Thread
  /\ made \in [Pushers -> 0 .. Count]
  /\ \A u \in Pushers : /\ at[u] \notin {"size", "front", "check"}
                        /\ at[u] # "done" => made[u] < Count
  /\ test = "queue" => \A th \in Thread : at[th] = "done"

AloneInv == \A th \in Thread : Inside(th) <=> owner = {th}

ReadInv ==
  /\ \A th \in Thread : at[th] = "write" => view[th] = list
  /\ \A c \in Poppers : at[c] \in {"front", "read", "write"} => list # <<>>
  /\ \A u \in Pushers : at[u] = "store" => loaded[u] = s_count_push
  /\ \A c \in Poppers : at[c] = "store" => loaded[c] = s_count_pop

LockedInv == PlaceInv /\ AloneInv /\ ReadInv

LEMMA ListThreads ==
  /\ Count \in Nat \ {0} /\ Pushers \cap Poppers = {}
  /\ Locked!Thread = Thread /\ Pushers \subseteq Thread /\ Poppers \subseteq Thread
BY QueueAssumption DEF Locked!Thread, Thread

LEMMA ListBegins ==
  ASSUME at = Locked!Begin, made = [th \in Pushers |-> 0], test = "list",
         DOMAIN view = Thread, DOMAIN loaded = Thread, \A th \in Thread : owner # {th}
  PROVE  LockedInv
<1>1. \A th \in Thread : at[th] = "lock"
  BY ListThreads DEF Locked!Begin
<1>2. PlaceInv
  BY <1>1, ListThreads DEF PlaceInv, Locked!Begin
<1> QED
  BY <1>1, <1>2, ListThreads DEF LockedInv, AloneInv, ReadInv, Inside

LEMMA PusherStepLocked ==
  ASSUME LockedInv, test = "list", test' = test, NEW th \in Pushers, Locked!Push(th)
  PROVE  LockedInv'
<1> USE ListThreads DEF LockedInv, PlaceInv, AloneInv, ReadInv, Inside, Locked!Moves,
                        Locked!counts, Locked!locals
<1>1. CASE Locked!Lock(th)
  BY <1>1 DEF Locked!Lock
<1>2. CASE Locked!Load(th, s_count_push)
  BY <1>2 DEF Locked!Load
<1>3. CASE Locked!CountPush(th)
  BY <1>3 DEF Locked!CountPush
<1>4. CASE Locked!Read(th)
  BY <1>4 DEF Locked!Read
<1>5. CASE Locked!PushBack(th)
  <2>1. /\ at[th] = "write" /\ at' = [at EXCEPT ![th] = "unlock"]
        /\ list' = Append(list, made[th])
        /\ UNCHANGED <<owner, view, loaded, made, value, s_count_push, s_count_pop>>
    BY <1>5 DEF Locked!PushBack
  <2>2. owner = {th} /\ \A o \in Thread \ {th} : ~Inside(o)
    BY <2>1
  <2>3. PlaceInv'
    BY <2>1
  <2>4. \A o \in Thread : Inside(o)' <=> Inside(o)
    BY <2>1
  <2>5. ReadInv'
    BY <2>1, <2>2
  <2> QED
    BY <2>1, <2>3, <2>4, <2>5
<1>6. CASE Locked!UnlockPush(th)
  BY <1>6 DEF Locked!UnlockPush, Locked!Unlock
<1> QED
  BY <1>1, <1>2, <1>3, <1>4, <1>5, <1>6 DEF Locked!Push

LEMMA PopperStepLocked ==
  ASSUME LockedInv, test = "list", test' = test, NEW th \in Poppers, Locked!Pop(th)
  PROVE  LockedInv'
<1> USE ListThreads DEF LockedInv, PlaceInv, AloneInv, ReadInv, Inside, Locked!Moves,
                        Locked!counts, Locked!locals
<1>1. CASE Locked!Lock(th)
  BY <1>1 DEF Locked!Lock
<1>2. CASE Locked!Size(th)
  BY <1>2 DEF Locked!Size, Locked!AfterEmpty
<1>3. CASE Locked!Front(th)
  BY <1>3 DEF Locked!Front
<1>4. CASE Locked!Read(th)
  BY <1>4 DEF Locked!Read
<1>5. CASE Locked!PopFront(th)
  <2>1. /\ at[th] = "write" /\ at' = [at EXCEPT ![th] = "load"]
        /\ UNCHANGED <<owner, view, loaded, made, value, s_count_push, s_count_pop>>
    BY <1>5 DEF Locked!PopFront
  <2>2. owner = {th} /\ \A o \in Thread \ {th} : ~Inside(o)
    BY <2>1
  <2>3. PlaceInv'
    BY <2>1
  <2>4. \A o \in Thread : Inside(o)' <=> Inside(o)
    BY <2>1
  <2>5. ReadInv'
    BY <2>1, <2>2
  <2> QED
    BY <2>1, <2>3, <2>4, <2>5
<1>6. CASE Locked!Load(th, s_count_pop)
  BY <1>6 DEF Locked!Load
<1>7. CASE Locked!CountPop(th)
  BY <1>7 DEF Locked!CountPop
<1>8. CASE Locked!UnlockPop(th)
  BY <1>8 DEF Locked!UnlockPop, Locked!Unlock
<1>9. CASE Locked!Check(th)
  BY <1>9 DEF Locked!Check
<1> QED
  BY <1>1, <1>2, <1>3, <1>4, <1>5, <1>6, <1>7, <1>8, <1>9 DEF Locked!Pop

LEMMA LockedStep ==
  ASSUME LockedInv, [WholeNext]_wholeVars
  PROVE  LockedInv'
<1>1. CASE OnList(Locked!Next)
  BY <1>1, PusherStepLocked, PopperStepLocked DEF OnList, Locked!Next
<1>2. CASE ListEnds
  <2>1. \A th \in Thread : at[th] = "done" /\ at'[th] = "done"
    BY <1>2, ListThreads DEF ListEnds, Locked!Done, listVars
  <2>2. UNCHANGED listVars /\ test' = "queue"
    BY <1>2 DEF ListEnds
  <2> QED
    BY <2>1, <2>2, ListThreads DEF LockedInv, PlaceInv, AloneInv, ReadInv, Inside, listVars
<1>3. CASE OnQueue(Next)
  <2>1. test = "queue" /\ \A th \in Thread : at[th] = "done" /\ owner # {th}
    BY <1>3 DEF OnQueue, LockedInv, PlaceInv, AloneInv, Inside
  <2>2. CASE round' # round /\ main' = "run"
    <3>1. /\ test' = "list" /\ at' = Locked!Begin /\ made' = [th \in Pushers |-> 0]
          /\ UNCHANGED <<owner, list, view, loaded, value>>
      BY <1>3, <2>2 DEF OnQueue
    <3>2. DOMAIN view' = Thread /\ DOMAIN loaded' = Thread /\ \A th \in Thread : owner' # {th}
      BY <2>1, <3>1 DEF LockedInv, PlaceInv
    <3>3. \A th \in Thread : at'[th] = "lock"
      BY <3>1, ListThreads DEF Locked!Begin
    <3>4. PlaceInv'
      BY <3>1, <3>2, <3>3, ListThreads DEF PlaceInv, Locked!Begin
    <3> QED
      BY <3>2, <3>3, <3>4, ListThreads DEF LockedInv, AloneInv, ReadInv, Inside
  <2>3. CASE ~ (round' # round /\ main' = "run")
    <3>1. UNCHANGED listVars /\ test' = "queue"
      BY <1>3, <2>1, <2>3 DEF OnQueue
    <3> QED
      BY <2>1, <3>1, ListThreads DEF LockedInv, PlaceInv, AloneInv, ReadInv, Inside, listVars
  <2> QED
    BY <2>2, <2>3
<1>4. CASE UNCHANGED wholeVars
  BY <1>4 DEF wholeVars, vars, countVars, listVars, LockedInv, PlaceInv, AloneInv, ReadInv, Inside
<1> QED
  BY <1>1, <1>2, <1>3, <1>4 DEF WholeNext

(* A popper that has called front() and not yet written the list. *)
Popping == \E c \in Poppers : at[c] \in {"read", "write"}

LEMMA ContentsOfList ==
  /\ Locked!Contents = IF Popping THEN Tail(list) ELSE list
  /\ Locked!Contents' = IF Popping' THEN Tail(list') ELSE list'
BY DEF Locked!Contents, Popping

LEMMA ListPushFifo ==
  ASSUME LockedInv, NEW th \in Pushers, Locked!Push(th)
  PROVE  [Locked!Fifo!Next]_(Locked!Fifo!vars)
<1> USE ListThreads DEF Locked!Moves, Locked!counts, Locked!locals
<1>t. at \in [Thread -> {"lock", "load", "store", "read", "write", "size", "front",
                         "unlock", "check", "done"}]
  BY DEF LockedInv, PlaceInv
<1>1. CASE Locked!PushBack(th)
  <2>1. at[th] = "write" /\ list' = Append(list, made[th]) /\ value' = value
        /\ at' = [at EXCEPT ![th] = "unlock"]
    BY <1>1 DEF Locked!PushBack, LockedInv, ReadInv
  <2>2. ~Popping
    BY <2>1 DEF LockedInv, AloneInv, Inside, Popping
  <2>3. ~Popping'
    BY <1>t, <2>1, <2>2 DEF Popping
  <2>4. made[th] \in 0 .. Count - 1
    BY <2>1 DEF LockedInv, PlaceInv
  <2>5. Locked!Contents' = Append(Locked!Contents, made[th])
    BY <2>1, <2>2, <2>3, ContentsOfList
  <2>6. Locked!Fifo!Push(made[th])
    BY <2>1, <2>5 DEF Locked!Fifo!Push
  <2> QED
    BY <2>4, <2>6 DEF Locked!Fifo!Next
<1>2. CASE ~ Locked!PushBack(th)
  <2>1. UNCHANGED <<list, value>> /\ \E place : at' = [at EXCEPT ![th] = place]
    BY <1>2 DEF Locked!Push, Locked!Lock, Locked!Load, Locked!Read, Locked!CountPush,
                Locked!UnlockPush, Locked!Unlock
  <2>2. Popping' = Popping
    BY <1>t, <2>1 DEF Popping
  <2> QED
    BY <2>1, <2>2, ContentsOfList DEF Locked!Fifo!vars
<1> QED
  BY <1>1, <1>2

LEMMA ListPopFifo ==
  ASSUME LockedInv, NEW th \in Poppers, Locked!Pop(th)
  PROVE  [Locked!Fifo!Next]_(Locked!Fifo!vars)
<1> USE ListThreads DEF Locked!Moves, Locked!counts, Locked!locals
<1>t. at \in [Thread -> {"lock", "load", "store", "read", "write", "size", "front",
                         "unlock", "check", "done"}]
  BY DEF LockedInv, PlaceInv
<1>a. ASSUME Inside(th)
      PROVE  \A c \in Poppers : c # th => at[c] \notin {"read", "write"}
  BY <1>a DEF LockedInv, AloneInv, Inside
<1>1. CASE Locked!Front(th)
  <2>1. /\ at[th] = "front" /\ list # <<>> /\ at' = [at EXCEPT ![th] = "read"]
        /\ value' = [value EXCEPT ![th] = Head(list)] /\ list' = list
    BY <1>1 DEF Locked!Front, Locked!TakenFront, LockedInv, ReadInv
  <2>2. ~Popping /\ Popping'
    BY <1>t, <1>a, <2>1 DEF Popping, Inside
  <2>3. Locked!Contents = list /\ Locked!Contents' = Tail(list)
    BY <2>1, <2>2, ContentsOfList
  <2>4. Locked!Fifo!Pop(th)
    BY <2>1, <2>3 DEF Locked!Fifo!Pop
  <2> QED
    BY <2>4 DEF Locked!Fifo!Next
<1>2. CASE Locked!Size(th) /\ list = <<>>
  <2>1. /\ at[th] = "size" /\ at' = [at EXCEPT ![th] = "unlock"] /\ list' = list
        /\ value' = [value EXCEPT ![th] = Nothing]
    BY <1>2 DEF Locked!Size, Locked!AfterEmpty
  <2>2. ~Popping /\ ~Popping'
    BY <1>t, <1>a, <2>1 DEF Popping, Inside
  <2>3. Locked!Contents = <<>> /\ Locked!Contents' = <<>>
    BY <1>2, <2>1, <2>2, ContentsOfList
  <2>4. Locked!Fifo!Empty(th)
    BY <2>1, <2>3 DEF Locked!Fifo!Empty
  <2> QED
    BY <2>4 DEF Locked!Fifo!Next
<1>3. CASE Locked!PopFront(th)
  <2>1. /\ at[th] = "write" /\ list' = Tail(list) /\ at' = [at EXCEPT ![th] = "load"]
        /\ value' = value
    BY <1>3 DEF Locked!PopFront, LockedInv, ReadInv
  <2>2. Popping /\ ~Popping'
    BY <1>t, <1>a, <2>1 DEF Popping, Inside
  <2> QED
    BY <2>1, <2>2, ContentsOfList DEF Locked!Fifo!vars
<1>4. CASE Locked!Read(th)
  <2>1. /\ at[th] = "read" /\ at' = [at EXCEPT ![th] = "write"] /\ UNCHANGED <<list, value>>
    BY <1>4 DEF Locked!Read
  <2>2. Popping /\ Popping'
    BY <1>t, <2>1 DEF Popping
  <2> QED
    BY <2>1, <2>2, ContentsOfList DEF Locked!Fifo!vars
<1>5. CASE \/ Locked!Lock(th) \/ (Locked!Size(th) /\ list # <<>>)
           \/ Locked!Load(th, s_count_pop) \/ Locked!CountPop(th)
           \/ Locked!UnlockPop(th) \/ Locked!Check(th)
  <2>1. /\ at[th] \notin {"read", "write"} /\ UNCHANGED <<list, value>>
        /\ \E place : place \notin {"read", "write"} /\ at' = [at EXCEPT ![th] = place]
    BY <1>5 DEF Locked!Lock, Locked!Size, Locked!Load, Locked!CountPop, Locked!UnlockPop,
                Locked!Unlock, Locked!Check
  <2>2. Popping' = Popping
    BY <1>t, <2>1 DEF Popping
  <2> QED
    BY <2>1, <2>2, ContentsOfList DEF Locked!Fifo!vars
<1> QED
  BY <1>1, <1>2, <1>3, <1>4, <1>5 DEF Locked!Pop

LEMMA ListStepFifo ==
  ASSUME LockedInv, [WholeNext]_wholeVars
  PROVE  [Locked!Fifo!Next]_(Locked!Fifo!vars)
<1>1. ASSUME UNCHANGED <<list, value>>, ~Popping, ~Popping'
      PROVE  UNCHANGED Locked!Fifo!vars
  BY <1>1, ContentsOfList DEF Locked!Fifo!vars
<1>2. ASSUME UNCHANGED <<list, value, at>>
      PROVE  UNCHANGED Locked!Fifo!vars
  BY <1>2 DEF Locked!Fifo!vars, Locked!Contents
<1>3. CASE OnList(Locked!Next)
  BY <1>3, ListPushFifo, ListPopFifo DEF OnList, Locked!Next
<1>4. CASE ListEnds \/ UNCHANGED wholeVars
  BY <1>2, <1>4 DEF ListEnds, wholeVars, listVars
<1>5. CASE OnQueue(Next)
  <2>1. CASE round' # round /\ main' = "run"
    <3>1. test = "queue" /\ at' = Locked!Begin /\ UNCHANGED <<list, value>>
      BY <1>5, <2>1 DEF OnQueue
    <3>2. ~Popping /\ ~Popping'
      BY <3>1, ListThreads DEF Popping, LockedInv, PlaceInv, Locked!Begin
    <3> QED
      BY <1>1, <3>1, <3>2
  <2>2. CASE ~ (round' # round /\ main' = "run")
    BY <1>2, <1>5, <2>2 DEF OnQueue, listVars
  <2> QED
    BY <2>1, <2>2
<1> QED
  BY <1>3, <1>4, <1>5 DEF WholeNext

LEMMA LockedBegins == WholeInit => LockedInv
<1> SUFFICES ASSUME WholeInit PROVE LockedInv
  OBVIOUS
<1>1. /\ at = Locked!Begin /\ made = [th \in Pushers |-> 0] /\ test = "list" /\ owner = {}
      /\ view = [th \in Thread |-> <<>>] /\ loaded = [th \in Thread |-> 0]
  BY ListThreads DEF WholeInit, Locked!Init
<1> QED
  BY <1>1, ListBegins

\* mutex_thread_push and mutex_thread_pop are a FIFO queue for any number of
\* threads, although their calls read the list and write it in separate steps:
\* an element comes in when push_back has written it and is out when front()
\* has read it, and only a popper that finds the list empty gets nothing.
THEOREM LockedListIsFifo == WholeSpec => ListImplementsFifo
<1>1. WholeInit => Locked!Fifo!Init
  <2> SUFFICES ASSUME WholeInit PROVE Locked!Fifo!Init
    OBVIOUS
  <2>1. list = <<>> /\ value = [th \in Poppers |-> Nothing] /\ at = Locked!Begin
    BY DEF WholeInit, Locked!Init
  <2>2. ~Popping
    BY <2>1, ListThreads DEF Popping, Locked!Begin
  <2> QED
    BY <2>1, <2>2, ContentsOfList DEF Locked!Fifo!Init
<1> QED
  BY <1>1, LockedBegins, LockedStep, ListStepFifo, PTL
  DEF WholeSpec, ListImplementsFifo, Locked!Fifo!Spec

-----------------------------------------------------------------------------
(***************************************************************************)
(* Both tests in turn, for one pusher and one popper.  What was counted is *)
(* in the list, or the thread in between will set it right.                *)
(***************************************************************************)
AddsTo(u) == IF at[u] \in {"read", "write", "unlock"} THEN made[u] + 1 ELSE made[u]

Counted(u, c) ==
  /\ at[u] = "done" => made[u] = Count
  /\ s_count_push = AddsTo(u)
  /\ s_count_push = Len(list) + s_count_pop
       + (IF at[u] \in {"read", "write"} THEN 1 ELSE 0)
       + (IF at[c] \in {"load", "store"} THEN 1 ELSE 0)
  /\ at[c] = "done" => s_count_pop >= Count

ListInv ==
  /\ LockedInv
  /\ list \in Seq(Element)
  /\ test = "queue" => list = <<>>
  /\ test = "list" => \A u \in Pushers, c \in Poppers : Counted(u, c)

(* While the list is tested the queue stands where a round begins. *)
WholeInv ==
  /\ TypeOK /\ QueueInv /\ DestroyInv /\ ListInv
  /\ test \in {"list", "queue"}
  /\ IF test = "queue" THEN CountInv ELSE AtStart

LEMMA ListPusherKeeps ==
  ASSUME NEW u, NEW c, Pushers = {u}, Poppers = {c}, LockedInv, list \in Seq(Element),
         s_count_push \in Nat, s_count_pop \in Nat, Counted(u, c), Locked!Push(u)
  PROVE  Counted(u, c)' /\ list' \in Seq(Element) /\ s_count_push' \in 0 .. Count /\ s_count_pop' = s_count_pop
<1>1. u # c /\ Thread = {u, c} /\ Count \in Nat \ {0}
  BY Pair
<1>2. /\ at[u] # "done" => made[u] \in 0 .. Count - 1
      /\ made[u] \in 0 .. Count
      /\ at \in [Thread -> {"lock", "load", "store", "read", "write", "size", "front",
                            "unlock", "check", "done"}]
      /\ made \in [Pushers -> 0 .. Count]
      /\ at[u] = "store" => loaded[u] = s_count_push
      /\ at[u] = "write" => view[u] = list
  BY <1>1 DEF LockedInv, PlaceInv, ReadInv
<1>3. Len(list) \in Nat
  BY LenProperties
<1> USE <1>1, <1>2, <1>3 DEF Locked!Moves, Locked!counts, Locked!locals, Counted, AddsTo
<1>4. CASE Locked!Lock(u)
  BY <1>4 DEF Locked!Lock
<1>5. CASE Locked!Load(u, s_count_push)
  BY <1>5 DEF Locked!Load
<1>8. CASE Locked!CountPush(u)
  BY <1>8 DEF Locked!CountPush
<1>9. CASE Locked!Read(u)
  BY <1>9 DEF Locked!Read
<1>6. CASE Locked!PushBack(u)
  <2>1. at[u] = "write" /\ list' = Append(list, made[u]) /\ made[u] \in Element
    BY <1>6 DEF Locked!PushBack, Element
  <2>2. list' \in Seq(Element) /\ Len(list') = Len(list) + 1
    BY <2>1, AppendProperties
  <2> QED
    BY <1>6, <2>2 DEF Locked!PushBack
<1>7. CASE Locked!UnlockPush(u)
  BY <1>7 DEF Locked!UnlockPush, Locked!Unlock
<1> QED
  BY <1>4, <1>5, <1>6, <1>7, <1>8, <1>9 DEF Locked!Push

LEMMA SameTotal == Locked!Total = Total
<1>1. Locked!Cardinality(Pushers) = Cardinality(Pushers)
  BY DEF Locked!Cardinality, Cardinality
<1> QED
  BY <1>1 DEF Locked!Total, Total

LEMMA ListPopperKeeps ==
  ASSUME NEW u, NEW c, Pushers = {u}, Poppers = {c}, LockedInv, list \in Seq(Element),
         s_count_push \in 0 .. Count, s_count_pop \in Nat, Counted(u, c), Locked!Pop(c)
  PROVE  Counted(u, c)' /\ list' \in Seq(Element) /\ s_count_push' = s_count_push /\ s_count_pop' \in 0 .. Count
<1>1. u # c /\ Thread = {u, c} /\ Count \in Nat \ {0} /\ Locked!Total = Count
  BY Pair, SameTotal
<1>2. Len(list) \in Nat
  BY LenProperties
<1>3. s_count_pop \in 0 .. Count /\ (at[c] \in {"load", "store"} => s_count_pop + 1 \in 0 .. Count)
  BY <1>1, <1>2 DEF Counted
<1>a. at[c] = "write" => ~Inside(u)
  BY <1>1 DEF LockedInv, AloneInv, Inside
<1>t. /\ at \in [Thread -> {"lock", "load", "store", "read", "write", "size", "front",
                            "unlock", "check", "done"}]
      /\ at[c] = "store" => loaded[c] = s_count_pop
      /\ at[c] = "write" => view[c] = list /\ at[u] \notin {"read", "write"}
  BY <1>1, <1>a DEF LockedInv, PlaceInv, Inside, ReadInv
<1> USE <1>1, <1>2, <1>3, <1>t DEF Locked!Moves, Locked!counts, Locked!locals, Counted, AddsTo
<1>4. CASE Locked!Lock(c)
  BY <1>4 DEF Locked!Lock
<1>5. CASE Locked!Size(c)
  BY <1>5 DEF Locked!Size, Locked!AfterEmpty
<1>9. CASE Locked!Front(c)
  BY <1>9 DEF Locked!Front
<1>10. CASE Locked!Read(c)
  BY <1>10 DEF Locked!Read
<1>11. CASE Locked!PopFront(c)
  <2>1. /\ at[c] = "write" /\ list' = Tail(list) /\ at' = [at EXCEPT ![c] = "load"]
        /\ UNCHANGED <<made, s_count_push, s_count_pop>>
    BY <1>11 DEF Locked!PopFront
  <2>2. list # <<>>
    BY <2>1 DEF LockedInv, ReadInv
  <2>3. list' \in Seq(Element) /\ Len(list') = Len(list) - 1
    BY <2>1, <2>2, HeadTailProperties
  <2> QED
    BY <2>1, <2>3
<1>12. CASE Locked!Load(c, s_count_pop)
  BY <1>12 DEF Locked!Load
<1>6. CASE Locked!CountPop(c)
  BY <1>6 DEF Locked!CountPop
<1>7. CASE Locked!UnlockPop(c)
  BY <1>7 DEF Locked!UnlockPop, Locked!Unlock
<1>8. CASE Locked!Check(c)
  BY <1>8 DEF Locked!Check
<1> QED
  BY <1>4, <1>5, <1>6, <1>7, <1>8, <1>9, <1>10, <1>11, <1>12 DEF Locked!Pop

-----------------------------------------------------------------------------
(***************************************************************************)
(* Steps of the whole program.                                             *)
(***************************************************************************)
LEMMA QueueUntouched ==
  ASSUME UNCHANGED queueOnly
  PROVE  /\ QueueInv => QueueInv'
         /\ DestroyInv => DestroyInv'
         /\ AtStart => AtStart'
         /\ TypeOK /\ s_count_push' \in 0 .. Total /\ s_count_pop' \in 0 .. Total => TypeOK'
<1> USE DEF queueOnly, mainVars, heapVars, queueVars, pushVars, popVars
<1>1. ChainInv' = ChainInv /\ Linked' = Linked
  BY DEF ChainInv, Linked
<1>2. NodesInv' = NodesInv
  BY <1>1 DEF NodesInv, Made, Held, MakesNode, HoldsNode
<1>3. (\A u \in Pushers : PusherInv(u))' = (\A u \in Pushers : PusherInv(u))
  BY DEF PusherInv, MakesNode, Last
<1>4. (\A c \in Poppers : PopperInv(c))' = (\A c \in Poppers : PopperInv(c))
  BY DEF PopperInv, HoldsNode
<1>5. QueueInv => QueueInv'
  BY <1>1, <1>2, <1>3, <1>4 DEF QueueInv
<1>6. DestroyInv => DestroyInv'
  BY DEF DestroyInv, Joined
<1>7. AtStart => AtStart'
  BY DEF AtStart
<1>8. TypeOK /\ s_count_push' \in 0 .. Total /\ s_count_pop' \in 0 .. Total => TypeOK'
  BY DEF TypeOK
<1> QED
  BY <1>5, <1>6, <1>7, <1>8

LEMMA StartCounts ==
  ASSUME NEW u, NEW c, Pushers = {u}, Poppers = {c},
         AtStart', s_count_push' = 0, s_count_pop' = 0
  PROVE  CountInv'
<1>1. u # c /\ Thread = {u, c} /\ Count \in Nat \ {0}
  BY Pair
<1>2. pc'[u] = "new" /\ pc'[c] = "head" /\ i'[u] = 0 /\ Len(chain)' = 1
  BY <1>1 DEF AtStart, Start
<1> QED
  BY <1>2 DEF CountInv, Taken, Given

LEMMA ListSteps ==
  ASSUME OnePair, WholeInv, OnList(Locked!Next), LockedInv'
  PROVE  WholeInv'
<1>1. PICK u, c : Pushers = {u} /\ Poppers = {c}
  BY DEF OnePair
<1>2. u # c /\ Thread = {u, c} /\ Total = Count /\ Count \in Nat \ {0}
  BY <1>1, Pair
<1>3. /\ test = "list" /\ test' = "list" /\ UNCHANGED queueOnly
      /\ Locked!Push(u) \/ Locked!Pop(c)
  BY <1>1 DEF OnList, Locked!Next
<1>4. /\ s_count_push \in 0 .. Count /\ s_count_pop \in 0 .. Count
      /\ LockedInv /\ list \in Seq(Element) /\ Counted(u, c)
  BY <1>1, <1>2, <1>3 DEF WholeInv, TypeOK, ListInv
<1>5. /\ Counted(u, c)' /\ list' \in Seq(Element)
      /\ s_count_push' \in 0 .. Count /\ s_count_pop' \in 0 .. Count
  <2>1. CASE Locked!Push(u)
    BY <1>1, <1>4, <2>1, ListPusherKeeps
  <2>2. CASE Locked!Pop(c)
    BY <1>1, <1>4, <2>2, ListPopperKeeps
  <2> QED
    BY <1>3, <2>1, <2>2
<1>6. ListInv'
  BY <1>1, <1>3, <1>5 DEF ListInv
<1> QED
  BY <1>2, <1>3, <1>5, <1>6, QueueUntouched DEF WholeInv

LEMMA ListIsDone ==
  ASSUME OnePair, WholeInv, ListEnds, LockedInv'
  PROVE  WholeInv'
<1>1. PICK u, c : Pushers = {u} /\ Poppers = {c}
  BY DEF OnePair
<1>2. u # c /\ Thread = {u, c} /\ Total = Count /\ Count \in Nat \ {0}
  BY <1>1, Pair
<1>3. /\ test = "list" /\ test' = "queue" /\ s_count_push' = 0 /\ s_count_pop' = 0
      /\ UNCHANGED queueOnly /\ UNCHANGED listVars
  BY DEF ListEnds
<1>4. Counted(u, c) /\ list \in Seq(Element) /\ s_count_pop \in Nat
  BY <1>1, <1>3 DEF WholeInv, ListInv, TypeOK
<1>5. at[u] = "done" /\ at[c] = "done"
  BY <1>1 DEF ListEnds, Locked!Done, Locked!Thread
<1>6. list = <<>>
  <2>1. Len(list) + s_count_pop = Count /\ s_count_pop >= Count /\ Len(list) \in Nat
    BY <1>2, <1>4, <1>5, LenProperties DEF Counted, AddsTo
  <2>2. Len(list) = 0
    BY <1>2, <1>4, <2>1
  <2> QED
    BY <1>4, <2>2, EmptySeq
<1>7. ListInv'
  BY <1>3, <1>4, <1>6 DEF ListInv, listVars
<1>8. AtStart'
  BY <1>3, QueueUntouched DEF WholeInv
<1>9. CountInv'
  BY <1>1, <1>3, <1>8, StartCounts
<1>10. TypeOK' /\ QueueInv' /\ DestroyInv'
  BY <1>2, <1>3, QueueUntouched DEF WholeInv
<1> QED
  BY <1>3, <1>7, <1>9, <1>10 DEF WholeInv

LEMMA QueueSteps ==
  ASSUME OnePair, WholeInv, OnQueue(Next), LockedInv'
  PROVE  WholeInv'
<1>1. PICK u, c : Pushers = {u} /\ Poppers = {c}
  BY DEF OnePair
<1>2. u # c /\ Thread = {u, c} /\ Count \in Nat \ {0}
  BY <1>1, Pair
<1>3. test = "queue" /\ Next /\ list = <<>> /\ QInv
  BY DEF OnQueue, WholeInv, ListInv, QInv
<1>4. QInv'
  BY <1>3, QueueStep
<1>5. CASE round' # round /\ main' = "run"
  <2>1. /\ test' = "list" /\ at' = Locked!Begin /\ made' = [th \in Pushers |-> 0]
        /\ list' = <<>>
    BY <1>3, <1>5 DEF OnQueue
  <2>2. NextRound
    BY <1>3, <1>5 DEF Next, push2, pop2, MainStep, NewNode, ReadTail, ReadOldTail, Walk, Advance, Link,
       SwingTail, CountPush, ReadHead, TestNext, ReadNext, Unlink, Fetch, ReadData, DeleteNode,
       LoadCount, StoreCount, CheckCount, DeleteHead, Exit, mainVars
  <2>3. AtStart' /\ s_count_push' = 0 /\ s_count_pop' = 0
    BY <1>1, <1>3, <1>5, <2>2, NextRoundKeeps
  <2>4. at'[u] = "lock" /\ at'[c] = "lock" /\ made'[u] = 0
    BY <1>1, <2>1 DEF Locked!Begin, Locked!Thread
  <2>5. list' \in Seq(Element) /\ Len(list') = 0
    BY <2>1, EmptySeq
  <2>6. Counted(u, c)'
    BY <1>2, <2>3, <2>4, <2>5 DEF Counted, AddsTo
  <2>7. ListInv'
    BY <1>1, <2>1, <2>5, <2>6 DEF ListInv
  <2> QED
    BY <1>4, <2>1, <2>3, <2>7 DEF QInv, WholeInv
<1>6. CASE ~ (round' # round /\ main' = "run")
  <2>1. test' = "queue" /\ UNCHANGED listVars
    BY <1>3, <1>6 DEF OnQueue
  <2>2. ListInv'
    BY <1>3, <2>1, EmptySeq DEF ListInv, listVars
  <2> QED
    BY <1>4, <2>1, <2>2 DEF QInv, WholeInv
<1> QED
  BY <1>5, <1>6

LEMMA WholeBegins ==
  ASSUME OnePair, WholeInit
  PROVE  WholeInv
<1>1. PICK u, c : Pushers = {u} /\ Poppers = {c}
  BY DEF OnePair
<1>2. u # c /\ Thread = {u, c} /\ Count \in Nat \ {0}
  BY <1>1, Pair
<1>3. QInv /\ AtStart /\ s_count_push = 0 /\ s_count_pop = 0
  BY QueueBegins DEF WholeInit
<1>4. /\ test = "list" /\ at = Locked!Begin /\ made = [th \in Pushers |-> 0] /\ list = <<>> /\ owner = {}
  BY DEF WholeInit, Locked!Init
<1>5. at[u] = "lock" /\ at[c] = "lock" /\ made[u] = 0 /\ Len(list) = 0 /\ list \in Seq(Element)
  BY <1>1, <1>4, EmptySeq DEF Locked!Begin, Locked!Thread
<1>6. Counted(u, c)
  BY <1>2, <1>3, <1>5 DEF Counted, AddsTo
<1>7. ListInv
  BY <1>1, <1>4, <1>5, <1>6, LockedBegins DEF ListInv
<1> QED
  BY <1>3, <1>4, <1>7 DEF QInv, WholeInv

LEMMA WholeStep ==
  ASSUME OnePair, WholeInv, [WholeNext]_wholeVars
  PROVE  WholeInv'
<1>1. LockedInv'
  BY LockedStep DEF WholeInv, ListInv
<1>2. CASE OnList(Locked!Next)
  BY <1>1, <1>2, ListSteps
<1>3. CASE ListEnds
  BY <1>1, <1>3, ListIsDone
<1>4. CASE OnQueue(Next)
  BY <1>1, <1>4, QueueSteps
<1>5. CASE UNCHANGED wholeVars
  <2>1. UNCHANGED queueOnly /\ UNCHANGED <<test, listVars, s_count_push, s_count_pop>>
    BY <1>5 DEF wholeVars, vars, queueOnly, countVars
  <2>2. QueueInv' /\ DestroyInv' /\ TypeOK' /\ (AtStart => AtStart')
    BY <2>1, QueueUntouched DEF WholeInv, TypeOK
  <2>3. CountInv => CountInv'
    BY <2>1 DEF CountInv, Taken, Given, queueOnly, mainVars, queueVars, pushVars, popVars
  <2>4. ListInv'
    BY <1>1, <2>1 DEF WholeInv, ListInv, Counted, AddsTo, listVars
  <2> QED
    BY <2>1, <2>2, <2>3, <2>4 DEF WholeInv
<1> QED
  BY <1>2, <1>3, <1>4, <1>5 DEF WholeNext

-----------------------------------------------------------------------------
(***************************************************************************)
(* What the invariant implies.                                             *)
(***************************************************************************)
LEMMA StartTouchesNothing ==
  ASSUME OnePair, AtStart
  PROVE  ~ Joined /\ \A th \in Thread : ~ Dereferences(th)
<1>1. PICK u, c : Pushers = {u} /\ Poppers = {c}
  BY DEF OnePair
<1>2. u # c /\ Thread = {u, c}
  BY <1>1, Pair
<1>3. \A th \in Thread : pc[th] \in {"new", "head"}
  BY DEF AtStart, Start
<1> QED
  BY <1>2, <1>3 DEF Joined, Dereferences

LEMMA WholeAccessesLive ==
  ASSUME OnePair, WholeInv
  PROVE  NoDanglingAccess
<1>1. CASE test = "queue"
  <2>1. QInv
    BY <1>1 DEF WholeInv, QInv
  <2> QED
    BY <2>1, AccessesLive
<1>2. CASE test = "list"
  BY <1>2, StartTouchesNothing DEF WholeInv, NoDanglingAccess
<1> QED
  BY <1>1, <1>2 DEF WholeInv

LEMMA WholeChainIsLive ==
  ASSUME WholeInv
  PROVE  ChainLinked
BY DEF WholeInv, QueueInv, ChainInv, NodesInv, Linked, ChainLinked

LEMMA WholeLeavesEmpty ==
  ASSUME OnePair, WholeInv
  PROVE  TestsLeaveEmpty
<1>1. PICK u, c : Pushers = {u} /\ Poppers = {c}
  BY DEF OnePair
<1>2. CASE test = "queue"
  <2>1. QInv
    BY <1>2 DEF WholeInv, QInv
  <2> QED
    BY <1>2, <2>1, LeavesEmpty DEF TestsLeaveEmpty
<1>3. CASE test = "list"
  <2>1. RoundLeavesEmpty
    <3>1. main = "run" /\ ~ Joined
      BY <1>3, StartTouchesNothing DEF WholeInv, AtStart
    <3> QED
      BY <3>1 DEF RoundLeavesEmpty
  <2>2. Counted(u, c) /\ LockedInv /\ list \in Seq(Element) /\ s_count_pop \in Nat /\ s_count_push \in Nat
    BY <1>1, <1>3 DEF WholeInv, ListInv, TypeOK
  <2>3. Len(list) \in Nat /\ Count \in Nat
    BY <2>2, LenProperties, QueueAssumption
  <2>4. owner = {} => s_count_push = Len(list) + s_count_pop
    <3>1. owner = {} => at[u] \notin {"read", "write"} /\ at[c] \notin {"load", "store"}
      BY <1>1, <2>2, ListThreads DEF LockedInv, AloneInv, Inside
    <3>2. s_count_push = Len(list) + s_count_pop
            + (IF at[u] \in {"read", "write"} THEN 1 ELSE 0)
            + (IF at[c] \in {"load", "store"} THEN 1 ELSE 0)
      BY <2>2 DEF Counted
    <3>3. s_count_pop \in Nat /\ Len(list) \in Nat
      BY <2>2, <2>3
    <3> QED
      BY <3>1, <3>2, <3>3
  <2>5. ASSUME at[c] = "done"
        PROVE  list = <<>>
    <3>1. made[u] \in 0 .. Count /\ (at[u] # "done" => made[u] < Count)
      BY <1>1, <2>2 DEF LockedInv, PlaceInv
    <3>2. AddsTo(u) <= Count /\ AddsTo(u) \in Nat
      BY <2>3, <3>1 DEF AddsTo
    <3>3. s_count_push <= Count /\ s_count_pop >= Count
      BY <2>2, <2>5, <3>2 DEF Counted
    <3>4. Len(list) + s_count_pop <= s_count_push
      BY <2>2, <2>3 DEF Counted
    <3>5. Len(list) = 0
      BY <2>2, <2>3, <3>3, <3>4
    <3> QED
      BY <2>2, <3>5, EmptySeq
  <2> QED
    BY <1>1, <2>1, <2>4, <2>5 DEF TestsLeaveEmpty
<1> QED
  BY <1>2, <1>3 DEF WholeInv

LEMMA WholeStepFifo ==
  ASSUME OnePair, WholeInv, [WholeNext]_wholeVars
  PROVE  [Fifo!Next]_(Fifo!vars)
<1>1. CASE UNCHANGED queueOnly
  <2>1. UNCHANGED <<chain, data, next, pc, p, n, e>>
    BY <1>1 DEF queueOnly, heapVars, queueVars, popVars
  <2>2. Contents' = Contents
    BY <2>1 DEF Contents
  <2>3. \A c \in Poppers : Result(c)' = Result(c)
    BY <2>1 DEF Result, FetchNext
  <2> QED
    BY <2>2, <2>3 DEF Fifo!vars, Contents
<1>2. CASE OnQueue(Next)
  <2>1. QInv /\ Next
    BY <1>2 DEF OnQueue, WholeInv, QInv
  <2> QED
    BY <2>1, QueueStepFifo
<1>3. OnList(Locked!Next) \/ ListEnds \/ UNCHANGED wholeVars => UNCHANGED queueOnly
  BY DEF OnList, ListEnds, wholeVars, vars, queueOnly
<1> QED
  BY <1>1, <1>2, <1>3 DEF WholeNext

LEMMA WholeInvariant ==
  ASSUME OnePair
  PROVE  WholeSpec => []WholeInv
<1>1. WholeInit => WholeInv
  BY WholeBegins
<1>2. WholeInv /\ [WholeNext]_wholeVars => WholeInv'
  BY WholeStep
<1> QED
  BY <1>1, <1>2, PTL DEF WholeSpec

-----------------------------------------------------------------------------
(***************************************************************************)
(* The theorems.                                                           *)
(***************************************************************************)

\* Both counts stay within what the pushers push: no pop is counted twice, in
\* either test, although s_count_pop++ is two accesses to memory.
THEOREM TypeCorrect == OnePair => (WholeSpec => []TypeOK)
<1> SUFFICES ASSUME OnePair PROVE WholeSpec => []TypeOK
  OBVIOUS
<1>1. WholeInv => TypeOK
  BY DEF WholeInv
<1> QED
  BY <1>1, WholeInvariant, PTL

\* push2 and pop2 read and write only nodes that are allocated, however delete
\* and new use the addresses again.
THEOREM AccessesAreLive == OnePair => (WholeSpec => []NoDanglingAccess)
<1> SUFFICES ASSUME OnePair PROVE WholeSpec => []NoDanglingAccess
  OBVIOUS
<1>1. WholeInv => NoDanglingAccess
  BY WholeAccessesLive
<1> QED
  BY <1>1, WholeInvariant, PTL

\* The compare-and-swaps of push2 and pop2 never break the list between _head
\* and its last node, nor delete a node of it.
THEOREM ChainHolds == OnePair => (WholeSpec => []ChainLinked)
<1> SUFFICES ASSUME OnePair PROVE WholeSpec => []ChainLinked
  OBVIOUS
<1>1. WholeInv => ChainLinked
  BY WholeChainIsLive
<1> QED
  BY <1>1, WholeInvariant, PTL

\* The poppers leave when all is popped and not before: after each test its
\* queue is empty, and ~Queue deletes the last node.
THEOREM EmptyAfterTests == OnePair => (WholeSpec => []TestsLeaveEmpty)
<1> SUFFICES ASSUME OnePair PROVE WholeSpec => []TestsLeaveEmpty
  OBVIOUS
<1>1. WholeInv => TestsLeaveEmpty
  BY WholeLeavesEmpty
<1> QED
  BY <1>1, WholeInvariant, PTL

\* push2 and pop2 are a FIFO queue whose calls take effect at one moment: when
\* the node is linked, when _head moves, and when nothing is seen after it.
THEOREM QueueIsFifo == OnePair => (WholeSpec => ImplementsFifo)
<1> SUFFICES ASSUME OnePair PROVE WholeSpec => ImplementsFifo
  OBVIOUS
<1>1. WholeInit => Fifo!Init
  BY QueueInitFifo DEF WholeInit
<1>2. WholeInv /\ [WholeNext]_wholeVars => [Fifo!Next]_(Fifo!vars)
  BY WholeStepFifo
<1> QED
  BY <1>1, <1>2, WholeInvariant, PTL DEF WholeSpec, ImplementsFifo, Fifo!Spec
=============================================================================
