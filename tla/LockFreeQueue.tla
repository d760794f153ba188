---------------------------- MODULE LockFreeQueue ----------------------------
(***************************************************************************)
(* The lock-free queue of 04锁与无锁/03无锁队列.cpp (push2, pop2) and the  *)
(* threads that test_queue runs on it.  The queue is a linked list: _head  *)
(* is a node without data, _tail a node near the end.  One action is one   *)
(* access to memory that other threads may write; compare-and-swap is one  *)
(* access.  A deleted node's address may be given out again by new at any  *)
(* time; until then its _next holds what the allocator has left there.  A  *)
(* step through a pointer to nowhere is not enabled: the program dies of it. *)
(***************************************************************************)
EXTENDS Integers, Sequences, FiniteSets

CONSTANTS
  Pushers, Poppers, \* the threads; MAX_THREAD_NUM of each
  Count,            \* FOR_LOOP_COUNT
  Rounds,           \* how often main repeats the test
  Node,             \* addresses of nodes
  Null,
  Wild,             \* an address where nothing is
  Leftovers         \* what delete may leave in the _next of a node

ASSUME QueueAssumption ==
  /\ Pushers \cap Poppers = {}
  /\ IsFiniteSet(Pushers) /\ IsFiniteSet(Poppers)
  /\ Count \in Nat \ {0}
  /\ Rounds \in Nat \ {0}
  /\ Null \notin Node /\ Wild \notin Node /\ Wild # Null
  /\ Leftovers \subseteq {Null, Wild} /\ Leftovers # {}

Thread  == Pushers \cup Poppers
Address == Node \cup {Null, Wild}
Element == 0 .. Count - 1
Nothing == -1               \* pop2 has returned false
Total   == Count * Cardinality(Pushers)

VARIABLES
  main,          \* main: "run" the threads, "destroy" the queue, "exited"
  round,         \* rounds completed
  pc,            \* where each thread stands
  next, data,    \* _next and _data of each node
  allocated,     \* nodes that are not deleted
  head, tail,    \* _head and _tail
  chain,         \* history: the nodes from _head to the last one
  p,             \* local p: the new node of a pusher, the head a popper has read
  t, old_t,      \* locals of push2
  n,             \* what a popper has read from p->_next
  i,             \* loop counter of a pusher
  e,             \* what the latest pop2 of a popper returned
  seen,          \* what a popper has read from s_count_pop
  s_count_push, s_count_pop

heapVars   == <<next, data, allocated>>
queueVars  == <<head, tail, chain>>
pushVars   == <<t, old_t, i>>
popVars    == <<n, e, seen>>
countVars  == <<s_count_push, s_count_pop>>
mainVars   == <<main, round>>
vars == <<mainVars, pc, heapVars, queueVars, p, pushVars, popVars, countVars>>

Start == [th \in Thread |-> IF th \in Pushers THEN "new" ELSE "head"]

(* Queue(): one node, without data. *)
Init ==
  /\ main = "run"
  /\ round = 0
  /\ pc = Start
  /\ \E first \in Node :
       /\ allocated = {first}
       /\ head = first
       /\ tail = first
       /\ chain = <<first>>
  /\ next = [a \in Node |-> Null]
  /\ data = [a \in Node |-> 0]
  /\ p = [th \in Thread |-> Null]
  /\ t = [th \in Pushers |-> Null]
  /\ old_t = [th \in Pushers |-> Null]
  /\ i = [th \in Pushers |-> 0]
  /\ n = [th \in Poppers |-> Null]
  /\ e = [th \in Poppers |-> Nothing]
  /\ seen = [th \in Poppers |-> 0]
  /\ s_count_push = 0
  /\ s_count_pop = 0

Moves(th, from, to) ==
  /\ main = "run"
  /\ pc[th] = from
  /\ pc' = [pc EXCEPT ![th] = to]

Last == chain[Len(chain)]

-----------------------------------------------------------------------------
(***************************************************************************)
(* push2, called by queue_free_thread_push.                                *)
(***************************************************************************)
(* new, and the stores to the new node, which nobody else can see yet.     *)
NewNode(th) ==
  /\ Moves(th, "new", "tail")
  /\ \E a \in Node \ allocated :
       /\ allocated' = allocated \cup {a}
       /\ next' = [next EXCEPT ![a] = Null]
       /\ data' = [data EXCEPT ![a] = i[th]]
       /\ p' = [p EXCEPT ![th] = a]
  /\ UNCHANGED <<mainVars, queueVars, pushVars, popVars, countVars>>

(* _tail is read twice, into t and into old_t. *)
ReadTail(th) ==
  /\ Moves(th, "tail", "old_tail")
  /\ t' = [t EXCEPT ![th] = tail]
  /\ UNCHANGED <<mainVars, heapVars, queueVars, p, old_t, i, popVars, countVars>>

ReadOldTail(th) ==
  /\ Moves(th, "old_tail", "walk")
  /\ old_t' = [old_t EXCEPT ![th] = tail]
  /\ UNCHANGED <<mainVars, heapVars, queueVars, p, t, i, popVars, countVars>>

(* while(t->_next != NULL) t = t->_next; *)
Walk(th) ==
  /\ t[th] \in Node
  /\ Moves(th, "walk", IF next[t[th]] = Null THEN "link" ELSE "advance")
  /\ UNCHANGED <<mainVars, heapVars, queueVars, p, pushVars, popVars, countVars>>

Advance(th) ==
  /\ t[th] \in Node
  /\ Moves(th, "advance", "walk")
  /\ t' = [t EXCEPT ![th] = next[t[th]]]
  /\ UNCHANGED <<mainVars, heapVars, queueVars, p, old_t, i, popVars, countVars>>

(* Compare-and-swap of t->_next from NULL to p. *)
Link(th) ==
  /\ t[th] \in Node
  /\ IF next[t[th]] = Null
       THEN /\ Moves(th, "link", "swing")
            /\ next' = [next EXCEPT ![t[th]] = p[th]]
            /\ chain' = IF t[th] = Last THEN Append(chain, p[th]) ELSE chain
       ELSE /\ Moves(th, "link", "walk")
            /\ UNCHANGED <<next, chain>>
  /\ UNCHANGED <<mainVars, data, allocated, head, tail, p, pushVars, popVars, countVars>>

(* Compare-and-swap of _tail from old_t to p; whether it succeeds is ignored. *)
(* At fault: _tail is left alone.                                          *)
TailKept(th)  == tail
TailAfter(th) == IF tail = old_t[th] THEN p[th] ELSE tail

SwingTail(th) ==
  /\ Moves(th, "swing", "count")
  /\ tail' = TailAfter(th)
  /\ UNCHANGED <<mainVars, heapVars, head, chain, p, pushVars, popVars, countVars>>

(* atomic_add(&s_count_push,1), and the loop; at fault: <= in place of <.  *)
OneMorePush(th) == i[th] + 1 <= Count
MorePushes(th)  == i[th] + 1 < Count

CountPush(th) ==
  /\ Moves(th, "count", IF MorePushes(th) THEN "new" ELSE "done")
  /\ s_count_push' = s_count_push + 1
  /\ i' = [i EXCEPT ![th] = @ + 1]
  /\ UNCHANGED <<mainVars, heapVars, queueVars, p, t, old_t, popVars, s_count_pop>>

-----------------------------------------------------------------------------
(***************************************************************************)
(* pop2, called by queue_free_thread_pop.                                  *)
(***************************************************************************)
ReadHead(th) ==
  /\ Moves(th, "head", "test")
  /\ p' = [p EXCEPT ![th] = head]
  /\ UNCHANGED <<mainVars, heapVars, queueVars, pushVars, popVars, countVars>>

(* No node after p: false, which is not counted. *)
TestNext(th) ==
  /\ p[th] \in Node
  /\ IF next[p[th]] = Null
       THEN Moves(th, "test", "check") /\ e' = [e EXCEPT ![th] = Nothing]
       ELSE Moves(th, "test", "next") /\ UNCHANGED e
  /\ UNCHANGED <<mainVars, heapVars, queueVars, p, pushVars, n, seen, countVars>>

(* p->_next is read again, as an argument of the compare-and-swap. *)
ReadNext(th) ==
  /\ p[th] \in Node
  /\ Moves(th, "next", "cas")
  /\ n' = [n EXCEPT ![th] = next[p[th]]]
  /\ UNCHANGED <<mainVars, heapVars, queueVars, p, pushVars, e, seen, countVars>>

(* Compare-and-swap of _head from p to p->_next. *)
Unlink(th) ==
  /\ IF head = p[th]
       THEN /\ Moves(th, "cas", "fetch")
            /\ head' = n[th]
            /\ chain' = IF Len(chain) > 1 /\ chain[2] = n[th] THEN Tail(chain) ELSE chain
       ELSE /\ Moves(th, "cas", "head")
            /\ UNCHANGED <<head, chain>>
  /\ UNCHANGED <<mainVars, heapVars, tail, p, pushVars, popVars, countVars>>

(* e = p->_next->_data: the node, then its data; at fault: p->_data.       *)
FetchSame(th) == p[th]
FetchNext(th) == next[p[th]]

Fetch(th) ==
  /\ p[th] \in Node
  /\ Moves(th, "fetch", "read")
  /\ n' = [n EXCEPT ![th] = FetchNext(th)]
  /\ UNCHANGED <<mainVars, heapVars, queueVars, p, pushVars, e, seen, countVars>>

ReadData(th) ==
  /\ n[th] \in Node
  /\ Moves(th, "read", "delete")
  /\ e' = [e EXCEPT ![th] = data[n[th]]]
  /\ UNCHANGED <<mainVars, heapVars, queueVars, p, pushVars, n, seen, countVars>>

(* delete p; at fault: delete n, as Queue::pop does.                       *)
DeletedNext(th) == {n[th]}
Deleted(th)     == {p[th]}

Freed(nodes) ==
  /\ allocated' = allocated \ nodes
  /\ \E left \in Leftovers :
       next' = [a \in Node |-> IF a \in nodes THEN left ELSE next[a]]

DeleteNode(th) ==
  /\ p[th] \in allocated
  /\ Moves(th, "delete", "load")
  /\ Freed(Deleted(th))
  /\ UNCHANGED <<mainVars, data, queueVars, p, pushVars, popVars, countVars>>

(* s_count_pop++ is not atomic. *)
LoadCount(th) ==
  /\ Moves(th, "load", "store")
  /\ seen' = [seen EXCEPT ![th] = s_count_pop]
  /\ UNCHANGED <<mainVars, heapVars, queueVars, p, pushVars, n, e, countVars>>

StoreCount(th) ==
  /\ Moves(th, "store", "check")
  /\ s_count_pop' = seen[th] + 1
  /\ UNCHANGED <<mainVars, heapVars, queueVars, p, pushVars, popVars, s_count_push>>

(* if(s_count_pop >= FOR_LOOP_COUNT*MAX_THREAD_NUM) break; at fault: too   *)
(* early, too late.                                                        *)
EnoughEarly == s_count_pop + 1 >= Total
EnoughLate  == s_count_pop > Total
Enough      == s_count_pop >= Total

CheckCount(th) ==
  /\ Moves(th, "check", IF Enough THEN "done" ELSE "head")
  /\ UNCHANGED <<mainVars, heapVars, queueVars, p, pushVars, popVars, countVars>>

-----------------------------------------------------------------------------
(***************************************************************************)
(* Accesses through pointers.                                              *)
(***************************************************************************)
Dereferences(th) ==
  pc[th] \in {"walk", "advance", "link", "test", "next", "fetch", "read", "delete"}

Target(th) == IF th \in Pushers THEN t[th]
              ELSE IF pc[th] = "read" THEN n[th] ELSE p[th]

-----------------------------------------------------------------------------
(***************************************************************************)
(* main: joins the threads and starts the next round, on the same queue    *)
(* and with new counts; in the end ~Queue deletes what is left.            *)
(***************************************************************************)
Joined == \A th \in Thread : pc[th] = "done"

NextRound ==
  /\ main = "run"
  /\ Joined
  /\ round' = round + 1
  /\ IF round + 1 < Rounds
       THEN /\ pc' = Start
            /\ i' = [th \in Pushers |-> 0]
            /\ s_count_push' = 0
            /\ s_count_pop' = 0
            /\ UNCHANGED main
       ELSE /\ main' = "destroy"
            /\ UNCHANGED <<pc, i, countVars>>
  /\ UNCHANGED <<heapVars, queueVars, p, t, old_t, popVars>>

DeleteHead ==
  /\ main = "destroy"
  /\ head # Null
  /\ head' = next[head]
  /\ Freed({head})
  /\ UNCHANGED <<mainVars, pc, data, tail, chain, p, pushVars, popVars, countVars>>

Exit ==
  /\ main = "destroy"
  /\ head = Null
  /\ main' = "exited"
  /\ UNCHANGED <<round, pc, heapVars, queueVars, p, pushVars, popVars, countVars>>

-----------------------------------------------------------------------------
push2(th) ==
  NewNode(th) \/ ReadTail(th) \/ ReadOldTail(th) \/ Walk(th) \/ Advance(th)
  \/ Link(th) \/ SwingTail(th) \/ CountPush(th)

pop2(th) ==
  ReadHead(th) \/ TestNext(th) \/ ReadNext(th) \/ Unlink(th) \/ Fetch(th)
  \/ ReadData(th) \/ DeleteNode(th) \/ LoadCount(th) \/ StoreCount(th) \/ CheckCount(th)

MainStep == NextRound \/ DeleteHead \/ Exit

Next ==
  \/ \E th \in Pushers : push2(th)
  \/ \E th \in Poppers : pop2(th)
  \/ MainStep

(* The scheduler runs every thread. *)
Fairness ==
  /\ \A th \in Pushers : WF_vars(push2(th))
  /\ \A th \in Poppers : WF_vars(pop2(th))
  /\ WF_vars(MainStep)

Spec == Init /\ [][Next]_vars /\ Fairness

-----------------------------------------------------------------------------
(***************************************************************************)
(* Properties.                                                             *)
(***************************************************************************)
(* Types of the variables. *)
TypeOK ==
  /\ main \in {"run", "destroy", "exited"}
  /\ round \in 0 .. Rounds
  /\ pc \in [Thread -> {"new", "tail", "old_tail", "walk", "advance", "link", "swing",
                        "count", "head", "test", "next", "cas", "fetch", "read", "delete",
                        "load", "store", "check", "done"}]
  /\ next \in [Node -> Address]
  /\ data \in [Node -> Element]
  /\ allocated \subseteq Node
  /\ head \in Address
  /\ tail \in Address
  /\ chain \in Seq(Node)
  /\ p \in [Thread -> Address]
  /\ t \in [Pushers -> Address]
  /\ old_t \in [Pushers -> Address]
  /\ n \in [Poppers -> Address]
  /\ i \in [Pushers -> 0 .. Count]
  /\ e \in [Poppers -> Element \cup {Nothing}]
  /\ seen \in [Poppers -> 0 .. Total]
  /\ s_count_push \in 0 .. Total
  /\ s_count_pop \in 0 .. Total

(* No thread follows a pointer to a node that has been deleted (144, 107), *)
(* although _tail may for a while point to one.                            *)
NoDanglingAccess ==
  main = "run" => \A th \in Thread : Dereferences(th) => Target(th) \in allocated

(* The list is never broken or cut: from _head to its end it consists of   *)
(* live nodes.                                                             *)
ChainLinked ==
  main = "run" =>
    /\ chain # <<>>
    /\ head = chain[1]
    /\ \A k \in 1 .. Len(chain) :
         /\ chain[k] \in allocated
         /\ next[chain[k]] = IF k = Len(chain) THEN Null ELSE chain[k + 1]

(* When the threads have been joined the queue is empty, _tail is back at  *)
(* _head and all nodes but this one are deleted; ~Queue deletes it.        *)
RoundLeavesEmpty ==
  /\ main = "run" /\ Joined => Len(chain) = 1 /\ tail = head /\ allocated = {head}
  /\ main = "exited" => allocated = {}

(* Every round ends: the poppers get all they wait for. *)
RoundsEnd == <>(main = "exited")

(* push2 and pop2 are a queue: a push takes effect when it links its node, *)
(* a pop when it moves _head, or when it finds nothing after it.           *)
Result(c) ==
  IF pc[c] = "fetch" THEN data[FetchNext(c)]
  ELSE IF pc[c] = "read" THEN data[n[c]] ELSE e[c]

Fifo == INSTANCE FifoQueue WITH
  Elements  <- Element,
  Consumers <- Poppers,
  queue     <- [k \in 1 .. Len(chain) - 1 |-> data[chain[k + 1]]],
  result    <- [c \in Poppers |-> Result(c)]

ImplementsFifo == Fifo!Spec
=============================================================================
