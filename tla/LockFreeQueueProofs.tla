-------------------------- MODULE LockFreeQueueProofs --------------------------
(***************************************************************************)
(* Proofs about LockFreeQueue with one pusher and one popper, as they are  *)
(* shipped (MAX_THREAD_NUM is 1), for any number of elements, rounds and   *)
(* addresses.  QueueTestProofs draws the theorems from them.               *)
(***************************************************************************)
EXTENDS LockFreeQueue, SequenceTheorems, NatLemmas

(* MAX_THREAD_NUM (10). *)
OnePair == \E u, c : Pushers = {u} /\ Poppers = {c}

(***************************************************************************)
(* The invariant of the queue.  A node that is allocated is in the chain,  *)
(* is new and not linked yet, or was taken off the chain and is not        *)
(* deleted yet.                                                            *)
(***************************************************************************)
Linked == {chain[k] : k \in 1 .. Len(chain)}

MakesNode(u) == pc[u] \in {"tail", "old_tail", "walk", "link"}
HoldsNode(c) == pc[c] \in {"fetch", "read", "delete"}

Made == {p[u] : u \in {v \in Pushers : MakesNode(v)}}
Held == {p[c] : c \in {d \in Poppers : HoldsNode(d)}}

(* The chain, which passes through no node twice. *)
ChainInv ==
  /\ chain \in Seq(Node) /\ chain # <<>> /\ head = chain[1]
  /\ \A j, k \in 1 .. Len(chain) : chain[j] = chain[k] => j = k
  /\ \A k \in 1 .. Len(chain) : next[chain[k]] = IF k = Len(chain) THEN Null ELSE chain[k + 1]

NodesInv ==
  /\ allocated = Linked \cup Made \cup Held
  /\ Linked \cap Made = {} /\ Linked \cap Held = {} /\ Made \cap Held = {}

(* A pusher: nobody else moves _tail or links a node, so what it has read  *)
(* of them is still true, whatever the popper does.                        *)
PusherInv(u) ==
  /\ pc[u] \in {"new", "tail", "old_tail", "walk", "link", "swing", "count", "done"}
  /\ IF pc[u] = "done" THEN i[u] = Count ELSE i[u] < Count
  /\ MakesNode(u) => p[u] \in Node /\ next[p[u]] = Null /\ data[p[u]] = i[u]
  /\ pc[u] \in {"old_tail", "walk", "link"} => t[u] = Last
  /\ pc[u] \in {"walk", "link", "swing"} => old_t[u] = tail
  /\ IF pc[u] = "swing" THEN p[u] = Last ELSE tail = Last

(* A popper: nobody else moves _head, and the node behind it stays. *)
PopperInv(c) ==
  /\ pc[c] \in {"head", "test", "next", "cas", "fetch", "read", "delete",
                "load", "store", "check", "done"}
  /\ pc[c] \in {"test", "next", "cas"} => p[c] = head
  /\ pc[c] \in {"next", "cas"} => Len(chain) > 1
  /\ pc[c] = "cas" => n[c] = chain[2]
  /\ HoldsNode(c) => p[c] \in Node /\ next[p[c]] = head
  /\ pc[c] = "read" => n[c] = head

QueueInv ==
  main = "run" => /\ ChainInv /\ NodesInv
                  /\ \A u \in Pushers : PusherInv(u)
                  /\ \A c \in Poppers : PopperInv(c)

(* When main destroys the queue one node is left, or none. *)
DestroyInv ==
  /\ main = "run" => round < Rounds
  /\ main # "run" => Joined
  /\ main = "destroy" => \/ head = Null /\ allocated = {}
                         \/ head \in Node /\ allocated = {head} /\ next[head] = Null
  /\ main = "exited" => allocated = {}

(* What was linked is in the chain or was taken off it. *)
Given(u) == IF pc[u] \in {"swing", "count"} THEN i[u] + 1 ELSE i[u]
Taken(c) == IF pc[c] \in {"fetch", "read", "delete", "load", "store"}
            THEN s_count_pop + 1 ELSE s_count_pop

CountInv ==
  main = "run" =>
    \A u \in Pushers, c \in Poppers :
      /\ s_count_push = i[u]
      /\ Len(chain) + Taken(c) = Given(u) + 1
      /\ pc[c] = "store" => seen[c] = s_count_pop
      /\ pc[c] = "done" => s_count_pop >= Count

(* Where a round begins. *)
AtStart ==
  /\ main = "run" /\ pc = Start /\ Len(chain) = 1
  /\ i = [th \in Pushers |-> 0]

QInv == TypeOK /\ QueueInv /\ DestroyInv /\ CountInv

-----------------------------------------------------------------------------
(***************************************************************************)
(* The invariants, for the pusher u and the popper c.                      *)
(***************************************************************************)
LEMMA Pair ==
  ASSUME NEW u, NEW c, Pushers = {u}, Poppers = {c}
  PROVE  u # c /\ Thread = {u, c} /\ Total = Count /\ Count \in Nat \ {0} /\ Rounds \in Nat \ {0}
<1>1. u # c /\ Thread = {u, c} /\ Count \in Nat \ {0} /\ Rounds \in Nat \ {0}
  BY QueueAssumption DEF Thread
<1>2. Cardinality(Pushers) = 1
  BY FS_Singleton
<1> QED
  BY <1>1, <1>2 DEF Total

LEMMA PairNodes ==
  ASSUME NEW u, NEW c, Pushers = {u}, Poppers = {c}
  PROVE  /\ Made = IF MakesNode(u) THEN {p[u]} ELSE {}
         /\ Held = IF HoldsNode(c) THEN {p[c]} ELSE {}
         /\ Made' = IF MakesNode(u)' THEN {p'[u]} ELSE {}
         /\ Held' = IF HoldsNode(c)' THEN {p'[c]} ELSE {}
BY DEF Made, Held, MakesNode, HoldsNode

LEMMA PairInv ==
  ASSUME NEW u, NEW c, Pushers = {u}, Poppers = {c}, QInv, main = "run"
  PROVE  /\ TypeOK /\ ChainInv /\ NodesInv /\ PusherInv(u) /\ PopperInv(c)
         /\ s_count_push = i[u] /\ Len(chain) + Taken(c) = Given(u) + 1
         /\ pc[c] = "store" => seen[c] = s_count_pop
         /\ pc[c] = "done" => s_count_pop >= Count
         /\ round < Rounds
BY DEF QInv, QueueInv, CountInv, DestroyInv

LEMMA PairInvNext ==
  ASSUME NEW u, NEW c, Pushers = {u}, Poppers = {c}, main' = "run", round' < Rounds,
         TypeOK', ChainInv', NodesInv', PusherInv(u)', PopperInv(c)',
         s_count_push' = i'[u], Len(chain)' + Taken(c)' = Given(u)' + 1,
         pc'[c] = "store" => seen'[c] = s_count_pop',
         pc'[c] = "done" => s_count_pop' >= Count
  PROVE  QInv'
BY DEF QInv, QueueInv, CountInv, DestroyInv

(* The ends of the chain. *)
LEMMA ChainEnds ==
  ASSUME ChainInv
  PROVE  /\ Len(chain) \in Nat \ {0} /\ Last \in Linked /\ head \in Linked /\ Linked \subseteq Node
         /\ next[Last] = Null /\ head = chain[1] /\ Last = chain[Len(chain)]
         /\ next[head] = Null <=> Len(chain) = 1
         /\ next[head] # Null => next[head] = chain[2]
<1>1. Len(chain) \in Nat \ {0} /\ \A k \in 1 .. Len(chain) : chain[k] \in Node
  BY EmptySeq, LenProperties, ElementOfSeq DEF ChainInv
<1>2. 1 \in 1 .. Len(chain) /\ Len(chain) \in 1 .. Len(chain)
  BY <1>1
<1>3. next[Last] = Null /\ head = chain[1] /\ Last = chain[Len(chain)]
  BY <1>2 DEF ChainInv, Last
<1>4. next[head] = IF 1 = Len(chain) THEN Null ELSE chain[2]
  BY <1>2, <1>3 DEF ChainInv
<1>5. Len(chain) # 1 => 2 \in 1 .. Len(chain)
  <2>1. Len(chain) \in Nat \ {0}
    BY <1>1
  <2> QED
    BY <2>1
<1> QED
  BY <1>1, <1>2, <1>3, <1>4, <1>5, QueueAssumption DEF Linked

-----------------------------------------------------------------------------
(***************************************************************************)
(* Steps that change neither the chain nor a node.                         *)
(***************************************************************************)
LEMMA ChainUnchanged ==
  ASSUME UNCHANGED <<chain, head, next>>
  PROVE  ChainInv' = ChainInv /\ Linked' = Linked /\ Last' = Last
BY DEF ChainInv, Linked, Last

LEMMA PusherLocal ==
  ASSUME NEW u, NEW c, Pushers = {u}, Poppers = {c}, QInv,
         ReadTail(u) \/ ReadOldTail(u) \/ Walk(u) \/ Advance(u) \/ SwingTail(u) \/ CountPush(u)
  PROVE  QInv'
<1>1. main = "run"
  BY DEF ReadTail, ReadOldTail, Walk, Advance, SwingTail, CountPush, Moves
<1>2. u # c /\ Thread = {u, c} /\ Total = Count /\ Count \in Nat \ {0}
  BY Pair
<1>3. /\ TypeOK /\ ChainInv /\ NodesInv /\ PusherInv(u) /\ PopperInv(c)
      /\ s_count_push = i[u] /\ Len(chain) + Taken(c) = Given(u) + 1
      /\ pc[c] = "store" => seen[c] = s_count_pop
      /\ pc[c] = "done" => s_count_pop >= Count
      /\ round < Rounds
  BY <1>1, PairInv
<1>4. /\ UNCHANGED <<mainVars, heapVars, head, chain, p, popVars, s_count_pop>>
      /\ pc' = [pc EXCEPT ![u] = pc'[u]]
  BY <1>3, <1>2 DEF ReadTail, ReadOldTail, Walk, Advance, SwingTail, CountPush, Moves, TypeOK,
     queueVars, countVars, pushVars
<1>5. ChainInv' /\ Linked' = Linked /\ Last' = Last
  BY <1>3, <1>4, ChainUnchanged DEF heapVars
<1>6. next[Last] = Null
  BY <1>3, ChainEnds
<1>7. PusherInv(u)' /\ (MakesNode(u)' <=> MakesNode(u))
  <2>1. CASE ReadTail(u)
    BY <2>1, <1>2, <1>3, <1>5 DEF ReadTail, Moves, PusherInv, MakesNode, TypeOK, heapVars, queueVars
  <2>2. CASE ReadOldTail(u)
    BY <2>2, <1>2, <1>3, <1>5 DEF ReadOldTail, Moves, PusherInv, MakesNode, TypeOK, heapVars, queueVars
  <2>3. CASE Walk(u)
    BY <2>3, <1>2, <1>3, <1>5, <1>6 DEF Walk, Moves, PusherInv, MakesNode, TypeOK, heapVars, queueVars, pushVars
  <2>4. CASE Advance(u)
    BY <2>4, <1>3 DEF Advance, Moves, PusherInv
  <2>5. CASE SwingTail(u)
    BY <2>5, <1>2, <1>3, <1>5 DEF SwingTail, TailAfter, Moves, PusherInv, MakesNode, TypeOK, heapVars, pushVars
  <2>6. CASE CountPush(u)
    BY <2>6, <1>2, <1>3, <1>5 DEF CountPush, MorePushes, Moves, PusherInv, MakesNode, TypeOK, heapVars, queueVars
  <2> QED
    BY <2>1, <2>2, <2>3, <2>4, <2>5, <2>6
<1>8. PopperInv(c)' /\ (HoldsNode(c)' <=> HoldsNode(c))
  BY <1>2, <1>3, <1>4 DEF PopperInv, HoldsNode, TypeOK, heapVars, popVars
<1>9. NodesInv'
  BY <1>3, <1>4, <1>5, <1>7, <1>8, PairNodes DEF NodesInv, heapVars
<1>10. TypeOK'
  <2>1. CASE ReadTail(u)
    BY <2>1, <1>2, <1>3 DEF ReadTail, Moves, TypeOK, mainVars, heapVars, queueVars, popVars, countVars
  <2>2. CASE ReadOldTail(u)
    BY <2>2, <1>2, <1>3 DEF ReadOldTail, Moves, TypeOK, mainVars, heapVars, queueVars, popVars, countVars
  <2>3. CASE Walk(u)
    BY <2>3, <1>2, <1>3 DEF Walk, Moves, TypeOK, mainVars, heapVars, queueVars, pushVars, popVars, countVars
  <2>4. CASE Advance(u)
    BY <2>4, <1>3 DEF Advance, Moves, PusherInv
  <2>5. CASE SwingTail(u)
    BY <2>5, <1>2, <1>3 DEF SwingTail, TailAfter, Moves, TypeOK, mainVars, heapVars, pushVars, popVars, countVars
  <2>6. CASE CountPush(u)
    BY <2>6, <1>2, <1>3 DEF CountPush, MorePushes, PusherInv, Moves, TypeOK, mainVars, heapVars, queueVars, popVars
  <2> QED
    BY <2>1, <2>2, <2>3, <2>4, <2>5, <2>6
<1>11. s_count_push' = i'[u] /\ Given(u)' = Given(u)
  BY <1>2, <1>3 DEF ReadTail, ReadOldTail, Walk, Advance, SwingTail, CountPush, Moves, TypeOK, Given,
                    PusherInv, pushVars, countVars
<1>12. Taken(c)' = Taken(c) /\ pc'[c] = pc[c] /\ seen'[c] = seen[c] /\ s_count_pop' = s_count_pop
  BY <1>2, <1>3, <1>4 DEF Taken, TypeOK, popVars
<1>13. Len(chain)' + Taken(c)' = Given(u)' + 1
  BY <1>3, <1>4, <1>11, <1>12
<1>14. main' = "run" /\ round' < Rounds
  BY <1>1, <1>3, <1>4 DEF mainVars
<1> QED
  BY <1>3, <1>5, <1>7, <1>8, <1>9, <1>10, <1>11, <1>12, <1>13, <1>14, PairInvNext

LEMMA PopperLocal ==
  ASSUME NEW u, NEW c, Pushers = {u}, Poppers = {c}, QInv,
         \/ ReadHead(c) \/ TestNext(c) \/ ReadNext(c) \/ Fetch(c) \/ ReadData(c)
         \/ LoadCount(c) \/ StoreCount(c) \/ CheckCount(c)
  PROVE  QInv'
<1>1. main = "run"
  BY DEF ReadHead, TestNext, ReadNext, Fetch, ReadData, LoadCount, StoreCount, CheckCount, Moves
<1>2. u # c /\ Thread = {u, c} /\ Total = Count /\ Count \in Nat \ {0}
  BY Pair
<1>3. /\ TypeOK /\ ChainInv /\ NodesInv /\ PusherInv(u) /\ PopperInv(c)
      /\ s_count_push = i[u] /\ Len(chain) + Taken(c) = Given(u) + 1
      /\ pc[c] = "store" => seen[c] = s_count_pop
      /\ pc[c] = "done" => s_count_pop >= Count
      /\ round < Rounds
  BY <1>1, PairInv
<1>4. UNCHANGED <<mainVars, heapVars, queueVars, pushVars, s_count_push>>
  BY DEF ReadHead, TestNext, ReadNext, Fetch, ReadData, LoadCount, StoreCount, CheckCount, Moves, countVars
<1>5. pc'[u] = pc[u] /\ p'[u] = p[u]
  BY <1>2, <1>3 DEF ReadHead, TestNext, ReadNext, Fetch, ReadData, LoadCount, StoreCount, CheckCount,
                    Moves, TypeOK
<1>6. ChainInv' /\ Linked' = Linked /\ Last' = Last
  BY <1>3, <1>4, ChainUnchanged DEF heapVars, queueVars
<1>7. /\ Len(chain) \in Nat \ {0}
      /\ next[head] # Null => next[head] = chain[2] /\ Len(chain) > 1
  BY <1>3, ChainEnds
<1>8. PusherInv(u)' /\ (MakesNode(u)' <=> MakesNode(u)) /\ Given(u)' = Given(u)
  BY <1>2, <1>3, <1>4, <1>5, <1>6 DEF PusherInv, MakesNode, Given, heapVars, pushVars, queueVars
<1>9. PopperInv(c)'
  <2>1. CASE ReadHead(c)
    BY <2>1, <1>2, <1>3 DEF ReadHead, Moves, PopperInv, HoldsNode, TypeOK, heapVars, queueVars
  <2>2. CASE TestNext(c)
    BY <2>2, <1>2, <1>3, <1>7 DEF TestNext, Moves, PopperInv, HoldsNode, TypeOK, heapVars, queueVars
  <2>3. CASE ReadNext(c)
    <3>1. p[c] = head /\ Len(chain) > 1 /\ pc[c] = "next"
      BY <2>3, <1>3 DEF ReadNext, Moves, PopperInv
    <3>2. next[head] = chain[2]
      BY <1>3, <3>1, ChainEnds
    <3> QED
      BY <2>3, <1>2, <1>3, <3>1, <3>2 DEF ReadNext, Moves, PopperInv, HoldsNode, TypeOK, heapVars, queueVars
  <2>4. CASE Fetch(c)
    BY <2>4, <1>2, <1>3 DEF Fetch, FetchNext, Moves, PopperInv, HoldsNode, TypeOK, heapVars, queueVars
  <2>5. CASE ReadData(c)
    BY <2>5, <1>2, <1>3 DEF ReadData, Moves, PopperInv, HoldsNode, TypeOK, heapVars, queueVars
  <2>6. CASE LoadCount(c)
    BY <2>6, <1>2, <1>3 DEF LoadCount, Moves, PopperInv, HoldsNode, TypeOK, heapVars, queueVars
  <2>7. CASE StoreCount(c)
    BY <2>7, <1>2, <1>3 DEF StoreCount, Moves, PopperInv, HoldsNode, TypeOK, heapVars, queueVars
  <2>8. CASE CheckCount(c)
    BY <2>8, <1>2, <1>3 DEF CheckCount, Moves, PopperInv, HoldsNode, TypeOK, heapVars, queueVars
  <2> QED
    BY <2>1, <2>2, <2>3, <2>4, <2>5, <2>6, <2>7, <2>8
<1>10. (HoldsNode(c)' <=> HoldsNode(c)) /\ (HoldsNode(c) => p'[c] = p[c])
  BY <1>2, <1>3 DEF ReadHead, TestNext, ReadNext, Fetch, ReadData, LoadCount, StoreCount, CheckCount,
                    Moves, HoldsNode, TypeOK
<1>11. NodesInv'
  BY <1>3, <1>4, <1>5, <1>6, <1>8, <1>10, PairNodes DEF NodesInv, heapVars
<1>12. /\ Taken(c)' = Taken(c)
       /\ pc'[c] = "store" => seen'[c] = s_count_pop'
       /\ pc'[c] = "done" => s_count_pop' >= Count
  <2>1. CASE StoreCount(c)
    BY <2>1, <1>2, <1>3 DEF StoreCount, Moves, TypeOK, Taken
  <2>2. CASE LoadCount(c)
    BY <2>2, <1>2, <1>3 DEF LoadCount, Moves, TypeOK, Taken, countVars
  <2>3. CASE CheckCount(c)
    BY <2>3, <1>2, <1>3 DEF CheckCount, Enough, Moves, TypeOK, Taken, countVars
  <2>4. CASE ReadHead(c) \/ TestNext(c) \/ ReadNext(c) \/ Fetch(c) \/ ReadData(c)
    BY <2>4, <1>2, <1>3 DEF ReadHead, TestNext, ReadNext, Fetch, ReadData, Moves, TypeOK, Taken, countVars
  <2> QED
    BY <2>1, <2>2, <2>3, <2>4
<1>13. s_count_push' = i'[u] /\ Len(chain)' + Taken(c)' = Given(u)' + 1
  BY <1>3, <1>4, <1>8, <1>12 DEF pushVars, queueVars
<1>14. TypeOK'
  <2>1. CASE ReadHead(c)
    BY <2>1, <1>2, <1>3 DEF ReadHead, Moves, TypeOK, mainVars, heapVars, queueVars, pushVars, popVars, countVars
  <2>2. CASE TestNext(c)
    BY <2>2, <1>2, <1>3 DEF TestNext, Moves, TypeOK, mainVars, heapVars, queueVars, pushVars, countVars
  <2>3. CASE ReadNext(c)
    BY <2>3, <1>2, <1>3 DEF ReadNext, Moves, TypeOK, mainVars, heapVars, queueVars, pushVars, countVars
  <2>4. CASE Fetch(c)
    BY <2>4, <1>2, <1>3 DEF Fetch, FetchNext, Moves, TypeOK, mainVars, heapVars, queueVars, pushVars, countVars
  <2>5. CASE ReadData(c)
    BY <2>5, <1>2, <1>3 DEF ReadData, Moves, TypeOK, mainVars, heapVars, queueVars, pushVars, countVars
  <2>6. CASE LoadCount(c)
    BY <2>6, <1>2, <1>3 DEF LoadCount, Moves, TypeOK, mainVars, heapVars, queueVars, pushVars, countVars
  <2>7. CASE StoreCount(c)
    <3>1. s_count_pop' = s_count_pop + 1 /\ Taken(c) = s_count_pop + 1
      BY <2>7, <1>3 DEF StoreCount, Moves, Taken
    <3>2. Given(u) <= Count /\ Given(u) \in Nat /\ s_count_pop \in Nat
      BY <1>2, <1>3 DEF PusherInv, Given, TypeOK
    <3>3. s_count_pop' \in 0 .. Total
      BY <1>2, <1>3, <1>7, <3>1, <3>2
    <3> QED
      BY <2>7, <1>2, <1>3, <3>3 DEF StoreCount, Moves, TypeOK, mainVars, heapVars, queueVars, pushVars, popVars
  <2>8. CASE CheckCount(c)
    BY <2>8, <1>2, <1>3 DEF CheckCount, Moves, TypeOK, mainVars, heapVars, queueVars, pushVars, popVars, countVars
  <2> QED
    BY <2>1, <2>2, <2>3, <2>4, <2>5, <2>6, <2>7, <2>8
<1>15. main' = "run" /\ round' < Rounds
  BY <1>1, <1>3, <1>4 DEF mainVars
<1> QED
  BY <1>6, <1>8, <1>9, <1>11, <1>12, <1>13, <1>14, <1>15, PairInvNext

-----------------------------------------------------------------------------
(***************************************************************************)
(* Steps that change the chain or a node.                                  *)
(***************************************************************************)
(* A store to the _next of a node outside the chain leaves it as it is. *)
LEMMA ChainUntouched ==
  ASSUME UNCHANGED <<chain, head>>, \A a \in Linked : next'[a] = next[a]
  PROVE  (ChainInv => ChainInv') /\ Linked' = Linked /\ Last' = Last
BY DEF ChainInv, Linked, Last

LEMMA NewNodeKeeps ==
  ASSUME NEW u, NEW c, Pushers = {u}, Poppers = {c}, QInv, NewNode(u)
  PROVE  QInv'
<1>1. main = "run"
  BY DEF NewNode, Moves
<1>2. u # c /\ Thread = {u, c} /\ Total = Count /\ Count \in Nat \ {0}
  BY Pair
<1>3. /\ TypeOK /\ ChainInv /\ NodesInv /\ PusherInv(u) /\ PopperInv(c)
      /\ s_count_push = i[u] /\ Len(chain) + Taken(c) = Given(u) + 1
      /\ pc[c] = "store" => seen[c] = s_count_pop
      /\ pc[c] = "done" => s_count_pop >= Count
      /\ round < Rounds
  BY <1>1, PairInv
<1>4. PICK a \in Node \ allocated :
        /\ allocated' = allocated \cup {a}
        /\ next' = [next EXCEPT ![a] = Null]
        /\ data' = [data EXCEPT ![a] = i[u]]
        /\ p' = [p EXCEPT ![u] = a]
  BY DEF NewNode
<1>5. /\ UNCHANGED <<mainVars, queueVars, pushVars, popVars, countVars>>
      /\ pc[u] = "new" /\ pc' = [pc EXCEPT ![u] = "tail"]
  BY DEF NewNode, Moves
<1>6. Linked \subseteq allocated /\ Held \subseteq allocated
  BY <1>3 DEF NodesInv
<1>7. ChainInv' /\ Linked' = Linked /\ Last' = Last
  BY <1>3, <1>4, <1>5, <1>6, ChainUntouched DEF queueVars, TypeOK
<1>8. PusherInv(u)' /\ MakesNode(u)' /\ ~ MakesNode(u) /\ Given(u)' = Given(u)
  BY <1>2, <1>3, <1>4, <1>5, <1>7 DEF PusherInv, MakesNode, Given, TypeOK, queueVars, pushVars
<1>9. PopperInv(c)' /\ (HoldsNode(c)' <=> HoldsNode(c)) /\ p'[c] = p[c]
  <2>1. HoldsNode(c) => p[c] \in allocated
    BY <1>6, PairNodes
  <2>2. HoldsNode(c) => next'[p[c]] = next[p[c]]
    BY <1>3, <1>4, <2>1 DEF TypeOK, PopperInv
  <2> QED
    BY <1>2, <1>3, <1>4, <1>5, <2>2 DEF PopperInv, HoldsNode, TypeOK, queueVars, popVars
<1>10. NodesInv'
  <2>1. Made = {} /\ Made' = {a} /\ Held' = Held
    BY <1>2, <1>3, <1>4, <1>8, <1>9, PairNodes DEF TypeOK
  <2> QED
    BY <1>3, <1>4, <1>6, <1>7, <2>1 DEF NodesInv
<1>11. /\ s_count_push' = i'[u] /\ Len(chain)' + Taken(c)' = Given(u)' + 1
       /\ pc'[c] = "store" => seen'[c] = s_count_pop'
       /\ pc'[c] = "done" => s_count_pop' >= Count
  BY <1>2, <1>3, <1>5, <1>8 DEF Taken, TypeOK, queueVars, pushVars, popVars, countVars
<1>12. TypeOK'
  <2>1. i[u] \in Element
    BY <1>2, <1>3, <1>5 DEF PusherInv, TypeOK, Element
  <2> QED
    BY <1>2, <1>3, <1>4, <1>5, <2>1 DEF TypeOK, Address, mainVars, queueVars, pushVars, popVars, countVars
<1> QED
  BY <1>1, <1>3, <1>5, <1>7, <1>8, <1>9, <1>10, <1>11, <1>12, PairInvNext DEF mainVars

LEMMA LinkKeeps ==
  ASSUME NEW u, NEW c, Pushers = {u}, Poppers = {c}, QInv, Link(u)
  PROVE  QInv' /\ chain' = Append(chain, p[u]) /\ p[u] \notin Linked \cup Held /\ data[p[u]] = i[u]
         /\ pc'[c] = pc[c] /\ \A a \in allocated : a # Last => next'[a] = next[a]
<1>1. main = "run"
  BY DEF Link, Moves
<1>2. u # c /\ Thread = {u, c} /\ Total = Count /\ Count \in Nat \ {0}
  BY Pair
<1>3. /\ TypeOK /\ ChainInv /\ NodesInv /\ PusherInv(u) /\ PopperInv(c)
      /\ s_count_push = i[u] /\ Len(chain) + Taken(c) = Given(u) + 1
      /\ pc[c] = "store" => seen[c] = s_count_pop
      /\ pc[c] = "done" => s_count_pop >= Count
      /\ round < Rounds
  BY <1>1, PairInv
<1>4. pc[u] = "link" /\ t[u] = Last /\ next[Last] = Null /\ Last \in Linked /\ Linked \subseteq Node
  <2>1. pc[u] = "link"
    BY DEF Link, Moves
  <2> QED
    BY <1>3, <2>1, ChainEnds DEF PusherInv
<1>5. /\ next' = [next EXCEPT ![Last] = p[u]]
      /\ chain' = Append(chain, p[u])
      /\ pc' = [pc EXCEPT ![u] = "swing"]
      /\ UNCHANGED <<mainVars, data, allocated, head, tail, p, pushVars, popVars, countVars>>
  BY <1>4 DEF Link, Moves
<1> DEFINE a == p[u]
           L == Len(chain)
<1>6. a \in Node /\ next[a] = Null /\ data[a] = i[u] /\ MakesNode(u)
  BY <1>3, <1>4 DEF PusherInv, MakesNode
<1>7. Made = {a} /\ a \notin Linked /\ a \notin Held
  <2>1. Made = {a}
    BY <1>6, PairNodes
  <2> QED
    BY <1>3, <2>1 DEF NodesInv
<1>8. /\ L \in Nat \ {0} /\ Len(chain') = L + 1 /\ chain' \in Seq(Node)
      /\ \A k \in 1 .. L : chain'[k] = chain[k]
      /\ chain'[L + 1] = a
  BY <1>3, <1>5, <1>6, ChainEnds, AppendProperties DEF ChainInv
<1>9. /\ \A k \in 1 .. L : chain[k] \in Linked /\ chain[k] # a
      /\ \A j, k \in 1 .. L : chain[j] = chain[k] => j = k
      /\ \A k \in 1 .. L : next[chain[k]] = IF k = L THEN Null ELSE chain[k + 1]
      /\ Last = chain[L] /\ head = chain[1]
  BY <1>3, <1>7 DEF Linked, ChainInv, Last
<1> HIDE DEF a, L
<1>10. L \in Nat \ {0} /\ 1 .. L + 1 = 1 .. L \cup {L + 1} /\ L \in 1 .. L /\ 1 \in 1 .. L
  BY <1>8
<1>11. ChainInv'
  <2>1. chain' \in Seq(Node) /\ chain' # <<>> /\ head' = chain'[1]
    BY <1>5, <1>8, <1>9, <1>10, EmptySeq
  <2>2. \A j, k \in 1 .. L + 1 : chain'[j] = chain'[k] => j = k
    BY <1>8, <1>9, <1>10
  <2>3. ASSUME NEW k \in 1 .. L + 1
        PROVE  next'[chain'[k]] = IF k = L + 1 THEN Null ELSE chain'[k + 1]
    <3>1. next \in [Node -> Address] /\ Last \in Node
      BY <1>3, <1>4 DEF TypeOK
    <3>2. CASE k = L + 1
      BY <1>5, <1>6, <1>8, <1>9, <1>10, <3>1, <3>2 DEF a
    <3>3. CASE k = L
      BY <1>5, <1>8, <1>9, <1>10, <3>1, <3>3 DEF a
    <3>4. CASE k \in 1 .. L /\ k # L
      <4>1. k + 1 \in 1 .. L /\ k # L + 1
        BY <1>10, <3>4
      <4>2. chain'[k] = chain[k] /\ chain'[k + 1] = chain[k + 1] /\ chain[k] # Last
        BY <1>8, <1>9, <1>10, <3>4, <4>1
      <4>3. next'[chain[k]] = next[chain[k]]
        BY <1>5, <3>1, <4>2
      <4> QED
        BY <1>9, <3>4, <4>1, <4>2, <4>3
    <3> QED
      BY <1>10, <3>2, <3>3, <3>4
  <2>4. \A k \in 1 .. Len(chain') : next'[chain'[k]] = IF k = Len(chain') THEN Null ELSE chain'[k + 1]
    BY <1>8, <2>3
  <2> QED
    BY <1>8, <2>1, <2>2, <2>4 DEF ChainInv
<1>12. Linked' = Linked \cup {a} /\ Last' = a
  <2>1. Linked' = {chain'[k] : k \in 1 .. L + 1}
    BY <1>8 DEF Linked
  <2>2. Linked = {chain[k] : k \in 1 .. L}
    BY DEF Linked, L
  <2>3. {chain'[k] : k \in 1 .. L + 1} = {chain[k] : k \in 1 .. L} \cup {a}
    BY <1>8, <1>10
  <2> QED
    BY <1>8, <2>1, <2>2, <2>3 DEF Last
<1>13. PusherInv(u)' /\ ~ MakesNode(u)' /\ Given(u)' = Given(u) + 1
  BY <1>2, <1>3, <1>4, <1>5, <1>12 DEF PusherInv, MakesNode, Given, TypeOK, pushVars, a
<1>14. pc'[c] = pc[c] /\ p'[c] = p[c] /\ (HoldsNode(c)' <=> HoldsNode(c))
  BY <1>2, <1>3, <1>5 DEF HoldsNode, TypeOK
<1>15. PopperInv(c)'
  <2>1. HoldsNode(c) => p[c] \in Held
    BY PairNodes
  <2>2. HoldsNode(c) => next'[p[c]] = next[p[c]]
    BY <1>3, <1>4, <1>5, <2>1 DEF NodesInv, TypeOK, PopperInv
  <2>3. Len(chain) > 1 => Len(chain') > 1 /\ chain'[2] = chain[2]
    BY <1>8 DEF L
  <2> QED
    BY <1>3, <1>5, <1>14, <2>2, <2>3 DEF PopperInv, HoldsNode, popVars
<1>16. NodesInv'
  <2>1. Made' = {} /\ Held' = Held
    BY <1>13, <1>14, PairNodes
  <2> QED
    BY <1>3, <1>5, <1>7, <1>12, <2>1 DEF NodesInv
<1>17. /\ s_count_push' = i'[u]
       /\ pc'[c] = "store" => seen'[c] = s_count_pop'
       /\ pc'[c] = "done" => s_count_pop' >= Count
       /\ Taken(c)' = Taken(c)
  BY <1>3, <1>5, <1>14 DEF Taken, pushVars, popVars, countVars
<1>18. Len(chain)' + Taken(c)' = Given(u)' + 1
  <2>1. Given(u) \in Nat /\ Taken(c) \in Nat
    BY <1>2, <1>3 DEF Given, Taken, TypeOK
  <2> QED
    BY <1>3, <1>8, <1>13, <1>17, <2>1 DEF L
<1>19. TypeOK'
  BY <1>2, <1>3, <1>4, <1>5, <1>6, <1>8 DEF TypeOK, Address, mainVars, pushVars, popVars, countVars, a
<1>20. \A b \in allocated : b # Last => next'[b] = next[b]
  BY <1>3, <1>5 DEF TypeOK
<1>21. QInv'
  BY <1>1, <1>3, <1>5, <1>11, <1>13, <1>15, <1>16, <1>17, <1>18, <1>19, PairInvNext DEF mainVars
<1> QED
  BY <1>5, <1>6, <1>7, <1>14, <1>20, <1>21 DEF a

LEMMA UnlinkKeeps ==
  ASSUME NEW u, NEW c, Pushers = {u}, Poppers = {c}, QInv, Unlink(c)
  PROVE  /\ QInv'
         /\ Len(chain) > 1 /\ chain' = Tail(chain) /\ p[c] = head /\ next[head] = chain[2]
         /\ pc[c] = "cas" /\ pc' = [pc EXCEPT ![c] = "fetch"]
<1>1. main = "run"
  BY DEF Unlink, Moves
<1>2. u # c /\ Thread = {u, c} /\ Total = Count /\ Count \in Nat \ {0}
  BY Pair
<1>3. /\ TypeOK /\ ChainInv /\ NodesInv /\ PusherInv(u) /\ PopperInv(c)
      /\ s_count_push = i[u] /\ Len(chain) + Taken(c) = Given(u) + 1
      /\ pc[c] = "store" => seen[c] = s_count_pop
      /\ pc[c] = "done" => s_count_pop >= Count
      /\ round < Rounds
  BY <1>1, PairInv
<1>4. pc[c] = "cas" /\ p[c] = head /\ n[c] = chain[2] /\ Len(chain) > 1
  <2>1. pc[c] = "cas"
    BY DEF Unlink, Moves
  <2> QED
    BY <1>3, <2>1 DEF PopperInv
<1>5. /\ head' = chain[2] /\ chain' = Tail(chain)
      /\ pc' = [pc EXCEPT ![c] = "fetch"]
      /\ UNCHANGED <<mainVars, heapVars, tail, p, pushVars, popVars, countVars>>
  BY <1>4 DEF Unlink, Moves
<1> DEFINE L == Len(chain)
<1>6. /\ L \in Nat \ {0, 1} /\ Len(chain') = L - 1 /\ chain' \in Seq(Node)
      /\ \A k \in 1 .. L - 1 : chain'[k] = chain[k + 1]
  <2>1. chain \in Seq(Node) /\ chain # <<>> /\ L \in Nat
    BY <1>3, LenProperties DEF ChainInv
  <2>2. /\ chain' \in Seq(Node) /\ Len(chain') = L - 1
        /\ \A k \in 1 .. Len(chain') : chain'[k] = chain[k + 1]
    BY <1>5, <2>1, HeadTailProperties
  <2> QED
    BY <1>4, <2>1, <2>2
<1>7. /\ \A j, k \in 1 .. L : chain[j] = chain[k] => j = k
      /\ \A k \in 1 .. L : next[chain[k]] = IF k = L THEN Null ELSE chain[k + 1]
      /\ Last = chain[L] /\ head = chain[1] /\ Linked = {chain[k] : k \in 1 .. L}
      /\ \A k \in 1 .. L : chain[k] \in Node
  BY <1>3, ElementOfSeq DEF Linked, ChainInv, Last
<1> HIDE DEF L
<1>8. /\ L \in Nat /\ 1 .. L = {1} \cup 2 .. L /\ 1 \notin 2 .. L /\ 1 \in 1 .. L /\ 2 \in 1 .. L
      /\ L - 1 \in 1 .. L - 1 /\ \A k \in 1 .. L - 1 : k + 1 \in 2 .. L /\ k \in 1 .. L
      /\ \A k \in 2 .. L : k - 1 \in 1 .. L - 1 /\ k = (k - 1) + 1 /\ k \in 1 .. L
  BY <1>6
<1>9. ChainInv'
  <2>1. chain' # <<>> /\ head' = chain'[1]
    <3>1. L - 1 # 0 /\ 1 \in 1 .. L - 1 /\ 1 + 1 = 2
      BY <1>6
    <3>2. chain' # <<>>
      BY <1>6, <3>1, EmptySeq
    <3>3. chain'[1] = chain[2]
      BY <1>6, <3>1
    <3> QED
      BY <1>5, <3>2, <3>3
  <2>2. \A j, k \in 1 .. L - 1 : chain'[j] = chain'[k] => j = k
    <3> SUFFICES ASSUME NEW j \in 1 .. L - 1, NEW k \in 1 .. L - 1, chain'[j] = chain'[k]
                 PROVE  j = k
      OBVIOUS
    <3>1. j + 1 \in 1 .. L /\ k + 1 \in 1 .. L /\ chain[j + 1] = chain[k + 1]
      BY <1>6, <1>8
    <3>2. j + 1 = k + 1
      BY <1>7, <3>1
    <3> QED
      BY <3>2
  <2>3. ASSUME NEW k \in 1 .. L - 1
        PROVE  next'[chain'[k]] = IF k = L - 1 THEN Null ELSE chain'[k + 1]
    <3>1. next'[chain'[k]] = next[chain[k + 1]] /\ k + 1 \in 1 .. L
      BY <1>5, <1>6, <1>8 DEF heapVars
    <3>2. next[chain[k + 1]] = IF k + 1 = L THEN Null ELSE chain[(k + 1) + 1]
      BY <1>7, <3>1
    <3>3. k # L - 1 => k + 1 \in 1 .. L - 1
      BY <1>6
    <3> QED
      BY <1>6, <3>1, <3>2, <3>3
  <2> QED
    BY <1>6, <2>1, <2>2, <2>3 DEF ChainInv
<1>10. Linked = Linked' \cup {head} /\ head \notin Linked' /\ Last' = Last
  <2>1. Linked' = {chain'[k] : k \in 1 .. L - 1}
    BY <1>6 DEF Linked
  <2>2. Linked' = {chain[k] : k \in 2 .. L}
    <3>1. \A k \in 1 .. L - 1 : chain'[k] \in {chain[j] : j \in 2 .. L}
      BY <1>6, <1>8
    <3>2. \A k \in 2 .. L : chain[k] = chain'[k - 1]
      BY <1>6, <1>8
    <3> QED
      BY <1>8, <2>1, <3>1, <3>2
  <2>3. Linked = Linked' \cup {head}
    BY <1>7, <1>8, <2>2
  <2>4. head \notin Linked'
    BY <1>7, <1>8, <2>2
  <2>5. Last' = chain'[L - 1] /\ chain'[L - 1] = chain[L]
    BY <1>6, <1>8 DEF Last
  <2> QED
    BY <1>7, <2>3, <2>4, <2>5
<1>11. pc'[u] = pc[u] /\ p' = p /\ ~ HoldsNode(c) /\ HoldsNode(c)' /\ (MakesNode(u)' <=> MakesNode(u))
  BY <1>2, <1>3, <1>4, <1>5 DEF HoldsNode, MakesNode, TypeOK
<1>12. PusherInv(u)' /\ Given(u)' = Given(u)
  BY <1>3, <1>5, <1>10, <1>11 DEF PusherInv, MakesNode, Given, heapVars, pushVars
<1>13. next[head] = chain[2] /\ head \in Node
  <2>1. 1 # L
    BY <1>6
  <2> QED
    BY <1>7, <1>8, <2>1
<1>14. PopperInv(c)'
  BY <1>2, <1>3, <1>4, <1>5, <1>11, <1>13 DEF PopperInv, HoldsNode, TypeOK, heapVars
<1>15. NodesInv'
  <2>1. Made' = Made /\ Held = {} /\ Held' = {head}
    BY <1>4, <1>11, PairNodes
  <2> QED
    BY <1>3, <1>5, <1>10, <2>1 DEF NodesInv, heapVars
<1>16. /\ s_count_push' = i'[u] /\ pc'[c] = "fetch"
       /\ Taken(c)' = Taken(c) + 1
  BY <1>2, <1>3, <1>4, <1>5 DEF Taken, TypeOK, pushVars, popVars, countVars
<1>17. Len(chain)' + Taken(c)' = Given(u)' + 1
  <2>1. Given(u) \in Nat /\ Taken(c) \in Nat
    BY <1>2, <1>3 DEF Given, Taken, TypeOK
  <2> QED
    BY <1>3, <1>6, <1>12, <1>16, <2>1 DEF L
<1>18. TypeOK'
  BY <1>2, <1>3, <1>5, <1>6, <1>7, <1>8 DEF TypeOK, Address, mainVars, heapVars, pushVars, popVars, countVars
<1>19. QInv'
  BY <1>1, <1>3, <1>5, <1>9, <1>12, <1>14, <1>15, <1>16, <1>17, <1>18, PairInvNext DEF mainVars
<1> QED
  BY <1>4, <1>5, <1>13, <1>19

LEMMA DeleteNodeKeeps ==
  ASSUME NEW u, NEW c, Pushers = {u}, Poppers = {c}, QInv, DeleteNode(c)
  PROVE  QInv'
<1>1. main = "run"
  BY DEF DeleteNode, Moves
<1>2. u # c /\ Thread = {u, c} /\ Total = Count /\ Count \in Nat \ {0}
  BY Pair
<1>3. /\ TypeOK /\ ChainInv /\ NodesInv /\ PusherInv(u) /\ PopperInv(c)
      /\ s_count_push = i[u] /\ Len(chain) + Taken(c) = Given(u) + 1
      /\ pc[c] = "store" => seen[c] = s_count_pop
      /\ pc[c] = "done" => s_count_pop >= Count
      /\ round < Rounds
  BY <1>1, PairInv
<1>4. /\ pc[c] = "delete" /\ pc' = [pc EXCEPT ![c] = "load"]
      /\ allocated' = allocated \ {p[c]}
      /\ UNCHANGED <<mainVars, data, queueVars, p, pushVars, popVars, countVars>>
  BY DEF DeleteNode, Moves, Freed, Deleted
<1>5. PICK left \in Leftovers : next' = [a \in Node |-> IF a \in {p[c]} THEN left ELSE next[a]]
  BY DEF DeleteNode, Freed, Deleted
<1>6. next \in [Node -> Address] /\ next' \in [Node -> Address] /\ \A a \in Node \ {p[c]} : next'[a] = next[a]
  BY <1>3, <1>5, QueueAssumption DEF TypeOK, Address
<1>7. Held = {p[c]} /\ Linked \subseteq Node /\ p[c] \notin Linked
  <2>1. Held = {p[c]}
    BY <1>4, PairNodes DEF HoldsNode
  <2> QED
    BY <1>3, <2>1, ChainEnds DEF NodesInv
<1>8. ChainInv' /\ Linked' = Linked /\ Last' = Last
  BY <1>3, <1>4, <1>6, <1>7, ChainUntouched DEF queueVars
<1>9. pc'[u] = pc[u] /\ p' = p /\ ~ HoldsNode(c)' /\ (MakesNode(u)' <=> MakesNode(u))
  BY <1>2, <1>3, <1>4 DEF HoldsNode, MakesNode, TypeOK
<1>10. PusherInv(u)' /\ Given(u)' = Given(u)
  <2>1. MakesNode(u) => p[u] \in Node /\ p[u] # p[c]
    BY <1>3, <1>7, PairNodes DEF NodesInv, PusherInv
  <2>2. MakesNode(u) => next'[p[u]] = next[p[u]]
    BY <1>6, <2>1
  <2> QED
    BY <1>3, <1>4, <1>8, <1>9, <2>2 DEF PusherInv, MakesNode, Given, queueVars, pushVars
<1>11. PopperInv(c)'
  BY <1>2, <1>3, <1>4, <1>9 DEF PopperInv, HoldsNode, TypeOK
<1>12. NodesInv'
  <2>1. Made' = Made /\ Held' = {}
    BY <1>9, PairNodes
  <2> QED
    BY <1>3, <1>4, <1>7, <1>8, <2>1 DEF NodesInv
<1>13. /\ s_count_push' = i'[u] /\ pc'[c] = "load" /\ Taken(c)' = Taken(c) /\ chain' = chain
  BY <1>2, <1>3, <1>4 DEF Taken, TypeOK, queueVars, pushVars, countVars
<1>14. TypeOK'
  BY <1>2, <1>3, <1>4, <1>6 DEF TypeOK, mainVars, queueVars, pushVars, popVars, countVars
<1> QED
  BY <1>1, <1>3, <1>4, <1>8, <1>10, <1>11, <1>12, <1>13, <1>14, PairInvNext DEF mainVars

-----------------------------------------------------------------------------
(***************************************************************************)
(* main.                                                                   *)
(***************************************************************************)
(* When the threads are done, the poppers have counted what was pushed.    *)
LEMMA JoinedEmpty ==
  ASSUME NEW u, NEW c, Pushers = {u}, Poppers = {c}, QInv, main = "run", Joined
  PROVE  Len(chain) = 1 /\ tail = head /\ head \in Node /\ allocated = {head} /\ next[head] = Null
<1>1. u # c /\ Thread = {u, c} /\ Count \in Nat \ {0}
  BY Pair
<1>2. /\ TypeOK /\ ChainInv /\ NodesInv /\ PusherInv(u) /\ PopperInv(c)
      /\ Len(chain) + Taken(c) = Given(u) + 1
      /\ pc[c] = "done" => s_count_pop >= Count
  BY PairInv
<1>3. pc[u] = "done" /\ pc[c] = "done"
  BY <1>1 DEF Joined
<1>4. Given(u) = Count /\ Taken(c) = s_count_pop /\ s_count_pop \in Nat /\ s_count_pop >= Count
  BY <1>2, <1>3 DEF Given, Taken, PusherInv, TypeOK
<1>5. Len(chain) \in Nat \ {0} /\ next[Last] = Null /\ Last = chain[Len(chain)] /\ head = chain[1]
      /\ Last \in Node
  BY <1>2, ChainEnds
<1>6. Len(chain) = 1
  <2>1. Len(chain) + s_count_pop = Count + 1
    BY <1>2, <1>4
  <2>2. ASSUME NEW l \in Nat \ {0}, NEW k \in Nat, l + k = Count + 1, k >= Count
        PROVE  l = 1
    BY <1>1, <2>2
  <2>3. Len(chain) \in Nat \ {0}
    BY <1>5
  <2> QED
    BY <1>4, <2>1, <2>2, <2>3
<1>7. Linked = {head}
  BY <1>5, <1>6 DEF Linked
<1>8. tail = Last
  BY <1>2, <1>3 DEF PusherInv
<1>9. Made = {} /\ Held = {}
  BY <1>3, PairNodes DEF MakesNode, HoldsNode
<1> QED
  BY <1>2, <1>5, <1>6, <1>7, <1>8, <1>9 DEF NodesInv

LEMMA NextRoundKeeps ==
  ASSUME NEW u, NEW c, Pushers = {u}, Poppers = {c}, QInv, NextRound
  PROVE  QInv' /\ (main' = "run" => AtStart' /\ s_count_push' = 0 /\ s_count_pop' = 0)
<1>1. /\ main = "run" /\ Joined /\ round' = round + 1
      /\ UNCHANGED <<heapVars, queueVars, p, t, old_t, popVars>>
  BY DEF NextRound
<1>2. u # c /\ Thread = {u, c} /\ Total = Count /\ Count \in Nat \ {0} /\ Rounds \in Nat \ {0}
  BY Pair
<1>3. /\ TypeOK /\ ChainInv /\ NodesInv /\ PusherInv(u) /\ PopperInv(c) /\ round < Rounds
  BY <1>1, PairInv
<1>4. Len(chain) = 1 /\ tail = head /\ head \in Node /\ allocated = {head} /\ next[head] = Null
  BY <1>1, JoinedEmpty
<1>5. ChainInv' /\ Linked' = Linked /\ Last' = Last
  BY <1>1, <1>3, ChainUnchanged DEF heapVars, queueVars
<1>6. pc[u] = "done" /\ pc[c] = "done"
  BY <1>1, <1>2 DEF Joined
<1>7. CASE round + 1 < Rounds
  <2>1. /\ pc' = Start /\ i' = [th \in Pushers |-> 0] /\ s_count_push' = 0 /\ s_count_pop' = 0 /\ main' = main
    BY <1>7 DEF NextRound
  <2>2. pc'[u] = "new" /\ pc'[c] = "head" /\ i'[u] = 0
    BY <1>2, <2>1 DEF Start
  <2>3. PusherInv(u)' /\ PopperInv(c)'
    BY <1>1, <1>2, <1>3, <1>5, <1>6, <2>2 DEF PusherInv, PopperInv, MakesNode, HoldsNode, queueVars
  <2>4. NodesInv'
    <3>1. Made' = {} /\ Held' = {} /\ Made = {} /\ Held = {}
      BY <1>6, <2>2, PairNodes DEF MakesNode, HoldsNode
    <3> QED
      BY <1>1, <1>3, <1>5, <3>1 DEF NodesInv, heapVars
  <2>5. TypeOK'
    BY <1>1, <1>2, <1>3, <1>7, <2>1 DEF TypeOK, Start, heapVars, queueVars, popVars
  <2>6. Taken(c)' = 0 /\ Given(u)' = 0 /\ Len(chain)' = 1
    BY <1>1, <1>4, <2>1, <2>2 DEF Taken, Given, queueVars
  <2>7. QInv'
    BY <1>1, <1>5, <1>7, <2>1, <2>2, <2>3, <2>4, <2>5, <2>6, PairInvNext
  <2> QED
    BY <1>1, <1>4, <2>1, <2>7 DEF AtStart, queueVars, Start
<1>8. CASE ~ (round + 1 < Rounds)
  <2>1. main' = "destroy" /\ UNCHANGED <<pc, i, countVars>>
    BY <1>8 DEF NextRound
  <2>2. TypeOK'
    BY <1>1, <1>2, <1>3, <2>1 DEF TypeOK, heapVars, queueVars, popVars, countVars
  <2>3. DestroyInv'
    BY <1>1, <1>4, <2>1 DEF DestroyInv, Joined, heapVars, queueVars
  <2> QED
    BY <2>1, <2>2, <2>3 DEF QInv, QueueInv, CountInv
<1> QED
  BY <1>7, <1>8

LEMMA DestroyKeeps ==
  ASSUME QInv, DeleteHead \/ Exit
  PROVE  QInv'
<1>1. CASE DeleteHead
  <2>1. /\ main = "destroy" /\ head # Null /\ head' = next[head]
        /\ allocated' = allocated \ {head}
        /\ UNCHANGED <<mainVars, pc, data, tail, chain, p, pushVars, popVars, countVars>>
    BY <1>1 DEF DeleteHead, Freed
  <2>2. PICK left \in Leftovers : next' = [a \in Node |-> IF a \in {head} THEN left ELSE next[a]]
    BY <1>1 DEF DeleteHead, Freed
  <2>3. head \in Node /\ allocated = {head} /\ next[head] = Null
    BY <2>1 DEF QInv, DestroyInv
  <2>4. TypeOK
    BY DEF QInv
  <2>5. next' \in [Node -> Address]
    BY <2>2, <2>4, QueueAssumption DEF TypeOK, Address
  <2>6. TypeOK'
    BY <2>1, <2>3, <2>4, <2>5 DEF TypeOK, Address, mainVars, pushVars, popVars, countVars
  <2> QED
    BY <2>1, <2>3, <2>6 DEF QInv, QueueInv, CountInv, DestroyInv, Joined, mainVars
<1>2. CASE Exit
  <2>1. /\ main = "destroy" /\ head = Null /\ main' = "exited"
        /\ UNCHANGED <<round, pc, heapVars, queueVars, p, pushVars, popVars, countVars>>
    BY <1>2 DEF Exit
  <2>2. allocated = {}
    BY <2>1, QueueAssumption DEF QInv, DestroyInv
  <2>3. TypeOK'
    BY <2>1 DEF QInv, TypeOK, heapVars, queueVars, pushVars, popVars, countVars
  <2> QED
    BY <2>1, <2>2, <2>3 DEF QInv, QueueInv, CountInv, DestroyInv, Joined, heapVars
<1> QED
  BY <1>1, <1>2

-----------------------------------------------------------------------------
(***************************************************************************)
(* All steps.                                                              *)
(***************************************************************************)
LEMMA QueueBegins ==
  ASSUME OnePair, Init
  PROVE  QInv /\ AtStart /\ s_count_push = 0 /\ s_count_pop = 0
<1>1. PICK u, c : Pushers = {u} /\ Poppers = {c}
  BY DEF OnePair
<1>2. u # c /\ Thread = {u, c} /\ Total = Count /\ Count \in Nat \ {0} /\ Rounds \in Nat \ {0}
  BY <1>1, Pair
<1>3. PICK first \in Node : allocated = {first} /\ head = first /\ tail = first /\ chain = <<first>>
  BY DEF Init
<1>4. chain \in Seq(Node) /\ Len(chain) = 1 /\ chain[1] = first /\ chain # <<>>
  BY <1>3
<1>5. next[first] = Null /\ pc[u] = "new" /\ pc[c] = "head" /\ i[u] = 0
  BY <1>1, <1>2, <1>3 DEF Init, Start
<1>6. \A k \in 1 .. Len(chain) : k = 1
  BY <1>4
<1>7. ChainInv /\ Linked = {first} /\ Last = first
  BY <1>3, <1>4, <1>5, <1>6 DEF ChainInv, Linked, Last
<1>8. NodesInv
  <2>1. Made = {} /\ Held = {}
    BY <1>1, <1>5, PairNodes DEF MakesNode, HoldsNode
  <2> QED
    BY <1>3, <1>7, <2>1 DEF NodesInv
<1>9. PusherInv(u) /\ PopperInv(c)
  BY <1>2, <1>3, <1>5, <1>7 DEF PusherInv, PopperInv, MakesNode, HoldsNode
<1>10. TypeOK
  BY <1>2, <1>3, <1>4 DEF Init, TypeOK, Address, Start, Element
<1>11. QInv
  BY <1>1, <1>2, <1>4, <1>5, <1>7, <1>8, <1>9, <1>10
     DEF QInv, QueueInv, DestroyInv, CountInv, Init, Taken, Given
<1> QED
  BY <1>4, <1>11 DEF Init, AtStart

LEMMA QueueStep ==
  ASSUME OnePair, QInv, Next
  PROVE  QInv'
<1>1. PICK u, c : Pushers = {u} /\ Poppers = {c}
  BY DEF OnePair
<1>2. CASE push2(u)
  BY <1>1, <1>2, PusherLocal, NewNodeKeeps, LinkKeeps DEF push2
<1>3. CASE pop2(c)
  BY <1>1, <1>3, PopperLocal, UnlinkKeeps, DeleteNodeKeeps DEF pop2
<1>4. CASE MainStep
  BY <1>1, <1>4, NextRoundKeeps, DestroyKeeps DEF MainStep
<1> QED
  BY <1>1, <1>2, <1>3, <1>4 DEF Next

(* The threads access nodes of the chain, or what they hold themselves. *)
LEMMA AccessesLive ==
  ASSUME OnePair, QInv
  PROVE  NoDanglingAccess
<1> SUFFICES ASSUME main = "run", NEW th \in Thread, Dereferences(th)
             PROVE  Target(th) \in allocated
  BY DEF NoDanglingAccess
<1>1. PICK u, c : Pushers = {u} /\ Poppers = {c}
  BY DEF OnePair
<1>2. u # c /\ Thread = {u, c}
  BY <1>1, Pair
<1>3. ChainInv /\ NodesInv /\ PusherInv(u) /\ PopperInv(c)
  BY <1>1, PairInv
<1>4. Last \in allocated /\ head \in allocated /\ Held \subseteq allocated
  BY <1>3, ChainEnds DEF NodesInv
<1>5. CASE th = u
  BY <1>1, <1>3, <1>4, <1>5 DEF Dereferences, Target, PusherInv
<1>6. CASE th = c
  <2>1. HoldsNode(c) => p[c] \in allocated
    BY <1>1, <1>4, PairNodes
  <2> QED
    BY <1>1, <1>2, <1>3, <1>4, <1>6, <2>1 DEF Dereferences, Target, PopperInv, HoldsNode
<1> QED
  BY <1>2, <1>5, <1>6

LEMMA ChainIsLive ==
  ASSUME QInv
  PROVE  ChainLinked
BY DEF QInv, QueueInv, ChainInv, NodesInv, Linked, ChainLinked

LEMMA LeavesEmpty ==
  ASSUME OnePair, QInv
  PROVE  RoundLeavesEmpty
BY JoinedEmpty DEF OnePair, QInv, DestroyInv, RoundLeavesEmpty

-----------------------------------------------------------------------------
(***************************************************************************)
(* The queue is a FIFO queue: every step of a thread is a step of          *)
(* FifoQueue or leaves its variables as they are.                          *)
(***************************************************************************)
Contents == [k \in 1 .. Len(chain) - 1 |-> data[chain[k + 1]]]
Results  == [c \in Poppers |-> Result(c)]

(* Whoever is about to read its element reads it from the first node. *)
LEMMA ResultIs ==
  ASSUME NEW c
  PROVE  /\ PopperInv(c) => Result(c) = IF pc[c] \in {"fetch", "read"} THEN data[head] ELSE e[c]
         /\ PopperInv(c)' => Result(c)' = IF pc'[c] \in {"fetch", "read"} THEN data'[head'] ELSE e'[c]
BY DEF Result, FetchNext, PopperInv, HoldsNode

LEMMA ContentsSame ==
  ASSUME chain' = chain, Len(chain) \in Nat, \A a \in Linked : data'[a] = data[a]
  PROVE  Contents' = Contents
<1>1. \A k \in 1 .. Len(chain) - 1 : k + 1 \in 1 .. Len(chain)
  OBVIOUS
<1>2. \A k \in 1 .. Len(chain) - 1 : data'[chain[k + 1]] = data[chain[k + 1]]
  BY <1>1 DEF Linked
<1> QED
  BY <1>2 DEF Contents

LEMMA PusherLocalFifo ==
  ASSUME NEW u, NEW c, Pushers = {u}, Poppers = {c}, QInv, QInv',
         \/ ReadTail(u) \/ ReadOldTail(u) \/ Walk(u) \/ Advance(u) \/ SwingTail(u) \/ CountPush(u)
         \/ NewNode(u)
  PROVE  Contents' = Contents /\ Results' = Results
<1>1. main = "run" /\ main' = "run"
  BY DEF ReadTail, ReadOldTail, Walk, Advance, SwingTail, CountPush, NewNode, Moves, mainVars
<1>2. u # c
  BY Pair
<1>3. /\ TypeOK /\ ChainInv /\ NodesInv /\ PopperInv(c) /\ PopperInv(c)'
  BY <1>1, PairInv DEF QInv, QueueInv
<1>4. chain' = chain /\ head' = head /\ e' = e /\ pc'[c] = pc[c]
  <2>1. chain' = chain /\ head' = head /\ e' = e
    BY DEF ReadTail, ReadOldTail, Walk, Advance, SwingTail, CountPush, NewNode, queueVars, popVars
  <2>2. pc' = [pc EXCEPT ![u] = pc'[u]]
    BY <1>3 DEF ReadTail, ReadOldTail, Walk, Advance, SwingTail, CountPush, NewNode, Moves, TypeOK, Thread
  <2>3. DOMAIN pc = Thread /\ c \in Thread
    BY <1>3 DEF TypeOK, Thread
  <2>4. pc'[c] = pc[c]
    BY <1>2, <2>2, <2>3
  <2> QED
    BY <2>1, <2>4
<1>5. \A a \in Linked : data'[a] = data[a]
  <2>1. CASE NewNode(u)
    BY <2>1, <1>3 DEF NewNode, NodesInv, TypeOK
  <2>2. CASE ~ NewNode(u)
    BY <2>2 DEF ReadTail, ReadOldTail, Walk, Advance, SwingTail, CountPush, heapVars
  <2> QED
    BY <2>1, <2>2
<1>6. Len(chain) \in Nat /\ head \in Linked
  BY <1>3, ChainEnds
<1>7. Contents' = Contents
  BY <1>4, <1>5, <1>6, ContentsSame
<1>8. Result(c)' = Result(c)
  BY <1>3, <1>4, <1>5, <1>6, ResultIs
<1> QED
  BY <1>7, <1>8 DEF Results

LEMMA PopperLocalFifo ==
  ASSUME NEW u, NEW c, Pushers = {u}, Poppers = {c}, QInv, QInv',
         \/ ReadHead(c) \/ ReadNext(c) \/ Fetch(c) \/ ReadData(c) \/ DeleteNode(c)
         \/ LoadCount(c) \/ StoreCount(c) \/ CheckCount(c)
         \/ TestNext(c) /\ next[p[c]] # Null
         \/ Unlink(c) /\ head # p[c]
  PROVE  Contents' = Contents /\ Results' = Results
<1>1. main = "run" /\ main' = "run"
  BY DEF ReadHead, TestNext, ReadNext, Unlink, Fetch, ReadData, DeleteNode, LoadCount, StoreCount,
         CheckCount, Moves, mainVars
<1>3. /\ TypeOK /\ ChainInv /\ PopperInv(c) /\ PopperInv(c)'
  BY <1>1, PairInv DEF QInv, QueueInv
<1>4. chain' = chain /\ head' = head /\ data' = data
  BY DEF ReadHead, TestNext, ReadNext, Unlink, Fetch, ReadData, DeleteNode, LoadCount, StoreCount,
         CheckCount, queueVars, heapVars
<1>5. Len(chain) \in Nat
  BY <1>3, ChainEnds
<1>6. Contents' = Contents
  BY <1>4, <1>5, ContentsSame
<1>7. Result(c)' = Result(c)
  <2>1. CASE ReadData(c)
    <3>1. pc[c] = "read" /\ pc'[c] = "delete" /\ e'[c] = data[n[c]] /\ n[c] = head
      BY <2>1, <1>3 DEF ReadData, Moves, TypeOK, PopperInv, Thread
    <3> QED
      BY <1>3, <3>1, ResultIs
  <2>2. CASE ~ ReadData(c)
    <3>1. e' = e /\ (pc'[c] \in {"fetch", "read"} <=> pc[c] \in {"fetch", "read"})
      BY <2>2, <1>3 DEF ReadHead, TestNext, ReadNext, Unlink, Fetch, DeleteNode, LoadCount, StoreCount,
                        CheckCount, Moves, TypeOK, Thread, popVars
    <3> QED
      BY <1>3, <1>4, <3>1, ResultIs
  <2> QED
    BY <2>1, <2>2
<1> QED
  BY <1>6, <1>7 DEF Results

LEMMA LinkFifo ==
  ASSUME NEW u, NEW c, Pushers = {u}, Poppers = {c}, QInv, QInv', Link(u)
  PROVE  i[u] \in Element /\ Contents' = Append(Contents, i[u]) /\ Results' = Results
<1>1. main = "run" /\ main' = "run" /\ data' = data /\ head' = head /\ e' = e
  BY DEF Link, Moves, mainVars, popVars
<1>2. u # c /\ Count \in Nat \ {0}
  BY Pair
<1>3. /\ TypeOK /\ ChainInv /\ PusherInv(u) /\ PopperInv(c) /\ PopperInv(c)'
  BY <1>1, PairInv DEF QInv, QueueInv
<1>4. chain' = Append(chain, p[u]) /\ data[p[u]] = i[u] /\ pc'[c] = pc[c] /\ pc[u] = "link"
  BY LinkKeeps DEF Link, Moves
<1> DEFINE L == Len(chain)
           a == p[u]
<1>5. /\ chain \in Seq(Node) /\ L \in Nat \ {0} /\ a \in Node
      /\ \A k \in 1 .. L : chain[k] \in Node
  BY <1>3, <1>4, ChainEnds, ElementOfSeq DEF ChainInv, PusherInv, MakesNode
<1>6. /\ Len(chain') = L + 1 /\ chain'[L + 1] = a
      /\ \A k \in 1 .. L : chain'[k] = chain[k]
  BY <1>4, <1>5, AppendProperties
<1>7. data[a] = i[u] /\ \A b \in Node : data[b] \in Element
  BY <1>3, <1>4 DEF TypeOK
<1>8. i[u] \in Element
  BY <1>2, <1>3, <1>4 DEF PusherInv, TypeOK, Element
<1> HIDE DEF L, a
<1>9. Contents' = Append(Contents, i[u])
  <2> DEFINE K == L - 1
  <2>1. K \in Nat /\ L = K + 1 /\ \A k \in 1 .. K : k + 1 \in 1 .. L /\ k \in 1 .. K + 1
    BY <1>5
  <2>2. \A k \in 1 .. K + 1 : k \in 1 .. K \/ k = K + 1
    BY <2>1
  <2> HIDE DEF K
  <2>3. Contents = [k \in 1 .. K |-> data[chain[k + 1]]]
    BY DEF Contents, K, L
  <2>4. Contents \in Seq(Element) /\ Len(Contents) = K
    <3>1. Contents \in [1 .. K -> Element]
      BY <1>5, <1>7, <2>1, <2>3
    <3> QED
      BY <2>1, <3>1
  <2>5. Contents' = [k \in 1 .. K + 1 |-> data[chain'[k + 1]]]
    <3>1. Len(chain') - 1 = K + 1
      BY <1>6, <2>1
    <3> QED
      BY <1>1, <3>1 DEF Contents
  <2>6. \A k \in 1 .. K : data[chain'[k + 1]] = Contents[k]
    BY <1>6, <2>1, <2>3
  <2>7. data[chain'[(K + 1) + 1]] = i[u]
    BY <1>6, <1>7, <2>1
  <2>8. /\ Append(Contents, i[u]) \in Seq(Element) /\ Len(Append(Contents, i[u])) = K + 1
        /\ \A k \in 1 .. K : Append(Contents, i[u])[k] = Contents[k]
        /\ Append(Contents, i[u])[K + 1] = i[u]
    BY <1>8, <2>4, AppendProperties
  <2>9. Contents' \in Seq(Element) /\ Len(Contents') = K + 1
    <3>1. \A k \in 1 .. K + 1 : data[chain'[k + 1]] \in Element
      <4>1. \A k \in 1 .. K : data[chain'[k + 1]] \in Element
        BY <1>5, <1>6, <1>7, <2>1
      <4> QED
        BY <1>8, <2>2, <2>7, <4>1
    <3>2. Contents' \in [1 .. K + 1 -> Element]
      BY <2>5, <3>1
    <3>3. K + 1 \in Nat
      BY <2>1
    <3> QED
      BY <3>2, <3>3
  <2>10. \A k \in 1 .. K + 1 : Contents'[k] = Append(Contents, i[u])[k]
    BY <2>2, <2>5, <2>6, <2>7, <2>8
  <2> QED
    BY <2>8, <2>9, <2>10, SeqEqual
<1>10. Result(c)' = Result(c)
  BY <1>1, <1>3, <1>4, ResultIs
<1> QED
  BY <1>8, <1>9, <1>10 DEF Results

LEMMA UnlinkFifo ==
  ASSUME NEW u, NEW c, Pushers = {u}, Poppers = {c}, QInv, QInv', Unlink(c), head = p[c]
  PROVE  /\ Contents # <<>> /\ Contents' = Tail(Contents)
         /\ Results' = [Results EXCEPT ![c] = Head(Contents)]
<1>1. main = "run" /\ main' = "run" /\ data' = data
  BY DEF Unlink, Moves, mainVars, heapVars
<1>2. /\ TypeOK /\ ChainInv /\ ChainInv' /\ PopperInv(c)'
  BY <1>1, PairInv DEF QInv, QueueInv
<1>3. /\ Len(chain) > 1 /\ chain' = Tail(chain) /\ pc'[c] = "fetch"
  <2>1. Len(chain) > 1 /\ chain' = Tail(chain) /\ pc' = [pc EXCEPT ![c] = "fetch"]
    BY UnlinkKeeps
  <2> QED
    BY <1>2, <2>1 DEF TypeOK, Thread
<1> DEFINE L == Len(chain)
           K == L - 2
<1>4. chain \in Seq(Node) /\ chain # <<>> /\ L \in Nat /\ \A k \in 1 .. L : chain[k] \in Node
  BY <1>2, ElementOfSeq, LenProperties DEF ChainInv
<1>5. /\ Len(chain') = L - 1 /\ \A k \in 1 .. Len(chain') : chain'[k] = chain[k + 1]
  BY <1>3, <1>4, HeadTailProperties
<1>6. /\ K \in Nat /\ L = K + 2 /\ L - 1 = K + 1 /\ Len(chain') - 1 = K
      /\ \A k \in 1 .. K + 1 : k + 1 \in 1 .. L /\ k \in 1 .. Len(chain')
      /\ \A k \in 1 .. K : k + 1 \in 1 .. K + 1
      /\ 1 \in 1 .. K + 1 /\ 1 \in 1 .. Len(chain')
  BY <1>3, <1>4, <1>5
<1>7. \A b \in Node : data[b] \in Element
  BY <1>2 DEF TypeOK
<1>8. Contents = [k \in 1 .. K + 1 |-> data[chain[k + 1]]] /\ Contents' = [k \in 1 .. K |-> data[chain'[k + 1]]]
  BY <1>1, <1>6 DEF Contents
<1> HIDE DEF L, K
<1>9. Contents \in Seq(Element) /\ Len(Contents) = K + 1 /\ Contents # <<>>
  <2>1. Contents \in [1 .. K + 1 -> Element]
    BY <1>4, <1>6, <1>7, <1>8
  <2>2. K + 1 \in Nat /\ K + 1 # 0
    BY <1>6
  <2>3. Contents \in Seq(Element) /\ Len(Contents) = K + 1
    BY <2>1, <2>2
  <2> QED
    BY <2>2, <2>3, EmptySeq
<1>10. /\ Tail(Contents) \in Seq(Element) /\ Len(Tail(Contents)) = K
       /\ \A k \in 1 .. K : Tail(Contents)[k] = Contents[k + 1]
       /\ Head(Contents) = Contents[1]
  <2>1. /\ Tail(Contents) \in Seq(Element) /\ Len(Tail(Contents)) = Len(Contents) - 1
        /\ \A k \in 1 .. Len(Tail(Contents)) : Tail(Contents)[k] = Contents[k + 1]
        /\ Head(Contents) = Contents[1]
    BY <1>9, HeadTailProperties
  <2>2. Len(Tail(Contents)) = K
    BY <1>6, <1>9, <2>1
  <2> QED
    BY <2>1, <2>2
<1>11. Contents' = Tail(Contents)
  <2>1. \A k \in 1 .. K : Contents'[k] = Contents[k + 1]
    <3>1. \A k \in 1 .. K : Contents'[k] = data[chain'[k + 1]] /\ Contents[k + 1] = data[chain[(k + 1) + 1]]
      BY <1>6, <1>8
    <3> QED
      BY <1>5, <1>6, <3>1
  <2>2. Contents' \in [1 .. K -> Element]
    <3>1. \A k \in 1 .. K : Contents[k + 1] \in Element
      BY <1>6, <1>9, ElementOfSeq
    <3> QED
      BY <1>8, <2>1, <3>1
  <2>3. Contents' \in Seq(Element) /\ Len(Contents') = K
    BY <1>6, <2>2
  <2> QED
    BY <1>10, <2>1, <2>3, SeqEqual
<1>12. Result(c)' = Head(Contents)
  <2>1. Result(c)' = data[head'] /\ head' = chain'[1]
    BY <1>1, <1>2, <1>3, ResultIs DEF ChainInv
  <2>2. chain'[1] = chain[2] /\ Contents[1] = data[chain[2]]
    BY <1>5, <1>6, <1>8
  <2> QED
    BY <1>10, <2>1, <2>2
<1> QED
  BY <1>9, <1>11, <1>12 DEF Results

LEMMA EmptyFifo ==
  ASSUME NEW u, NEW c, Pushers = {u}, Poppers = {c}, QInv, QInv', TestNext(c), next[p[c]] = Null
  PROVE  Contents = <<>> /\ Contents' = Contents /\ Results' = [Results EXCEPT ![c] = Nothing]
<1>1. main = "run" /\ main' = "run" /\ pc[c] = "test" /\ pc' = [pc EXCEPT ![c] = "check"]
      /\ e' = [e EXCEPT ![c] = Nothing] /\ chain' = chain /\ data' = data
  BY DEF TestNext, Moves, mainVars, heapVars, queueVars
<1>2. /\ TypeOK /\ ChainInv /\ PopperInv(c) /\ PopperInv(c)'
  BY <1>1, PairInv DEF QInv, QueueInv
<1>3. p[c] = head /\ Len(chain) = 1
  BY <1>1, <1>2, ChainEnds DEF PopperInv
<1>4. Contents = <<>>
  BY <1>3 DEF Contents
<1>5. Contents' = Contents
  BY <1>1, <1>3, ContentsSame
<1>6. Result(c)' = Nothing
  BY <1>1, <1>2, ResultIs DEF TypeOK, Thread
<1> QED
  BY <1>4, <1>5, <1>6 DEF Results

(* main only looks on: the threads are done. *)
LEMMA MainFifo ==
  ASSUME OnePair, QInv, MainStep
  PROVE  Contents' = Contents /\ Results' = Results
<1>1. PICK u, c : Pushers = {u} /\ Poppers = {c}
  BY DEF OnePair
<1>2. chain' = chain /\ data' = data /\ e' = e /\ TypeOK
  BY DEF MainStep, NextRound, DeleteHead, Exit, heapVars, queueVars, popVars, QInv
<1>3. Len(chain) \in Nat
  BY <1>2, LenProperties DEF TypeOK
<1>4. Contents' = Contents
  BY <1>2, <1>3, ContentsSame
<1>5. pc[c] = "done" /\ pc'[c] \notin {"fetch", "read"}
  <2>1. Joined /\ c \in Thread /\ c \notin Pushers
    BY <1>1, Pair DEF MainStep, NextRound, DeleteHead, Exit, QInv, DestroyInv, Thread
  <2>2. pc[c] = "done"
    BY <2>1 DEF Joined
  <2>3. pc' = pc \/ pc' = Start
    BY DEF MainStep, NextRound, DeleteHead, Exit
  <2> QED
    BY <2>1, <2>2, <2>3 DEF Start
<1>6. Result(c)' = Result(c)
  BY <1>2, <1>5 DEF Result
<1> QED
  BY <1>1, <1>4, <1>6 DEF Results

LEMMA QueueInitFifo ==
  ASSUME OnePair, Init
  PROVE  Fifo!Init
<1>1. PICK u, c : Pushers = {u} /\ Poppers = {c}
  BY DEF OnePair
<1>2. Len(chain) = 1
  BY DEF Init
<1>3. Contents = <<>>
  BY <1>2 DEF Contents
<1>4. Result(c) = Nothing
  <2>1. u # c /\ Thread = {u, c}
    BY <1>1, Pair
  <2> QED
    BY <1>1, <2>1 DEF Result, Init, Start
<1> QED
  BY <1>1, <1>3, <1>4 DEF Fifo!Init, Contents

LEMMA QueueStepFifo ==
  ASSUME OnePair, QInv, Next
  PROVE  [Fifo!Next]_(Fifo!vars)
<1>1. PICK u, c : Pushers = {u} /\ Poppers = {c}
  BY DEF OnePair
<1>2. QInv'
  BY QueueStep
<1>3. Contents' = Contents /\ Results' = Results => UNCHANGED Fifo!vars
  BY DEF Fifo!vars, Contents, Results
<1>4. CASE Link(u)
  <2>1. i[u] \in Element /\ Contents' = Append(Contents, i[u]) /\ Results' = Results
    BY <1>1, <1>2, <1>4, LinkFifo
  <2>2. PICK x \in Element : x = i[u]
    BY <2>1
  <2>3. Fifo!Push(x)
    BY <2>1, <2>2 DEF Fifo!Push, Contents, Results
  <2> QED
    BY <2>3 DEF Fifo!Next
<1>5. CASE Unlink(c) /\ head = p[c]
  <2>1. Contents # <<>> /\ Contents' = Tail(Contents) /\ Results' = [Results EXCEPT ![c] = Head(Contents)]
    BY <1>1, <1>2, <1>5, UnlinkFifo
  <2>2. Fifo!Pop(c)
    BY <2>1 DEF Fifo!Pop, Contents, Results
  <2> QED
    BY <1>1, <2>2 DEF Fifo!Next
<1>6. CASE TestNext(c) /\ next[p[c]] = Null
  <2>1. Contents = <<>> /\ Contents' = Contents /\ Results' = [Results EXCEPT ![c] = Nothing]
    BY <1>1, <1>2, <1>6, EmptyFifo
  <2>2. Fifo!Empty(c)
    BY <2>1 DEF Fifo!Empty, Contents, Results
  <2> QED
    BY <1>1, <2>2 DEF Fifo!Next
<1>7. CASE MainStep
  BY <1>3, <1>7, MainFifo
<1>8. CASE push2(u) /\ ~ Link(u)
  BY <1>1, <1>2, <1>3, <1>8, PusherLocalFifo DEF push2
<1>9. CASE pop2(c) /\ ~ (Unlink(c) /\ head = p[c]) /\ ~ (TestNext(c) /\ next[p[c]] = Null)
  BY <1>1, <1>2, <1>3, <1>9, PopperLocalFifo DEF pop2
<1> QED
  BY <1>1, <1>4, <1>5, <1>6, <1>7, <1>8, <1>9 DEF Next, push2, pop2
=============================================================================
