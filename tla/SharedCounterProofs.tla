------------------------- MODULE SharedCounterProofs -------------------------
(***************************************************************************)
(* Proofs about SharedCounter, for any number of threads, rounds and       *)
(* increments.                                                             *)
(***************************************************************************)
EXTENDS SharedCounter, SequenceTheorems, NatLemmas

LEMMA Constants ==
  /\ Loops \in Nat \ {0} /\ Adds \in Nat \ {0}
  /\ Total \in Nat \ {0}
  /\ IsFiniteSet(Threads) /\ Threads # {}
BY CountsAssumption DEF Total

LEMMA TotalMod == Total % Adds = 0
BY Constants, MultipleMod DEF Total

LEMMA LocationSet == Locations = {"counter", "plain", "word"}
BY DEF Locations, NoMemory

-----------------------------------------------------------------------------
(***************************************************************************)
(* Types.                                                                  *)
(***************************************************************************)
Entry    == [loc : Locations, val : Nat]
Programs == {<<"mutex", "atomic", "spin", "flag">>, <<"atomic", "spin", "flag">>,
             <<"spin", "flag">>, <<"flag">>, <<"demo">>, <<>>}
PcValues == {"head", "lock", "load", "store", "unlock", "xadd", "out"}

TypeInv ==
  /\ tests \in Programs
  /\ mem \in [Locations -> Nat]
  /\ buffer \in [Threads -> Seq(Entry)]
  /\ pc \in [Threads -> PcValues]
  /\ reg \in [Threads -> Nat]
  /\ done \in [Threads -> Nat]
  /\ printed \in Seq([counter : Nat, plain : Nat])

(* What a load sees is a number in memory or in the thread's own buffer. *)
LEMMA LoadType ==
  ASSUME TypeInv, NEW t \in Threads, NEW loc \in Locations
  PROVE  Load(t, loc) \in Nat
<1> DEFINE own == {n \in DOMAIN buffer[t] : buffer[t][n].loc = loc}
<1>1. buffer[t] \in Seq(Entry)
  BY DEF TypeInv
<1>2. Len(buffer[t]) \in Nat /\ own \in SUBSET (0 .. Len(buffer[t]))
  BY <1>1, LenProperties
<1>3. own # {} => Max(own) \in own
  BY <1>2, MaxProperty
<1>4. own # {} => buffer[t][Max(own)] \in Entry
  BY <1>1, <1>3, LenProperties, ElementOfSeq
<1> QED
  BY <1>4 DEF Load, TypeInv, Entry

LEMMA TypeInit == Init => TypeInv
<1> SUFFICES ASSUME Init PROVE TypeInv
  OBVIOUS
<1>1. NoMemory \in [Locations -> Nat]
  BY DEF Locations, NoMemory
<1>2. <<>> \in Seq(Entry) /\ <<>> \in Seq([counter : Nat, plain : Nat])
  OBVIOUS
<1> QED
  BY <1>1, <1>2 DEF Init, TypeInv, Programs, Each, PcValues

LEMMA TestCases ==
  ASSUME TypeInv, tests # <<>>
  PROVE  /\ Test \in {"mutex", "atomic", "spin", "flag", "demo"}
         /\ Tail(tests) \in Programs
         /\ Len(tests) \in 1 .. 4 /\ Len(Tail(tests)) = Len(tests) - 1
         /\ Test = "demo" => tests = <<"demo">> /\ Tail(tests) = <<>>
         /\ Tail(tests) # <<>> => Head(Tail(tests)) # "demo"
         /\ Tail(tests) = <<>> /\ Test # "demo" => Len(tests) = 1
<1>1. CASE tests = <<"mutex", "atomic", "spin", "flag">>
  <2>1. Tail(tests) = <<"atomic", "spin", "flag">>
    BY <1>1
  <2> QED
    BY <1>1, <2>1 DEF Programs, Test
<1>2. CASE tests = <<"atomic", "spin", "flag">>
  <2>1. Tail(tests) = <<"spin", "flag">>
    BY <1>2
  <2> QED
    BY <1>2, <2>1 DEF Programs, Test
<1>3. CASE tests = <<"spin", "flag">>
  <2>1. Tail(tests) = <<"flag">>
    BY <1>3
  <2> QED
    BY <1>3, <2>1 DEF Programs, Test
<1>4. CASE tests = <<"flag">>
  <2>1. Tail(tests) = <<>>
    BY <1>4
  <2> QED
    BY <1>4, <2>1 DEF Programs, Test
<1>5. CASE tests = <<"demo">>
  <2>1. Tail(tests) = <<>>
    BY <1>5
  <2> QED
    BY <1>5, <2>1 DEF Programs, Test
<1> QED
  BY <1>1, <1>2, <1>3, <1>4, <1>5 DEF TypeInv, Programs

LEMMA StoreType ==
  ASSUME TypeInv, NEW t \in Threads, NEW loc \in Locations, NEW v \in Nat, Store(t, loc, v)
  PROVE  buffer' \in [Threads -> Seq(Entry)]
<1>1. [loc |-> loc, val |-> v] \in Entry
  BY DEF Entry
<1> QED
  BY <1>1, AppendProperties DEF TypeInv, Store

LEMMA TypeNext == TypeInv /\ [Next]_vars => TypeInv'
<1> SUFFICES ASSUME TypeInv, [Next]_vars PROVE TypeInv'
  OBVIOUS
<1>1. ASSUME NEW t \in Threads, LoopHead(t)
      PROVE  TypeInv'
  BY <1>1 DEF LoopHead, At, GoTo, TypeInv, PcValues
<1>2. ASSUME NEW t \in Threads, Lock(t)
      PROVE  TypeInv'
  BY <1>2, LocationSet DEF Lock, At, GoTo, TypeInv, PcValues
<1>3. ASSUME NEW t \in Threads, LoadForAdd(t)
      PROVE  TypeInv'
  <2>1. Load(t, IF Test = "demo" THEN "plain" ELSE "counter") \in Nat
    BY LoadType, LocationSet
  <2> QED
    BY <1>3, <2>1 DEF LoadForAdd, At, GoTo, TypeInv, PcValues
<1>4. ASSUME NEW t \in Threads, StoreSum(t)
      PROVE  TypeInv'
  <2>1. reg[t] + 1 \in Nat
    BY DEF TypeInv
  <2>2. buffer' \in [Threads -> Seq(Entry)]
    BY <1>4, <2>1, StoreType, LocationSet DEF StoreSum
  <2>3. done' \in [Threads -> Nat]
    BY <1>4 DEF StoreSum, GoTo, TypeInv
  <2>4. \/ pc' = [pc EXCEPT ![t] = "head"]
        \/ pc' = [pc EXCEPT ![t] = IF (done[t] + 1) % Adds = 0 THEN "unlock" ELSE "load"]
    BY <1>4 DEF StoreSum, GoTo
  <2>5. pc' \in [Threads -> PcValues]
    BY <2>4 DEF TypeInv, PcValues
  <2> QED
    BY <1>4, <2>2, <2>3, <2>5 DEF StoreSum, TypeInv
<1>5. ASSUME NEW t \in Threads, Unlock(t)
      PROVE  TypeInv'
  <2>1. CASE Test = "mutex"
    BY <1>5, <2>1, LocationSet DEF Unlock, At, GoTo, TypeInv, PcValues
  <2>2. CASE Test # "mutex"
    <3>1. buffer' \in [Threads -> Seq(Entry)]
      BY <1>5, <2>2, StoreType, LocationSet DEF Unlock
    <3> QED
      BY <1>5, <2>2, <3>1 DEF Unlock, At, GoTo, TypeInv, PcValues
  <2> QED
    BY <2>1, <2>2
<1>6. ASSUME NEW t \in Threads, AtomicAdd(t)
      PROVE  TypeInv'
  <2>0. /\ mem' = [mem EXCEPT !.counter = mem.counter + 1]
        /\ done' = [done EXCEPT ![t] = done[t] + 1]
    BY <1>6 DEF AtomicAdd
  <2>1. mem \in [Locations -> Nat] /\ done \in [Threads -> Nat]
    BY DEF TypeInv
  <2>2. done' \in [Threads -> Nat]
    BY <2>0, <2>1
  <2>3. mem' \in [Locations -> Nat]
    BY <2>0, <2>1, LocationSet
  <2>4. pc' = [pc EXCEPT ![t] = IF Test = "demo" THEN "load" ELSE "head"]
    BY <1>6 DEF AtomicAdd, GoTo
  <2>5. pc' \in [Threads -> PcValues]
    BY <2>4 DEF TypeInv, PcValues
  <2> QED
    BY <1>6, <2>2, <2>3, <2>5 DEF AtomicAdd, TypeInv
<1>7. ASSUME NEW t \in Threads, Drain(t)
      PROVE  TypeInv'
  <2>1. buffer[t] \in Seq(Entry) /\ buffer[t] # <<>>
    BY <1>7 DEF Drain, TypeInv
  <2>2. Head(buffer[t]) \in Entry /\ Tail(buffer[t]) \in Seq(Entry)
    BY <2>1, HeadTailProperties
  <2>3. mem' \in [Locations -> Nat] /\ buffer' \in [Threads -> Seq(Entry)]
    BY <1>7, <2>2 DEF Drain, TypeInv, Entry
  <2> QED
    BY <1>7, <2>3 DEF Drain, TypeInv, threadVars
<1>8. CASE JoinAndPrint
  <2>1. [counter |-> mem.counter, plain |-> mem.plain] \in [counter : Nat, plain : Nat]
    BY LocationSet DEF TypeInv
  <2>2. printed' \in Seq([counter : Nat, plain : Nat])
    BY <1>8, <2>1, AppendProperties DEF JoinAndPrint, TypeInv
  <2>3. tests' \in Programs
    BY <1>8, TestCases DEF JoinAndPrint, Joined
  <2> QED
    BY <1>8, <2>2, <2>3, LocationSet DEF JoinAndPrint, TypeInv, Each, PcValues
<1>9. CASE UNCHANGED vars
  BY <1>9 DEF vars, threadVars, TypeInv
<1> QED
  BY <1>1, <1>2, <1>3, <1>4, <1>5, <1>6, <1>7, <1>8, <1>9 DEF Next, Step

-----------------------------------------------------------------------------
(***************************************************************************)
(* The inductive invariant.                                                *)
(***************************************************************************)
Running == tests # <<>>
InLocked == Running /\ Test \in Locked
InAtomic == Running /\ Test = "atomic"
InDemo == Running /\ Test = "demo"

Steps == IF InLocked THEN {"head", "lock", "load", "store", "unlock", "out"}
         ELSE IF InAtomic THEN {"head", "xadd", "out"}
         ELSE IF InDemo THEN {"head", "xadd", "load", "store", "out"}
         ELSE {"head"}

(* Which step goes with which count of increments. *)
Flow(t) ==
  /\ pc[t] \in Steps
  /\ done[t] <= Total
  /\ ~Running => done[t] = 0
  /\ pc[t] \in {"lock", "xadd"} => done[t] < Total
  /\ pc[t] = "out" => done[t] = Total /\ buffer[t] = <<>>
  /\ InLocked /\ pc[t] \in {"load", "store"} => done[t] < Total
  /\ InLocked /\ pc[t] \notin {"load", "store"} => done[t] % Adds = 0
  /\ InDemo /\ pc[t] \in {"load", "store"} => done[t] >= 1

(* What may wait in a buffer: the sums of one critical section, then the      *)
(* release; one unprotected sum in the demo; nothing beside the atomic test.  *)
Buffered(t) ==
  /\ Len(buffer[t]) <= Adds + 1
  /\ ~Running \/ InAtomic => buffer[t] = <<>>
  /\ InDemo => /\ Len(buffer[t]) <= 1
               /\ pc[t] \in {"load", "store"} => buffer[t] = <<>>
               /\ \A n \in DOMAIN buffer[t] : buffer[t][n].loc = "plain"
  /\ InLocked => \A n \in DOMAIN buffer[t] :
        \/ buffer[t][n].loc = "counter"
        \/ /\ buffer[t][n] = [loc |-> "word", val |-> 0]
           /\ n = Len(buffer[t]) /\ pc[t] \in {"head", "lock"}
  /\ InLocked /\ pc[t] \in {"head", "lock"} /\ buffer[t] # <<>>
        => buffer[t][Len(buffer[t])].loc = "word"
  /\ InLocked /\ pc[t] \in {"load", "store"} => Len(buffer[t]) <= done[t] % Adds
  /\ InLocked /\ pc[t] = "unlock" => Len(buffer[t]) <= Adds

(* A thread holds the lock until memory has its release. *)
Holder(t) == InLocked /\ (pc[t] \in {"load", "store", "unlock"} \/ buffer[t] # <<>>)

LockInv ==
  /\ \A t, u \in Threads : Holder(t) /\ Holder(u) => t = u
  /\ \A t \in Threads : Holder(t) => mem.word = 1
  /\ mem.word \in {0, 1}

(* The increments that have been made, and the sums that have been stored: *)
(* in the demo, the round of a thread that is at s_j is not stored yet.    *)
Pairs(f) == {p \in Threads \X (1 .. Total) : p[2] <= f[p[1]]}
Count(f) == Cardinality(Pairs(f))
Made == Count(done)
Finished == [t \in Threads |-> IF InDemo /\ pc[t] \in {"load", "store"}
                               THEN done[t] - 1 ELSE done[t]]
Stored == Count(Finished)

(* The last sum on its way to memory, or else memory, has every increment. *)
CountInv ==
  /\ \A t \in Threads : \A n \in DOMAIN buffer[t] :
        /\ buffer[t][n].loc = "counter"
        /\ \A m \in DOMAIN buffer[t] : m > n => buffer[t][m].loc # "counter"
        => buffer[t][n].val = Made
  /\ (\A t \in Threads : \A n \in DOMAIN buffer[t] : buffer[t][n].loc # "counter")
        => mem.counter = Made
  /\ \A t \in Threads : InLocked /\ pc[t] = "store" => reg[t] = Made

(* No value exceeds the number of sums stored. *)
BoundInv ==
  /\ mem.counter <= Made
  /\ \A t \in Threads : reg[t] <= Stored /\ \A n \in DOMAIN buffer[t] : buffer[t][n].val <= Stored
  /\ mem.plain <= Expected
  /\ Running => mem.plain <= Stored /\ (Test # "demo" => mem.plain = 0)

(* Thread t has not brought its k-th sum to memory yet. *)
Late(t, k) == \/ done[t] < k
              \/ done[t] = k /\ (pc[t] \in {"load", "store"} \/ buffer[t] # <<>>)

(* What races on s_j cannot lose: after the first round of a thread it is 1  *)
(* at least, and it is 2 at least unless some second round is still to come. *)
PlainInv == InDemo =>
  /\ \A t \in Threads :
        /\ \A n \in DOMAIN buffer[t] :
              buffer[t][n].val >= 1 /\ (done[t] >= 2 => buffer[t][n].val >= 2)
        /\ pc[t] = "store" /\ done[t] >= 2 => reg[t] >= 1
        /\ Late(t, 1) \/ mem.plain >= 1
  /\ mem.plain >= 2 \/ \E t \in Threads : Late(t, 2)

PrintInv ==
  /\ \A n \in DOMAIN printed : printed[n].counter = Expected
  /\ tests = <<"demo">> => printed = <<>>
  /\ Running /\ Test # "demo" => Len(printed) = 4 - Len(tests)
  /\ ~Running => \/ Len(printed) = 4
                 \/ Len(printed) = 1 /\ (Total > 1 => printed[1].plain \in 2 .. Expected)

ThreadInv == \A t \in Threads : Flow(t) /\ Buffered(t)

IInv == TypeInv /\ ThreadInv /\ LockInv /\ CountInv /\ BoundInv /\ PlainInv /\ PrintInv

-----------------------------------------------------------------------------
(***************************************************************************)
(* Counting.                                                               *)
(***************************************************************************)
LEMMA AllPairs ==
  /\ IsFiniteSet(Threads \X (1 .. Total))
  /\ Cardinality(Threads \X (1 .. Total)) = Expected
  /\ Expected \in Nat
<1>1. IsFiniteSet(1 .. Total) /\ Cardinality(1 .. Total) = Total
  BY Constants, FS_Interval
<1>2. Cardinality(Threads) \in Nat
  BY Constants, FS_CardinalityType
<1>3. Cardinality(Threads \X (1 .. Total)) = Cardinality(Threads) * Total
  BY <1>1, Constants, FS_Product
<1> QED
  BY <1>1, <1>2, <1>3, Constants, FS_Product DEF Expected

LEMMA CountType ==
  ASSUME NEW f
  PROVE  IsFiniteSet(Pairs(f)) /\ Count(f) \in 0 .. Expected
<1>1. Pairs(f) \subseteq Threads \X (1 .. Total)
  BY DEF Pairs
<1>2. IsFiniteSet(Pairs(f)) /\ Count(f) <= Expected
  BY <1>1, AllPairs, FS_Subset DEF Count
<1> QED
  BY <1>2, AllPairs, FS_CardinalityType DEF Count

(* A larger count at each thread gives no fewer pairs. *)
LEMMA CountMono ==
  ASSUME NEW f \in [Threads -> Int], NEW g \in [Threads -> Int],
         \A t \in Threads : f[t] <= g[t]
  PROVE  Count(f) <= Count(g)
<1>1. Pairs(f) \subseteq Pairs(g)
  <2> SUFFICES ASSUME NEW p \in Pairs(f) PROVE p \in Pairs(g)
    OBVIOUS
  <2>1. p \in Threads \X (1 .. Total) /\ p[2] <= f[p[1]]
    BY DEF Pairs
  <2>2. p[1] \in Threads /\ p[2] \in Int
    BY <2>1
  <2>3. p[2] <= g[p[1]]
    BY <2>1, <2>2
  <2> QED
    BY <2>1, <2>3 DEF Pairs
<1> QED
  BY <1>1, CountType, FS_Subset DEF Count

LEMMA CountStep ==
  ASSUME NEW f \in [Threads -> Nat], NEW t \in Threads, f[t] < Total
  PROVE  Count([f EXCEPT ![t] = f[t] + 1]) = Count(f) + 1
<1> DEFINE g == [f EXCEPT ![t] = f[t] + 1]
<1>1. g \in [Threads -> Nat] /\ g[t] = f[t] + 1 /\ \A u \in Threads : u # t => g[u] = f[u]
  OBVIOUS
<1>2. <<t, f[t] + 1>> \in Threads \X (1 .. Total)
  BY Constants
<1>3. <<t, f[t] + 1>> \notin Pairs(f)
  BY DEF Pairs
<1> HIDE DEF g
<1>4. Pairs(g) = Pairs(f) \cup {<<t, f[t] + 1>>}
  <2>1. ASSUME NEW u \in Threads, NEW k \in 1 .. Total
        PROVE  k <= g[u] <=> (k <= f[u] \/ <<u, k>> = <<t, f[t] + 1>>)
    <3>1. CASE u = t
      BY <1>1, <3>1
    <3>2. CASE u # t
      BY <1>1, <3>2
    <3> QED
      BY <3>1, <3>2
  <2> QED
    BY <1>2, <2>1 DEF Pairs
<1>5. Cardinality(Pairs(f) \cup {<<t, f[t] + 1>>}) = Cardinality(Pairs(f)) + 1
  BY <1>3, CountType, FS_AddElement
<1> QED
  BY <1>4, <1>5 DEF Count, g

LEMMA CountNone == Count([t \in Threads |-> 0]) = 0
<1>1. Pairs([t \in Threads |-> 0]) = {}
  BY DEF Pairs
<1> QED
  BY <1>1, FS_EmptySet DEF Count

LEMMA CountAll == Count([t \in Threads |-> Total]) = Expected
<1>1. Pairs([t \in Threads |-> Total]) = Threads \X (1 .. Total)
  BY Constants DEF Pairs
<1> QED
  BY <1>1, AllPairs DEF Count

-----------------------------------------------------------------------------
(***************************************************************************)
(* What the steps do.                                                      *)
(***************************************************************************)
LEMMA BufferType ==
  ASSUME TypeInv, NEW t \in Threads
  PROVE  /\ buffer[t] \in Seq(Entry) /\ Len(buffer[t]) \in Nat
         /\ DOMAIN buffer[t] = 1 .. Len(buffer[t])
         /\ buffer[t] = <<>> <=> Len(buffer[t]) = 0
         /\ \A n \in DOMAIN buffer[t] :
               buffer[t][n] \in Entry /\ buffer[t][n].loc \in Locations /\ buffer[t][n].val \in Nat
<1>1. buffer[t] \in Seq(Entry)
  BY DEF TypeInv
<1>2. \A n \in DOMAIN buffer[t] : buffer[t][n] \in Entry
  BY <1>1, ElementOfSeq, LenProperties
<1>3. /\ Len(buffer[t]) \in Nat /\ DOMAIN buffer[t] = 1 .. Len(buffer[t])
      /\ buffer[t] = <<>> <=> Len(buffer[t]) = 0
  BY <1>1, LenProperties, EmptySeq
<1> QED
  BY <1>1, <1>2, <1>3 DEF Entry

LEMMA StoreEffect ==
  ASSUME TypeInv, NEW t \in Threads, NEW loc \in Locations, NEW v \in Nat, Store(t, loc, v)
  PROVE  /\ Len(buffer'[t]) = Len(buffer[t]) + 1
         /\ DOMAIN buffer'[t] = 1 .. Len(buffer[t]) + 1
         /\ \A n \in DOMAIN buffer[t] : buffer'[t][n] = buffer[t][n]
         /\ buffer'[t][Len(buffer[t]) + 1] = [loc |-> loc, val |-> v]
         /\ buffer'[t] # <<>>
         /\ \A u \in Threads : u # t => buffer'[u] = buffer[u]
<1>1. buffer[t] \in Seq(Entry) /\ [loc |-> loc, val |-> v] \in Entry
  BY BufferType DEF Entry
<1>2. buffer'[t] = Append(buffer[t], [loc |-> loc, val |-> v])
  BY DEF Store, TypeInv
<1>3. \A u \in Threads : u # t => buffer'[u] = buffer[u]
  BY DEF Store, TypeInv
<1> QED
  BY <1>1, <1>2, <1>3, AppendProperties, LenProperties

LEMMA DrainEffect ==
  ASSUME TypeInv, NEW t \in Threads, Drain(t)
  PROVE  /\ Len(buffer[t]) >= 1 /\ Len(buffer'[t]) = Len(buffer[t]) - 1
         /\ DOMAIN buffer'[t] = 1 .. Len(buffer[t]) - 1
         /\ \A n \in DOMAIN buffer'[t] : buffer'[t][n] = buffer[t][n + 1]
         /\ buffer'[t] = <<>> <=> Len(buffer[t]) = 1
         /\ mem' = [mem EXCEPT ![buffer[t][1].loc] = buffer[t][1].val]
         /\ \A u \in Threads : u # t => buffer'[u] = buffer[u]
<1>1. buffer[t] \in Seq(Entry) /\ buffer[t] # <<>> /\ Len(buffer[t]) \in Nat
  BY BufferType DEF Drain
<1>2. buffer'[t] = Tail(buffer[t]) /\ \A u \in Threads : u # t => buffer'[u] = buffer[u]
  BY DEF Drain, TypeInv
<1>3. /\ Len(Tail(buffer[t])) = Len(buffer[t]) - 1 /\ Len(buffer[t]) >= 1
      /\ DOMAIN Tail(buffer[t]) = 1 .. Len(buffer[t]) - 1
      /\ \A n \in DOMAIN Tail(buffer[t]) : Tail(buffer[t])[n] = buffer[t][n + 1]
      /\ Tail(buffer[t]) \in Seq(Entry)
  BY <1>1, HeadTailProperties, LenProperties, EmptySeq
<1>4. Tail(buffer[t]) = <<>> <=> Len(buffer[t]) = 1
  <2> DEFINE rest == Tail(buffer[t])
  <2>1. rest \in Seq(Entry) /\ Len(rest) = Len(buffer[t]) - 1
    BY <1>3
  <2> HIDE DEF rest
  <2>2. rest = <<>> <=> Len(rest) = 0
    BY <2>1, EmptySeq
  <2>3. rest = <<>> <=> Len(buffer[t]) = 1
    BY <1>1, <2>1, <2>2
  <2> QED
    BY <2>3 DEF rest
<1>5. Head(buffer[t]) = buffer[t][1]
  BY <1>1, HeadTailProperties
<1> QED
  BY <1>1, <1>2, <1>3, <1>4, <1>5 DEF Drain

(* A step of a thread leaves the test and the other threads alone. *)
LEMMA OneThread ==
  ASSUME TypeInv, NEW t \in Threads, Step(t) \/ Drain(t)
  PROVE  /\ tests' = tests /\ Running
         /\ \A u \in Threads : u # t => /\ pc'[u] = pc[u] /\ reg'[u] = reg[u]
                                        /\ done'[u] = done[u] /\ buffer'[u] = buffer[u]
<1> USE DEF At, GoTo, Running
<1>1. CASE LoopHead(t)
  BY <1>1 DEF LoopHead, TypeInv
<1>2. CASE Lock(t)
  BY <1>2 DEF Lock, TypeInv
<1>3. CASE LoadForAdd(t)
  BY <1>3 DEF LoadForAdd, TypeInv
<1>4. CASE StoreSum(t)
  BY <1>4 DEF StoreSum, Store, TypeInv
<1>5. CASE Unlock(t)
  BY <1>5 DEF Unlock, Store, TypeInv
<1>6. CASE AtomicAdd(t)
  BY <1>6 DEF AtomicAdd, TypeInv
<1>7. CASE Drain(t)
  BY <1>7 DEF Drain, TypeInv, threadVars
<1> QED
  BY <1>1, <1>2, <1>3, <1>4, <1>5, <1>6, <1>7 DEF Step

LEMMA Modes ==
  ASSUME TypeInv
  PROVE  /\ Running <=> InLocked \/ InAtomic \/ InDemo
         /\ ~(InLocked /\ InAtomic) /\ ~(InLocked /\ InDemo) /\ ~(InAtomic /\ InDemo)
BY TestCases DEF Running, InLocked, InAtomic, InDemo, Locked

LEMMA SameTest ==
  ASSUME tests' = tests
  PROVE  /\ Running' <=> Running
         /\ InLocked' <=> InLocked
         /\ InAtomic' <=> InAtomic
         /\ InDemo' <=> InDemo
         /\ Test' = Test /\ Steps' = Steps
BY DEF Running, InLocked, InAtomic, InDemo, Test, Steps

-----------------------------------------------------------------------------
(***************************************************************************)
(* The flow of a thread and its buffer.                                    *)
(***************************************************************************)
LEMMA ThreadInit == Init => ThreadInv
<1> SUFFICES ASSUME Init, NEW t \in Threads PROVE Flow(t) /\ Buffered(t)
  BY DEF ThreadInv
<1>1. TypeInv
  BY TypeInit
<1>2. pc[t] = "head" /\ done[t] = 0 /\ buffer[t] = <<>> /\ 0 % Adds = 0
  BY Constants, MultipleMod DEF Init, Each
<1>3. Flow(t)
  BY <1>2, Constants DEF Flow, Steps
<1>4. Len(buffer[t]) = 0 /\ DOMAIN buffer[t] = {}
  BY <1>2
<1>5. Buffered(t)
  BY <1>2, <1>4, Constants DEF Buffered
<1> QED
  BY <1>3, <1>5

LEMMA OtherThread ==
  ASSUME NEW u, pc'[u] = pc[u], done'[u] = done[u], buffer'[u] = buffer[u], tests' = tests,
         Flow(u), Buffered(u)
  PROVE  Flow(u)' /\ Buffered(u)'
BY SameTest DEF Flow, Buffered

LEMMA FlowHead ==
  ASSUME TypeInv, NEW t \in Threads, Flow(t), Buffered(t), LoopHead(t)
  PROVE  Flow(t)' /\ Buffered(t)'
<1>1. /\ tests' = tests /\ buffer' = buffer /\ done' = done /\ pc[t] = "head" /\ Running
      /\ done[t] \in Nat
  BY DEF LoopHead, At, Running, TypeInv
<1>2. \/ /\ done[t] < Total /\ pc'[t] = IF Test \in Locked THEN "lock" ELSE "xadd"
      \/ /\ done[t] >= Total /\ buffer[t] = <<>> /\ pc'[t] = "out"
  BY DEF LoopHead, GoTo, TypeInv
<1>3. Test \in Locked <=> InLocked
  BY <1>1 DEF InLocked
<1>4. CASE InLocked
  <2>1. Flow(t)'
    BY <1>1, <1>2, <1>3, <1>4, SameTest, Modes, Constants DEF Flow, Steps
  <2>2. Buffered(t)'
    BY <1>1, <1>2, <1>3, <1>4, SameTest, Modes DEF Buffered
  <2> QED
    BY <2>1, <2>2
<1>5. CASE ~InLocked
  <2>1. Flow(t)'
    BY <1>1, <1>2, <1>3, <1>5, SameTest, Modes, Constants DEF Flow, Steps
  <2>2. Buffered(t)'
    BY <1>1, <1>2, <1>3, <1>5, SameTest, Modes DEF Buffered
  <2> QED
    BY <2>1, <2>2
<1> QED
  BY <1>4, <1>5

LEMMA FlowLock ==
  ASSUME TypeInv, NEW t \in Threads, Flow(t), Buffered(t), Lock(t)
  PROVE  InLocked /\ Flow(t)' /\ Buffered(t)'
<1>1. /\ tests' = tests /\ buffer' = buffer /\ done' = done /\ pc[t] = "lock" /\ Running
      /\ done[t] \in Nat /\ pc'[t] = "load" /\ buffer[t] = <<>>
  BY DEF Lock, At, GoTo, Running, TypeInv
<1>2. InLocked
  BY <1>1 DEF Flow, Steps
<1>3. Flow(t)'
  BY <1>1, <1>2, SameTest, Modes DEF Flow, Steps
<1>4. Len(buffer[t]) = 0 /\ DOMAIN buffer[t] = {}
  BY <1>1
<1>5. done[t] % Adds \in 0 .. Adds - 1
  BY <1>1, Constants, Division
<1>6. Buffered(t)'
  BY <1>1, <1>2, <1>4, <1>5, SameTest, Modes, Constants DEF Buffered
<1> QED
  BY <1>2, <1>3, <1>6

LEMMA FlowLoad ==
  ASSUME TypeInv, NEW t \in Threads, Flow(t), Buffered(t), LoadForAdd(t)
  PROVE  (InLocked \/ InDemo) /\ Flow(t)' /\ Buffered(t)'
<1>1. /\ tests' = tests /\ buffer' = buffer /\ done' = done /\ pc[t] = "load" /\ Running
      /\ done[t] \in Nat /\ pc'[t] = "store"
  BY DEF LoadForAdd, At, GoTo, Running, TypeInv
<1>2. InLocked \/ InDemo
  BY <1>1 DEF Flow, Steps
<1>3. Flow(t)'
  BY <1>1, <1>2, SameTest, Modes DEF Flow, Steps
<1>4. Buffered(t)'
  BY <1>1, <1>2, SameTest, Modes DEF Buffered
<1> QED
  BY <1>2, <1>3, <1>4

(* A sum may be stored in a critical section or in the demo. *)
LEMMA FlowStore ==
  ASSUME TypeInv, NEW t \in Threads, Flow(t), Buffered(t), StoreSum(t)
  PROVE  (InLocked \/ InDemo) /\ Flow(t)' /\ Buffered(t)'
<1>1. tests' = tests /\ pc[t] = "store" /\ Running /\ done[t] \in Nat /\ reg[t] + 1 \in Nat
  BY DEF StoreSum, At, Running, TypeInv
<1>2. InLocked \/ InDemo
  BY <1>1 DEF Flow, Steps
<1>3. CASE InDemo
  <2>1. Store(t, "plain", reg[t] + 1) /\ done' = done /\ pc'[t] = "head"
    BY <1>3 DEF StoreSum, GoTo, InDemo, TypeInv
  <2>2. Flow(t)'
    BY <1>1, <1>3, <2>1, SameTest, Modes DEF Flow, Steps
  <2>3. /\ Len(buffer'[t]) = Len(buffer[t]) + 1 /\ DOMAIN buffer'[t] = 1 .. Len(buffer[t]) + 1
        /\ buffer'[t][Len(buffer[t]) + 1] = [loc |-> "plain", val |-> reg[t] + 1]
    BY <1>1, <2>1, StoreEffect, LocationSet
  <2>4. Len(buffer[t]) = 0
    BY <1>1, <1>3, BufferType DEF Buffered
  <2>5. Buffered(t)'
    BY <1>1, <1>3, <2>1, <2>3, <2>4, SameTest, Modes, Constants DEF Buffered
  <2> QED
    BY <1>2, <2>2, <2>5
<1>4. CASE InLocked
  <2>1. /\ Store(t, "counter", reg[t] + 1) /\ done'[t] = done[t] + 1
        /\ pc'[t] = IF (done[t] + 1) % Adds = 0 THEN "unlock" ELSE "load"
    BY <1>4 DEF StoreSum, GoTo, InLocked, Locked, TypeInv
  <2>2. done[t] < Total /\ Len(buffer[t]) <= done[t] % Adds
    BY <1>1, <1>4 DEF Flow, Buffered
  <2>3. /\ done[t] % Adds \in 0 .. Adds - 1
        /\ (done[t] + 1) % Adds = IF done[t] % Adds = Adds - 1 THEN 0 ELSE (done[t] % Adds) + 1
    BY <1>1, Constants, Division, NextMod
  <2>4. (done[t] + 1) % Adds # 0 => done[t] + 1 < Total
    BY <1>1, <2>2, TotalMod, Constants
  <2>5. Flow(t)'
    <3>1. /\ pc'[t] \in {"unlock", "load"} /\ done'[t] <= Total
          /\ pc'[t] = "unlock" => done'[t] % Adds = 0
          /\ pc'[t] = "load" => done'[t] < Total
      BY <1>1, <2>1, <2>2, <2>4, Constants
    <3> QED
      BY <1>1, <1>4, <3>1, SameTest, Modes DEF Flow, Steps
  <2>6. /\ Len(buffer'[t]) = Len(buffer[t]) + 1 /\ DOMAIN buffer'[t] = 1 .. Len(buffer[t]) + 1
        /\ \A n \in DOMAIN buffer[t] : buffer'[t][n] = buffer[t][n]
        /\ buffer'[t][Len(buffer[t]) + 1] = [loc |-> "counter", val |-> reg[t] + 1]
    BY <1>1, <2>1, StoreEffect, LocationSet
  <2>7. Len(buffer[t]) \in Nat /\ DOMAIN buffer[t] = 1 .. Len(buffer[t])
    BY BufferType
  <2>8. \A n \in DOMAIN buffer[t] : buffer[t][n].loc = "counter"
    BY <1>1, <1>4 DEF Buffered
  <2>9. \A n \in DOMAIN buffer'[t] : buffer'[t][n].loc = "counter"
    BY <2>6, <2>7, <2>8
  <2>10. Len(buffer'[t]) <= Adds /\ (pc'[t] = "load" => Len(buffer'[t]) <= done'[t] % Adds)
    BY <2>1, <2>2, <2>3, <2>6, <2>7, Constants
  <2>11. Buffered(t)'
    BY <1>1, <1>4, <2>1, <2>9, <2>10, SameTest, Modes, Constants DEF Buffered
  <2> QED
    BY <1>2, <2>5, <2>11
<1> QED
  BY <1>2, <1>3, <1>4

LEMMA FlowUnlock ==
  ASSUME TypeInv, NEW t \in Threads, Flow(t), Buffered(t), Unlock(t)
  PROVE  InLocked /\ Flow(t)' /\ Buffered(t)'
<1>1. /\ tests' = tests /\ pc[t] = "unlock" /\ Running /\ done' = done /\ pc'[t] = "head"
      /\ done[t] \in Nat
  BY DEF Unlock, At, GoTo, Running, TypeInv
<1>2. InLocked
  BY <1>1 DEF Flow, Steps
<1>3. Flow(t)'
  BY <1>1, <1>2, SameTest, Modes DEF Flow, Steps
<1>4. CASE Test = "mutex"
  <2>1. buffer'[t] = <<>>
    BY <1>4 DEF Unlock
  <2>2. Len(buffer'[t]) = 0 /\ DOMAIN buffer'[t] = {}
    BY <2>1
  <2> QED
    BY <1>1, <1>2, <1>3, <2>1, <2>2, SameTest, Modes, Constants DEF Buffered
<1>5. CASE Test # "mutex"
  <2>1. Store(t, "word", 0)
    BY <1>5 DEF Unlock
  <2>2. /\ Len(buffer'[t]) = Len(buffer[t]) + 1 /\ DOMAIN buffer'[t] = 1 .. Len(buffer[t]) + 1
        /\ \A n \in DOMAIN buffer[t] : buffer'[t][n] = buffer[t][n]
        /\ buffer'[t][Len(buffer[t]) + 1] = [loc |-> "word", val |-> 0]
    BY <2>1, StoreEffect, LocationSet
  <2>3. Len(buffer[t]) \in Nat /\ DOMAIN buffer[t] = 1 .. Len(buffer[t]) /\ Len(buffer[t]) <= Adds
    BY <1>1, <1>2, BufferType DEF Buffered
  <2>4. \A n \in DOMAIN buffer[t] : buffer[t][n].loc = "counter"
    BY <1>1, <1>2 DEF Buffered
  <2>5. \A n \in DOMAIN buffer'[t] :
           \/ buffer'[t][n].loc = "counter"
           \/ buffer'[t][n] = [loc |-> "word", val |-> 0] /\ n = Len(buffer'[t])
    BY <2>2, <2>3, <2>4
  <2>6. Len(buffer'[t]) <= Adds + 1 /\ buffer'[t][Len(buffer'[t])].loc = "word"
    BY <2>2, <2>3, Constants
  <2> QED
    BY <1>1, <1>2, <1>3, <2>5, <2>6, SameTest, Modes DEF Buffered
<1> QED
  BY <1>4, <1>5

LEMMA FlowAdd ==
  ASSUME TypeInv, NEW t \in Threads, Flow(t), Buffered(t), AtomicAdd(t)
  PROVE  (InAtomic \/ InDemo) /\ Flow(t)' /\ Buffered(t)'
<1>1. /\ tests' = tests /\ pc[t] = "xadd" /\ Running /\ done[t] \in Nat /\ done'[t] = done[t] + 1
      /\ buffer' = buffer /\ buffer[t] = <<>> /\ pc'[t] = IF Test = "demo" THEN "load" ELSE "head"
  BY DEF AtomicAdd, At, GoTo, Running, TypeInv
<1>2. InAtomic \/ InDemo
  BY <1>1 DEF Flow, Steps
<1>3. Test = "demo" <=> InDemo
  BY <1>1 DEF InDemo
<1>4. Flow(t)'
  BY <1>1, <1>2, <1>3, SameTest, Modes, Constants DEF Flow, Steps
<1>5. Len(buffer[t]) = 0 /\ DOMAIN buffer[t] = {}
  BY <1>1
<1>6. Buffered(t)'
  BY <1>1, <1>2, <1>3, <1>5, SameTest, Modes, Constants DEF Buffered
<1> QED
  BY <1>2, <1>4, <1>6

LEMMA FlowDrain ==
  ASSUME TypeInv, NEW t \in Threads, Flow(t), Buffered(t), Drain(t)
  PROVE  (InLocked \/ InDemo) /\ Flow(t)' /\ Buffered(t)'
<1>1. /\ tests' = tests /\ pc' = pc /\ Running /\ done' = done /\ done[t] \in Nat
      /\ buffer[t] # <<>>
  BY DEF Drain, threadVars, Running, TypeInv
<1>2. InLocked \/ InDemo
  BY <1>1, Modes DEF Buffered
<1>3. Flow(t)'
  BY <1>1, <1>2, SameTest, Modes DEF Flow
<1>4. /\ Len(buffer[t]) >= 1 /\ Len(buffer'[t]) = Len(buffer[t]) - 1
      /\ DOMAIN buffer'[t] = 1 .. Len(buffer[t]) - 1
      /\ \A n \in DOMAIN buffer'[t] : buffer'[t][n] = buffer[t][n + 1]
      /\ buffer'[t] = <<>> <=> Len(buffer[t]) = 1
      /\ Len(buffer[t]) \in Nat /\ DOMAIN buffer[t] = 1 .. Len(buffer[t])
  BY DrainEffect, BufferType
<1>5. CASE InDemo
  <2>1. Len(buffer[t]) = 1
    BY <1>4, <1>5 DEF Buffered
  <2> QED
    BY <1>1, <1>2, <1>3, <1>4, <1>5, <2>1, SameTest, Modes, Constants DEF Buffered
<1>6. CASE InLocked
  <2>1. \A n \in DOMAIN buffer'[t] : n + 1 \in DOMAIN buffer[t]
    BY <1>4
  <2>2. \A n \in DOMAIN buffer'[t] :
           \/ buffer'[t][n].loc = "counter"
           \/ /\ buffer'[t][n] = [loc |-> "word", val |-> 0]
              /\ n = Len(buffer'[t]) /\ pc[t] \in {"head", "lock"}
    <3> SUFFICES ASSUME NEW n \in DOMAIN buffer'[t]
                 PROVE  \/ buffer'[t][n].loc = "counter"
                        \/ /\ buffer'[t][n] = [loc |-> "word", val |-> 0]
                           /\ n = Len(buffer'[t]) /\ pc[t] \in {"head", "lock"}
      OBVIOUS
    <3>1. \/ buffer[t][n + 1].loc = "counter"
          \/ /\ buffer[t][n + 1] = [loc |-> "word", val |-> 0]
             /\ n + 1 = Len(buffer[t]) /\ pc[t] \in {"head", "lock"}
      BY <1>6, <2>1 DEF Buffered
    <3>2. buffer'[t][n] = buffer[t][n + 1] /\ n \in Nat
      BY <1>4
    <3> QED
      BY <1>4, <3>1, <3>2
  <2>3. pc[t] \in {"head", "lock"} /\ buffer'[t] # <<>> => buffer'[t][Len(buffer'[t])].loc = "word"
    <3>1. buffer'[t] # <<>> => /\ Len(buffer'[t]) \in DOMAIN buffer'[t]
                               /\ buffer'[t][Len(buffer'[t])] = buffer[t][Len(buffer[t])]
      BY <1>4
    <3> QED
      BY <1>1, <1>6, <3>1 DEF Buffered
  <2>4. /\ Len(buffer'[t]) <= Adds + 1
        /\ pc[t] \in {"load", "store"} => Len(buffer'[t]) <= done[t] % Adds
        /\ pc[t] = "unlock" => Len(buffer'[t]) <= Adds
    <3>1. done[t] % Adds \in 0 .. Adds - 1
      BY <1>1, Constants, Division
    <3> QED
      BY <1>4, <1>6, <3>1, Constants DEF Buffered
  <2> QED
    BY <1>1, <1>2, <1>3, <1>6, <2>2, <2>3, <2>4, SameTest, Modes DEF Buffered
<1> QED
  BY <1>2, <1>5, <1>6

(* When main has joined the threads, nothing waits in a buffer. *)
LEMMA FlowJoin ==
  ASSUME TypeInv, ThreadInv, JoinAndPrint
  PROVE  /\ \A t \in Threads : done[t] = Total /\ buffer[t] = <<>>
         /\ ThreadInv'
<1>1. \A t \in Threads : done[t] = Total /\ buffer[t] = <<>>
  BY DEF JoinAndPrint, Joined, ThreadInv, Flow
<1>2. ASSUME NEW t \in Threads
      PROVE  Flow(t)' /\ Buffered(t)'
  <2>1. pc'[t] = "head" /\ done'[t] = 0 /\ buffer'[t] = <<>> /\ 0 % Adds = 0
    BY <1>1, Constants, MultipleMod DEF JoinAndPrint, Each
  <2>2. Len(buffer'[t]) = 0 /\ DOMAIN buffer'[t] = {}
    BY <2>1
  <2>3. Flow(t)'
    BY <2>1, Constants DEF Flow, Steps
  <2>4. Buffered(t)'
    BY <2>1, <2>2, Constants DEF Buffered
  <2> QED
    BY <2>3, <2>4
<1> QED
  BY <1>1, <1>2 DEF ThreadInv

LEMMA ThreadNext ==
  ASSUME TypeInv, ThreadInv, [Next]_vars
  PROVE  ThreadInv'
<1>1. ASSUME NEW t \in Threads, Step(t) \/ Drain(t)
      PROVE  ThreadInv'
  <2>1. Flow(t)' /\ Buffered(t)'
    BY <1>1, FlowHead, FlowLock, FlowLoad, FlowStore, FlowUnlock, FlowAdd, FlowDrain
       DEF Step, ThreadInv
  <2>2. ASSUME NEW u \in Threads, u # t
        PROVE  Flow(u)' /\ Buffered(u)'
    BY <1>1, <2>2, OneThread, OtherThread DEF ThreadInv
  <2> QED
    BY <2>1, <2>2 DEF ThreadInv
<1>2. CASE JoinAndPrint
  BY <1>2, FlowJoin
<1>3. CASE UNCHANGED vars
  BY <1>3, OtherThread DEF vars, threadVars, ThreadInv
<1> QED
  BY <1>1, <1>2, <1>3 DEF Next

-----------------------------------------------------------------------------
(***************************************************************************)
(* The lock.                                                               *)
(***************************************************************************)
LEMMA LockInit == Init => LockInv
<1> SUFFICES ASSUME Init PROVE LockInv
  OBVIOUS
<1>1. mem.word = 0
  BY DEF Init, NoMemory
<1>2. \A t \in Threads : ~Holder(t)
  BY DEF Init, Each, Holder
<1> QED
  BY <1>1, <1>2 DEF LockInv

(* A thread that becomes no holder, or stays one, leaves the lock alone. *)
LEMMA LockKept ==
  ASSUME TypeInv, LockInv, NEW t \in Threads, Step(t) \/ Drain(t),
         Holder(t)' => Holder(t), mem'.word = mem.word
  PROVE  LockInv'
<1>1. \A u \in Threads : Holder(u)' => Holder(u)
  BY OneThread, SameTest DEF Holder
<1> QED
  BY <1>1 DEF LockInv

(* A thread that was the holder, or found the lock free, and now alone has it or not. *)
LEMMA LockChanges ==
  ASSUME TypeInv, LockInv, NEW t \in Threads, Step(t) \/ Drain(t),
         \A u \in Threads : Holder(u) => u = t,
         mem'.word = (IF Holder(t)' THEN 1 ELSE 0)
  PROVE  LockInv'
<1>1. \A u \in Threads : Holder(u)' => u = t
  BY OneThread, SameTest DEF Holder
<1> QED
  BY <1>1 DEF LockInv

LEMMA LockDrain ==
  ASSUME TypeInv, ThreadInv, LockInv, NEW t \in Threads, Drain(t)
  PROVE  LockInv'
<1>1. /\ Len(buffer[t]) >= 1 /\ Len(buffer'[t]) = Len(buffer[t]) - 1
      /\ buffer'[t] = <<>> <=> Len(buffer[t]) = 1
      /\ mem' = [mem EXCEPT ![buffer[t][1].loc] = buffer[t][1].val]
      /\ Len(buffer[t]) \in Nat /\ DOMAIN buffer[t] = 1 .. Len(buffer[t])
      /\ mem \in [Locations -> Nat] /\ pc' = pc /\ tests' = tests /\ buffer[t] # <<>>
  BY DrainEffect, BufferType DEF TypeInv, Drain, threadVars
<1>2. InLocked \/ InDemo
  BY FlowDrain DEF ThreadInv
<1>3. 1 \in DOMAIN buffer[t]
  BY <1>1
<1>4. CASE InDemo
  <2>1. buffer[t][1].loc = "plain"
    BY <1>3, <1>4 DEF ThreadInv, Buffered
  <2>2. mem'.word = mem.word
    BY <1>1, <2>1, LocationSet
  <2>3. ~Holder(t)'
    BY <1>1, <1>4, SameTest, Modes DEF Holder
  <2> QED
    BY <2>2, <2>3, LockKept
<1>5. CASE InLocked
  <2>1. Holder(t)
    BY <1>1, <1>5 DEF Holder
  <2>2. CASE buffer[t][1].loc = "counter"
    <3>1. mem'.word = mem.word
      BY <1>1, <2>2, LocationSet
    <3> QED
      BY <2>1, <3>1, LockKept
  <2>3. CASE buffer[t][1].loc # "counter"
    <3>1. buffer[t][1] = [loc |-> "word", val |-> 0] /\ 1 = Len(buffer[t]) /\ pc[t] \in {"head", "lock"}
      BY <1>3, <1>5, <2>3 DEF ThreadInv, Buffered
    <3>2. mem'.word = 0
      BY <1>1, <3>1, LocationSet
    <3>3. ~Holder(t)'
      BY <1>1, <3>1 DEF Holder
    <3> QED
      BY <2>1, <3>2, <3>3, LockChanges DEF LockInv
  <2> QED
    BY <2>2, <2>3
<1> QED
  BY <1>2, <1>4, <1>5

LEMMA LockNext ==
  ASSUME TypeInv, ThreadInv, LockInv, [Next]_vars
  PROVE  LockInv'
<1>0. \A t \in Threads : Flow(t) /\ Buffered(t)
  BY DEF ThreadInv
<1>1. ASSUME NEW t \in Threads, LoopHead(t)
      PROVE  LockInv'
  <2>1. /\ mem' = mem /\ buffer' = buffer /\ tests' = tests
        /\ pc'[t] \notin {"load", "store", "unlock"}
    BY <1>1 DEF LoopHead, GoTo, TypeInv
  <2>2. Holder(t)' => Holder(t)
    BY <2>1, SameTest DEF Holder
  <2> QED
    BY <1>1, <2>1, <2>2, LockKept DEF Step
<1>2. ASSUME NEW t \in Threads, Lock(t)
      PROVE  LockInv'
  <2>1. mem.word = 0 /\ mem'.word = 1 /\ pc'[t] = "load" /\ tests' = tests
    BY <1>2, LocationSet DEF Lock, GoTo, TypeInv
  <2>2. Holder(t)'
    BY <1>0, <1>2, <2>1, FlowLock, SameTest DEF Holder
  <2>3. \A u \in Threads : ~Holder(u)
    BY <2>1 DEF LockInv
  <2> QED
    BY <1>2, <2>1, <2>2, <2>3, LockChanges DEF Step
<1>3. ASSUME NEW t \in Threads, LoadForAdd(t)
      PROVE  LockInv'
  <2>1. mem' = mem /\ tests' = tests /\ pc[t] = "load"
    BY <1>3 DEF LoadForAdd, At
  <2>2. Holder(t)' => Holder(t)
    BY <2>1, SameTest DEF Holder
  <2> QED
    BY <1>3, <2>1, <2>2, LockKept DEF Step
<1>4. ASSUME NEW t \in Threads, StoreSum(t)
      PROVE  LockInv'
  <2>1. mem' = mem /\ tests' = tests /\ pc[t] = "store"
    BY <1>4 DEF StoreSum, At
  <2>2. Holder(t)' => Holder(t)
    BY <2>1, SameTest DEF Holder
  <2> QED
    BY <1>4, <2>1, <2>2, LockKept DEF Step
<1>5. ASSUME NEW t \in Threads, Unlock(t)
      PROVE  LockInv'
  <2>1. tests' = tests /\ pc[t] = "unlock" /\ pc'[t] = "head" /\ InLocked
    BY <1>0, <1>5, FlowUnlock DEF Unlock, At, GoTo, TypeInv
  <2>2. Holder(t)
    BY <2>1 DEF Holder
  <2>3. CASE Test = "mutex"
    <3>1. mem'.word = 0 /\ buffer'[t] = <<>>
      BY <1>5, <2>3, LocationSet DEF Unlock, TypeInv
    <3>2. ~Holder(t)'
      BY <2>1, <3>1 DEF Holder
    <3> QED
      BY <1>5, <2>2, <3>1, <3>2, LockChanges DEF LockInv, Step
  <2>4. CASE Test # "mutex"
    <3>1. mem' = mem
      BY <1>5, <2>4 DEF Unlock
    <3> QED
      BY <1>5, <2>2, <3>1, LockKept DEF Step
  <2> QED
    BY <2>3, <2>4
<1>6. ASSUME NEW t \in Threads, AtomicAdd(t)
      PROVE  LockInv'
  <2>1. tests' = tests /\ mem'.word = mem.word
    BY <1>6, LocationSet DEF AtomicAdd, TypeInv
  <2>2. ~InLocked
    BY <1>0, <1>6, FlowAdd, Modes
  <2>3. ~Holder(t)'
    BY <2>1, <2>2, SameTest DEF Holder
  <2> QED
    BY <1>6, <2>1, <2>3, LockKept DEF Step
<1>7. ASSUME NEW t \in Threads, Drain(t)
      PROVE  LockInv'
  BY <1>7, LockDrain
<1>8. CASE JoinAndPrint
  <2>1. \A t \in Threads : buffer'[t] = <<>> /\ pc'[t] = "head"
    BY <1>8, FlowJoin DEF JoinAndPrint, Each
  <2>2. \A t \in Threads : ~Holder(t)'
    BY <2>1 DEF Holder
  <2>3. mem'.word = mem.word
    BY <1>8, LocationSet DEF JoinAndPrint, TypeInv
  <2> QED
    BY <2>2, <2>3 DEF LockInv
<1>9. CASE UNCHANGED vars
  <2>1. mem' = mem /\ pc' = pc /\ buffer' = buffer /\ tests' = tests
    BY <1>9 DEF vars, threadVars
  <2> QED
    BY <2>1, SameTest DEF LockInv, Holder
<1> QED
  BY <1>1, <1>2, <1>3, <1>4, <1>5, <1>6, <1>7, <1>8, <1>9 DEF Next, Step

-----------------------------------------------------------------------------
(***************************************************************************)
(* The count of the increments.                                            *)
(***************************************************************************)
LEMMA CountSame ==
  ASSUME CountInv, tests' = tests, buffer' = buffer, mem'.counter = mem.counter, done' = done,
         \A t \in Threads : InLocked /\ pc'[t] = "store" => reg'[t] = Made
  PROVE  CountInv'
<1>1. Made' = Made /\ (InLocked' <=> InLocked)
  BY SameTest DEF Made
<1> QED
  BY <1>1 DEF CountInv

(* The thread in the critical section sees every increment, in its own buffer *)
(* or in memory.                                                              *)
LEMMA LoadCounts ==
  ASSUME TypeInv, LockInv, CountInv, NEW t \in Threads, Holder(t)
  PROVE  Load(t, "counter") = Made
<1> DEFINE own == {n \in DOMAIN buffer[t] : buffer[t][n].loc = "counter"}
<1>1. Len(buffer[t]) \in Nat /\ DOMAIN buffer[t] = 1 .. Len(buffer[t])
  BY BufferType
<1>2. CASE own # {}
  <2>1. own \in SUBSET (0 .. Len(buffer[t]))
    BY <1>1
  <2>2. Max(own) \in own /\ \A n \in own : Max(own) >= n
    BY <1>1, <1>2, <2>1, MaxProperty
  <2>3. ASSUME NEW m \in DOMAIN buffer[t], m > Max(own), buffer[t][m].loc = "counter"
        PROVE  FALSE
    <3>1. m \in own /\ m \in Nat /\ Max(own) \in Nat
      BY <1>1, <2>2, <2>3
    <3> HIDE DEF own
    <3> QED
      BY <2>2, <2>3, <3>1
  <2>4. buffer[t][Max(own)].val = Made
    BY <2>2, <2>3 DEF CountInv
  <2> QED
    BY <1>2, <2>4 DEF Load
<1>3. CASE own = {}
  <2>1. \A u \in Threads : u # t => buffer[u] = <<>>
    BY DEF LockInv, Holder
  <2>2. \A u \in Threads : \A n \in DOMAIN buffer[u] : buffer[u][n].loc # "counter"
    <3>1. \A u \in Threads : u # t => DOMAIN buffer[u] = {}
      BY <2>1
    <3> QED
      BY <1>3, <3>1
  <2>3. mem.counter = Made
    BY <2>2 DEF CountInv
  <2> QED
    BY <1>3, <2>3 DEF Load
<1> QED
  BY <1>2, <1>3

LEMMA CountInit == Init => CountInv
<1> SUFFICES ASSUME Init PROVE CountInv
  OBVIOUS
<1>1. Made = 0
  BY CountNone DEF Init, Each, Made
<1>2. mem.counter = 0 /\ \A t \in Threads : DOMAIN buffer[t] = {} /\ pc[t] = "head"
  BY DEF Init, Each, NoMemory
<1> QED
  BY <1>1, <1>2 DEF CountInv

(* A sum of a critical section: it counts the increment, and no other thread *)
(* has one under way.                                                        *)
LEMMA CountStore ==
  ASSUME TypeInv, ThreadInv, LockInv, CountInv, NEW t \in Threads, StoreSum(t), InLocked
  PROVE  CountInv' /\ Made' = Made + 1
<1>1. /\ tests' = tests /\ Store(t, "counter", reg[t] + 1) /\ pc[t] = "store"
      /\ done' = [done EXCEPT ![t] = done[t] + 1] /\ reg[t] + 1 \in Nat /\ mem' = mem /\ reg' = reg
      /\ pc'[t] # "store"
  BY DEF StoreSum, At, GoTo, InLocked, Locked, TypeInv
<1>2. Made' = Made + 1
  <2>1. done \in [Threads -> Nat] /\ done[t] < Total
    BY <1>1 DEF TypeInv, ThreadInv, Flow
  <2> QED
    BY <1>1, <2>1, CountStep DEF Made
<1>3. reg[t] = Made
  BY <1>1 DEF CountInv
<1>4. /\ DOMAIN buffer'[t] = 1 .. Len(buffer[t]) + 1 /\ Len(buffer[t]) \in Nat
      /\ buffer'[t][Len(buffer[t]) + 1] = [loc |-> "counter", val |-> reg[t] + 1]
      /\ \A u \in Threads : u # t => buffer'[u] = buffer[u] /\ pc'[u] = pc[u]
  BY <1>1, StoreEffect, BufferType, LocationSet, OneThread DEF Step
<1>5. \A u \in Threads : u # t => buffer'[u] = <<>> /\ pc'[u] # "store"
  BY <1>1, <1>4 DEF LockInv, Holder
<1>6. ASSUME NEW u \in Threads, NEW n \in DOMAIN buffer'[u], buffer'[u][n].loc = "counter",
             \A m \in DOMAIN buffer'[u] : m > n => buffer'[u][m].loc # "counter"
      PROVE  buffer'[u][n].val = Made'
  <2>1. u = t
    BY <1>5, <1>6
  <2>2. n = Len(buffer[t]) + 1
    BY <1>4, <1>6, <2>1
  <2> QED
    BY <1>2, <1>3, <1>4, <2>1, <2>2
<1>7. ~ \A u \in Threads : \A n \in DOMAIN buffer'[u] : buffer'[u][n].loc # "counter"
  <2>1. Len(buffer[t]) + 1 \in DOMAIN buffer'[t]
    BY <1>4
  <2> QED
    BY <1>4, <2>1
<1>8. \A u \in Threads : pc'[u] # "store"
  BY <1>1, <1>5
<1>9. CountInv'
  BY <1>6, <1>7, <1>8 DEF CountInv
<1> QED
  BY <1>2, <1>9

(* The release, queued behind the sums or written at once. *)
LEMMA CountUnlock ==
  ASSUME TypeInv, ThreadInv, CountInv, NEW t \in Threads, Unlock(t)
  PROVE  CountInv'
<1>1. /\ tests' = tests /\ done' = done /\ pc'[t] = "head" /\ reg' = reg
      /\ \A u \in Threads : u # t => pc'[u] = pc[u] /\ buffer'[u] = buffer[u]
  BY OneThread DEF Unlock, GoTo, TypeInv, Step
<1>2. mem'.counter = mem.counter
  BY LocationSet DEF Unlock, TypeInv
<1>3. \A u \in Threads : InLocked /\ pc'[u] = "store" => reg'[u] = Made
  BY <1>1 DEF CountInv
<1>4. CASE Test = "mutex"
  BY <1>1, <1>2, <1>3, <1>4, CountSame DEF Unlock
<1>5. CASE Test # "mutex"
  <2>1. Store(t, "word", 0)
    BY <1>5 DEF Unlock
  <2>2. /\ DOMAIN buffer'[t] = 1 .. Len(buffer[t]) + 1 /\ DOMAIN buffer[t] = 1 .. Len(buffer[t])
        /\ \A n \in DOMAIN buffer[t] : buffer'[t][n] = buffer[t][n]
        /\ buffer'[t][Len(buffer[t]) + 1] = [loc |-> "word", val |-> 0] /\ Len(buffer[t]) \in Nat
    BY <2>1, StoreEffect, BufferType, LocationSet
  <2>3. Made' = Made /\ (InLocked' <=> InLocked)
    BY <1>1, SameTest DEF Made
  <2>4. \A u \in Threads : \A n \in DOMAIN buffer[u] :
           n \in DOMAIN buffer'[u] /\ buffer'[u][n] = buffer[u][n]
    BY <1>1, <2>2
  <2>5. \A u \in Threads : \A n \in DOMAIN buffer'[u] :
           buffer'[u][n].loc = "counter" => n \in DOMAIN buffer[u]
    <3>1. \A n \in DOMAIN buffer'[t] : n \in DOMAIN buffer[t] \/ n = Len(buffer[t]) + 1
      BY <2>2
    <3> QED
      BY <1>1, <2>2, <3>1
  <2>6. ASSUME NEW u \in Threads, NEW n \in DOMAIN buffer'[u], buffer'[u][n].loc = "counter",
               \A m \in DOMAIN buffer'[u] : m > n => buffer'[u][m].loc # "counter"
        PROVE  buffer'[u][n].val = Made'
    BY <2>3, <2>4, <2>5, <2>6 DEF CountInv
  <2>7. (\A u \in Threads : \A n \in DOMAIN buffer'[u] : buffer'[u][n].loc # "counter")
           => mem'.counter = Made'
    BY <1>2, <2>3, <2>4 DEF CountInv
  <2> QED
    BY <1>3, <2>3, <2>6, <2>7 DEF CountInv
<1> QED
  BY <1>4, <1>5

LEMMA CountAdd ==
  ASSUME TypeInv, ThreadInv, CountInv, NEW t \in Threads, AtomicAdd(t)
  PROVE  CountInv' /\ Made' = Made + 1
<1>1. /\ tests' = tests /\ buffer' = buffer /\ mem'.counter = mem.counter + 1
      /\ done' = [done EXCEPT ![t] = done[t] + 1] /\ pc[t] = "xadd"
  BY LocationSet DEF AtomicAdd, At, TypeInv
<1>2. Made' = Made + 1
  <2>1. done \in [Threads -> Nat] /\ done[t] < Total
    BY <1>1 DEF TypeInv, ThreadInv, Flow
  <2> QED
    BY <1>1, <2>1, CountStep DEF Made
<1>3. InAtomic \/ InDemo
  BY FlowAdd DEF ThreadInv
<1>4. \A u \in Threads : \A n \in DOMAIN buffer[u] : buffer[u][n].loc # "counter"
  <2>1. CASE InAtomic
    BY <2>1 DEF ThreadInv, Buffered
  <2>2. CASE InDemo
    BY <2>2 DEF ThreadInv, Buffered
  <2> QED
    BY <1>3, <2>1, <2>2
<1>5. mem.counter = Made
  BY <1>4 DEF CountInv
<1>6. ~InLocked'
  BY <1>1, <1>3, SameTest, Modes
<1> QED
  BY <1>1, <1>2, <1>4, <1>5, <1>6 DEF CountInv

(* The machine writes a sum: memory has them all once it was the last one. *)
LEMMA CountDrain ==
  ASSUME TypeInv, CountInv, NEW t \in Threads, Drain(t)
  PROVE  CountInv'
<1>1. /\ tests' = tests /\ done' = done /\ pc' = pc /\ reg' = reg
      /\ Len(buffer[t]) >= 1 /\ Len(buffer[t]) \in Nat
      /\ DOMAIN buffer'[t] = 1 .. Len(buffer[t]) - 1 /\ DOMAIN buffer[t] = 1 .. Len(buffer[t])
      /\ \A n \in DOMAIN buffer'[t] : buffer'[t][n] = buffer[t][n + 1]
      /\ mem' = [mem EXCEPT ![buffer[t][1].loc] = buffer[t][1].val]
      /\ \A u \in Threads : u # t => buffer'[u] = buffer[u]
      /\ mem \in [Locations -> Nat]
  BY DrainEffect, BufferType DEF Drain, threadVars, TypeInv
<1>2. Made' = Made /\ (InLocked' <=> InLocked)
  BY <1>1, SameTest DEF Made
<1>3. ASSUME NEW u \in Threads, NEW n \in DOMAIN buffer'[u], buffer'[u][n].loc = "counter",
             \A m \in DOMAIN buffer'[u] : m > n => buffer'[u][m].loc # "counter"
      PROVE  buffer'[u][n].val = Made'
  <2>1. CASE u # t
    <3>1. buffer'[u] = buffer[u]
      BY <1>1, <2>1
    <3>2. /\ n \in DOMAIN buffer[u] /\ buffer[u][n].loc = "counter"
          /\ \A m \in DOMAIN buffer[u] : m > n => buffer[u][m].loc # "counter"
      BY <1>3, <3>1
    <3>3. buffer[u][n].val = Made
      BY <3>2 DEF CountInv
    <3> QED
      BY <1>2, <3>1, <3>3
  <2>2. CASE u = t
    <3>1. n + 1 \in DOMAIN buffer[t] /\ buffer[t][n + 1].loc = "counter"
      BY <1>1, <1>3, <2>2
    <3>2. ASSUME NEW m \in DOMAIN buffer[t], m > n + 1
          PROVE  buffer[t][m].loc # "counter"
      <4>1. m - 1 \in DOMAIN buffer'[t] /\ m - 1 > n /\ (m - 1) + 1 = m
        BY <1>1, <2>2, <3>2
      <4> QED
        BY <1>1, <1>3, <2>2, <4>1
    <3>3. buffer[t][n + 1].val = Made
      BY <3>1, <3>2 DEF CountInv
    <3> QED
      BY <1>1, <1>2, <2>2, <3>3
  <2> QED
    BY <2>1, <2>2
<1>4. ASSUME \A u \in Threads : \A n \in DOMAIN buffer'[u] : buffer'[u][n].loc # "counter"
      PROVE  mem'.counter = Made'
  <2>1. ASSUME NEW m \in DOMAIN buffer[t], m > 1
        PROVE  buffer[t][m].loc # "counter"
    <3>1. m - 1 \in DOMAIN buffer'[t] /\ (m - 1) + 1 = m
      BY <1>1, <2>1
    <3> QED
      BY <1>1, <1>4, <3>1
  <2>2. 1 \in DOMAIN buffer[t]
    BY <1>1
  <2>3. CASE buffer[t][1].loc = "counter"
    <3>1. buffer[t][1].val = Made
      BY <2>1, <2>2, <2>3 DEF CountInv
    <3> QED
      BY <1>1, <1>2, <2>3, <3>1, LocationSet
  <2>4. CASE buffer[t][1].loc # "counter"
    <3>1. \A m \in DOMAIN buffer[t] : m = 1 \/ m > 1
      BY <1>1
    <3>2. \A u \in Threads : \A n \in DOMAIN buffer[u] : buffer[u][n].loc # "counter"
      BY <1>1, <1>4, <2>1, <2>4, <3>1
    <3>3. mem.counter = Made
      BY <3>2 DEF CountInv
    <3> QED
      BY <1>1, <1>2, <2>4, <3>3, LocationSet
  <2> QED
    BY <2>3, <2>4
<1>5. \A u \in Threads : InLocked' /\ pc'[u] = "store" => reg'[u] = Made'
  BY <1>1, <1>2 DEF CountInv
<1> QED
  BY <1>3, <1>4, <1>5 DEF CountInv

LEMMA CountNext ==
  ASSUME TypeInv, ThreadInv, LockInv, CountInv, [Next]_vars
  PROVE  CountInv'
<1>0. \A t \in Threads : Flow(t) /\ Buffered(t)
  BY DEF ThreadInv
<1>1. ASSUME NEW t \in Threads, LoopHead(t)
      PROVE  CountInv'
  <2>1. \A u \in Threads : pc'[u] = "store" => pc[u] = "store"
    BY <1>1 DEF LoopHead, GoTo, TypeInv
  <2>2. \A u \in Threads : InLocked /\ pc'[u] = "store" => reg'[u] = Made
    BY <1>1, <2>1 DEF LoopHead, CountInv
  <2> QED
    BY <1>1, <2>2, CountSame DEF LoopHead
<1>2. ASSUME NEW t \in Threads, Lock(t)
      PROVE  CountInv'
  <2>1. \A u \in Threads : pc'[u] = "store" => pc[u] = "store"
    BY <1>2 DEF Lock, GoTo, TypeInv
  <2>2. \A u \in Threads : InLocked /\ pc'[u] = "store" => reg'[u] = Made
    BY <1>2, <2>1 DEF Lock, CountInv
  <2>3. mem'.counter = mem.counter
    BY <1>2, LocationSet DEF Lock, TypeInv
  <2> QED
    BY <1>2, <2>2, <2>3, CountSame DEF Lock
<1>3. ASSUME NEW t \in Threads, LoadForAdd(t)
      PROVE  CountInv'
  <2>1. \A u \in Threads : u # t => pc'[u] = pc[u] /\ reg'[u] = reg[u]
    BY <1>3, OneThread DEF Step
  <2>2. InLocked => reg'[t] = Made
    <3> SUFFICES ASSUME InLocked PROVE reg'[t] = Made
      OBVIOUS
    <3>1. pc[t] = "load"
      BY <1>3 DEF LoadForAdd, At
    <3>2. Load(t, "counter") = Made
      BY <3>1, LoadCounts DEF Holder
    <3>3. reg'[t] = Load(t, "counter")
      BY <1>3 DEF LoadForAdd, InLocked, Locked, TypeInv
    <3> QED
      BY <3>2, <3>3
  <2>3. \A u \in Threads : InLocked /\ pc'[u] = "store" => reg'[u] = Made
    BY <2>1, <2>2 DEF CountInv
  <2> QED
    BY <1>3, <2>3, CountSame DEF LoadForAdd
<1>4. ASSUME NEW t \in Threads, StoreSum(t)
      PROVE  CountInv'
  <2>1. CASE InLocked
    BY <1>4, <2>1, CountStore
  <2>2. CASE InDemo
    <3>1. /\ Store(t, "plain", reg[t] + 1) /\ done' = done /\ mem' = mem /\ tests' = tests
          /\ reg[t] + 1 \in Nat
      BY <1>4, <2>2 DEF StoreSum, InDemo, TypeInv
    <3>2. /\ DOMAIN buffer'[t] = 1 .. Len(buffer[t]) + 1
          /\ \A n \in DOMAIN buffer[t] : buffer'[t][n] = buffer[t][n]
          /\ buffer'[t][Len(buffer[t]) + 1] = [loc |-> "plain", val |-> reg[t] + 1]
          /\ \A u \in Threads : u # t => buffer'[u] = buffer[u]
          /\ DOMAIN buffer[t] = 1 .. Len(buffer[t]) /\ Len(buffer[t]) \in Nat
      BY <3>1, StoreEffect, BufferType, LocationSet
    <3>3. \A u \in Threads : \A n \in DOMAIN buffer[u] : buffer[u][n].loc # "counter"
      BY <2>2 DEF ThreadInv, Buffered
    <3>4. \A n \in DOMAIN buffer'[t] : n \in DOMAIN buffer[t] \/ n = Len(buffer[t]) + 1
      BY <3>2
    <3>5. \A u \in Threads : \A n \in DOMAIN buffer'[u] : buffer'[u][n].loc # "counter"
      BY <3>2, <3>3, <3>4
    <3>6. mem.counter = Made /\ Made' = Made /\ ~InLocked'
      BY <2>2, <3>1, <3>3, SameTest, Modes DEF CountInv, Made
    <3> QED
      BY <3>1, <3>5, <3>6 DEF CountInv
  <2> QED
    BY <1>0, <1>4, <2>1, <2>2, FlowStore
<1>5. ASSUME NEW t \in Threads, Unlock(t)
      PROVE  CountInv'
  BY <1>5, CountUnlock
<1>6. ASSUME NEW t \in Threads, AtomicAdd(t)
      PROVE  CountInv'
  BY <1>6, CountAdd
<1>7. ASSUME NEW t \in Threads, Drain(t)
      PROVE  CountInv'
  BY <1>7, CountDrain
<1>8. CASE JoinAndPrint
  <2>1. mem'.counter = 0 /\ Made' = 0
    BY <1>8, LocationSet, CountNone DEF JoinAndPrint, TypeInv, Made, Each
  <2>2. \A t \in Threads : DOMAIN buffer'[t] = {} /\ pc'[t] = "head"
    BY <1>8, FlowJoin DEF JoinAndPrint, Each
  <2> QED
    BY <2>1, <2>2 DEF CountInv
<1>9. CASE UNCHANGED vars
  <2>1. \A u \in Threads : InLocked /\ pc'[u] = "store" => reg'[u] = Made
    BY <1>9 DEF vars, threadVars, CountInv
  <2> QED
    BY <1>9, <2>1, CountSame DEF vars, threadVars
<1> QED
  BY <1>1, <1>2, <1>3, <1>4, <1>5, <1>6, <1>7, <1>8, <1>9 DEF Next, Step

-----------------------------------------------------------------------------
(***************************************************************************)
(* The sums stored, and the bound they set.                                *)
(***************************************************************************)
LEMMA FinishedType ==
  ASSUME TypeInv, ThreadInv
  PROVE  /\ Finished \in [Threads -> Nat] /\ done \in [Threads -> Nat]
         /\ \A t \in Threads : Finished[t] <= done[t]
         /\ ~InDemo => Finished = done
<1>1. done \in [Threads -> Nat]
  BY DEF TypeInv
<1>2. \A t \in Threads : InDemo /\ pc[t] \in {"load", "store"} => done[t] >= 1
  BY DEF ThreadInv, Flow
<1>3. \A t \in Threads : Finished[t] \in Nat /\ Finished[t] <= done[t]
  BY <1>1, <1>2 DEF Finished
<1>4. Finished \in [Threads -> Nat]
  BY <1>3 DEF Finished
<1>5. ~InDemo => Finished = done
  BY <1>1 DEF Finished
<1> QED
  BY <1>1, <1>3, <1>4, <1>5

LEMMA StoredAndMade ==
  ASSUME TypeInv, ThreadInv
  PROVE  /\ Stored \in 0 .. Expected /\ Made \in 0 .. Expected
         /\ Stored <= Made
         /\ ~InDemo => Stored = Made
<1>1. Stored \in 0 .. Expected /\ Made \in 0 .. Expected
  BY CountType DEF Stored, Made
<1>2. Finished \in [Threads -> Int] /\ done \in [Threads -> Int]
  BY FinishedType
<1>3. Stored <= Made
  BY <1>2, FinishedType, CountMono DEF Stored, Made
<1> QED
  BY <1>1, <1>3, FinishedType DEF Stored, Made

LEMMA StoredKept ==
  ASSUME TypeInv, tests' = tests, done' = done,
         \A t \in Threads : pc'[t] \in {"load", "store"} <=> pc[t] \in {"load", "store"}
  PROVE  Stored' = Stored
<1>1. Finished' = Finished
  BY SameTest DEF Finished
<1> QED
  BY <1>1 DEF Stored

LEMMA StoredMore ==
  ASSUME TypeInv, ThreadInv, NEW t \in Threads, StoreSum(t)
  PROVE  Stored' = Stored + 1 /\ Made' >= Made
<1>1. Finished \in [Threads -> Nat]
  BY FinishedType
<1>2. Finished[t] < Total
  BY FlowStore, FinishedType, Constants DEF ThreadInv, Flow, StoreSum, At, Finished, TypeInv
<1>3. Finished' = [Finished EXCEPT ![t] = Finished[t] + 1]
  <2>1. tests' = tests /\ pc[t] = "store" /\ \A u \in Threads : u # t => pc'[u] = pc[u]
    BY OneThread DEF StoreSum, At, Step
  <2>2. CASE InDemo
    <3>1. done' = done /\ pc'[t] = "head" /\ done \in [Threads -> Nat]
      BY <2>2 DEF StoreSum, GoTo, InDemo, TypeInv
    <3>2. \A u \in Threads : Finished'[u] = [Finished EXCEPT ![t] = Finished[t] + 1][u]
      BY <2>1, <2>2, <3>1, SameTest DEF Finished
    <3> QED
      BY <1>1, <3>2 DEF Finished
  <2>3. CASE InLocked
    <3>1. done' = [done EXCEPT ![t] = done[t] + 1]
      BY <2>3 DEF StoreSum, InLocked, Locked
    <3>2. ~InDemo /\ ~InDemo'
      BY <2>1, <2>3, SameTest, Modes
    <3>3. Finished = done /\ Finished' = [u \in Threads |-> done'[u]]
      BY <3>2, FinishedType DEF Finished
    <3> QED
      BY <1>1, <3>1, <3>3
  <2> QED
    BY <2>2, <2>3, FlowStore DEF ThreadInv
<1>4. Stored' = Stored + 1
  BY <1>1, <1>2, <1>3, CountStep DEF Stored
<1>5. \/ done' = done
      \/ /\ done' = [done EXCEPT ![t] = done[t] + 1]
         /\ done[t] < Total
  <2>1. pc[t] = "store" /\ (Test = "demo" \/ InLocked)
    BY FlowStore DEF StoreSum, At, InDemo, ThreadInv
  <2> QED
    BY <2>1 DEF StoreSum, GoTo, ThreadInv, Flow
<1>6. Made' >= Made
  <2>1. Count(done) \in Nat /\ done \in [Threads -> Nat]
    BY CountType, AllPairs DEF TypeInv
  <2>2. Count(done') = Count(done) \/ Count(done') = Count(done) + 1
    BY <1>5, <2>1, CountStep
  <2> QED
    BY <2>1, <2>2 DEF Made
<1> QED
  BY <1>4, <1>6

LEMMA StoredAdd ==
  ASSUME TypeInv, TypeInv', NEW t \in Threads, AtomicAdd(t)
  PROVE  Stored' >= Stored
<1>1. Finished \in [Threads -> Int] /\ Finished' \in [Threads -> Int]
  <2>1. \A u \in Threads : done[u] \in Nat /\ done'[u] \in Nat
    BY DEF TypeInv
  <2>2. Finished \in [Threads -> Int]
    BY <2>1 DEF Finished
  <2>3. Finished' \in [Threads -> Int]
    BY <2>1 DEF Finished
  <2> QED
    BY <2>2, <2>3
<1>2. /\ tests' = tests /\ done'[t] = done[t] + 1 /\ done[t] \in Nat
      /\ \A u \in Threads : u # t => pc'[u] = pc[u] /\ done'[u] = done[u]
      /\ pc[t] = "xadd"
  BY OneThread DEF AtomicAdd, At, TypeInv, Step
<1>3. \A u \in Threads : Finished[u] <= Finished'[u]
  <2>1. Finished[t] <= Finished'[t]
    BY <1>2, SameTest DEF Finished
  <2>2. \A u \in Threads : u # t => Finished'[u] = Finished[u] /\ Finished[u] \in Int
    BY <1>1, <1>2, SameTest DEF Finished
  <2> QED
    BY <2>1, <2>2
<1> QED
  BY <1>1, <1>3, CountMono DEF Stored

LEMMA BoundInit == Init => BoundInv
<1> SUFFICES ASSUME Init PROVE BoundInv
  OBVIOUS
<1>1. TypeInv /\ ThreadInv
  BY TypeInit, ThreadInit
<1>2. Stored \in 0 .. Expected /\ Made \in 0 .. Expected /\ Expected \in Nat
  BY <1>1, StoredAndMade, AllPairs
<1>3. mem.counter = 0 /\ mem.plain = 0
  BY DEF Init, NoMemory
<1>4. \A t \in Threads : DOMAIN buffer[t] = {} /\ reg[t] = 0
  BY DEF Init, Each
<1> QED
  BY <1>2, <1>3, <1>4 DEF BoundInv

(* A step that leaves memory and buffers alone, and loads a bounded value or none. *)
LEMMA BoundKept ==
  ASSUME TypeInv, ThreadInv, TypeInv', ThreadInv', BoundInv,
         tests' = tests, buffer' = buffer,
         mem'.plain = mem.plain, mem'.counter <= Made',
         Stored' >= Stored, \A t \in Threads : reg'[t] <= Stored
  PROVE  BoundInv'
<1>1. Stored \in Nat /\ Stored' \in Nat
  <2>1. Stored \in Nat
    BY AllPairs, CountType DEF Stored
  <2>2. Stored' \in Nat
    BY AllPairs, CountType DEF Stored
  <2> QED
    BY <2>1, <2>2
<1>2. \A t \in Threads : \A n \in DOMAIN buffer[t] : buffer[t][n].val \in Nat
  BY BufferType
<1>3. \A t \in Threads : reg'[t] <= Stored'
  BY <1>1 DEF TypeInv
<1>4. \A t \in Threads : \A n \in DOMAIN buffer'[t] : buffer'[t][n].val <= Stored'
  BY <1>1, <1>2 DEF BoundInv
<1>5. mem.plain \in Nat
  BY LocationSet DEF TypeInv
<1>6. /\ mem'.plain <= Expected
      /\ Running' => mem'.plain <= Stored' /\ (Test' # "demo" => mem'.plain = 0)
  BY <1>1, <1>5, SameTest DEF BoundInv
<1> QED
  BY <1>3, <1>4, <1>6 DEF BoundInv

LEMMA BoundLoad ==
  ASSUME TypeInv, ThreadInv, LockInv, CountInv, BoundInv, NEW t \in Threads, LoadForAdd(t)
  PROVE  reg'[t] <= Stored
<1>1. pc[t] = "load" /\ (InLocked \/ InDemo)
  BY FlowLoad DEF LoadForAdd, At, ThreadInv
<1>2. Stored \in Nat
  BY AllPairs, CountType DEF Stored
<1>3. CASE InLocked
  <2>1. reg'[t] = Load(t, "counter")
    BY <1>3 DEF LoadForAdd, InLocked, Locked, TypeInv
  <2>2. Load(t, "counter") = Made
    BY <1>1, <1>3, LoadCounts DEF Holder
  <2>3. Made = Stored
    BY <1>3, StoredAndMade, Modes
  <2> QED
    BY <1>2, <2>1, <2>2, <2>3
<1>4. CASE InDemo
  <2>1. reg'[t] = Load(t, "plain")
    BY <1>4 DEF LoadForAdd, InDemo, TypeInv
  <2>2. DOMAIN buffer[t] = {}
    <3>1. buffer[t] = <<>>
      BY <1>1, <1>4 DEF ThreadInv, Buffered
    <3> QED
      BY <3>1
  <2>3. Load(t, "plain") = mem.plain
    BY <2>2 DEF Load
  <2>4. mem.plain <= Stored
    BY <1>4, Modes DEF BoundInv
  <2> QED
    BY <2>1, <2>3, <2>4
<1> QED
  BY <1>1, <1>3, <1>4

LEMMA BoundStore ==
  ASSUME TypeInv, ThreadInv, BoundInv, NEW t \in Threads, StoreSum(t)
  PROVE  BoundInv'
<1>1. /\ tests' = tests /\ mem' = mem /\ reg' = reg /\ reg[t] + 1 \in Nat
      /\ Store(t, IF Test = "demo" THEN "plain" ELSE "counter", reg[t] + 1)
  BY DEF StoreSum, TypeInv
<1>2. PICK loc \in Locations : Store(t, loc, reg[t] + 1)
  BY <1>1, LocationSet
<1>3. /\ DOMAIN buffer'[t] = 1 .. Len(buffer[t]) + 1
      /\ \A n \in DOMAIN buffer[t] : buffer'[t][n] = buffer[t][n]
      /\ buffer'[t][Len(buffer[t]) + 1] = [loc |-> loc, val |-> reg[t] + 1]
      /\ \A u \in Threads : u # t => buffer'[u] = buffer[u]
      /\ DOMAIN buffer[t] = 1 .. Len(buffer[t]) /\ Len(buffer[t]) \in Nat
  BY <1>1, <1>2, StoreEffect, BufferType
<1>4. /\ Stored' = Stored + 1 /\ Made' >= Made /\ Stored \in Nat
      /\ Made \in Nat /\ Made' \in Nat
  <2>1. Stored \in Nat /\ Made \in Nat
    BY AllPairs, CountType DEF Stored, Made
  <2>2. Made' \in Nat
    BY AllPairs, CountType DEF Made
  <2> QED
    BY <2>1, <2>2, StoredMore
<1>5. \A u \in Threads : reg[u] \in Nat /\ \A n \in DOMAIN buffer[u] : buffer[u][n].val \in Nat
  BY BufferType DEF TypeInv
<1>6. \A u \in Threads : reg'[u] <= Stored'
  BY <1>1, <1>4, <1>5 DEF BoundInv
<1>7. \A u \in Threads : \A n \in DOMAIN buffer[u] : buffer[u][n].val <= Stored'
  BY <1>4, <1>5 DEF BoundInv
<1>8. reg[t] + 1 <= Stored'
  BY <1>4, <1>5 DEF BoundInv
<1>9. ASSUME NEW u \in Threads, NEW n \in DOMAIN buffer'[u]
      PROVE  buffer'[u][n].val <= Stored'
  <2>1. CASE u # t
    BY <1>3, <1>7, <1>9, <2>1
  <2>2. CASE u = t
    <3>1. n \in DOMAIN buffer[t] \/ n = Len(buffer[t]) + 1
      BY <1>3, <1>9, <2>2
    <3> QED
      BY <1>3, <1>7, <1>8, <2>2, <3>1
  <2> QED
    BY <2>1, <2>2
<1>10. mem.counter \in Nat /\ mem.plain \in Nat
  BY LocationSet DEF TypeInv
<1>11. mem.counter <= Made'
  BY <1>4, <1>10 DEF BoundInv
<1>12. /\ mem'.plain <= Expected
       /\ Running' => mem'.plain <= Stored' /\ (Test' # "demo" => mem'.plain = 0)
  BY <1>1, <1>4, <1>10, SameTest DEF BoundInv
<1> QED
  BY <1>1, <1>6, <1>9, <1>11, <1>12 DEF BoundInv

LEMMA BoundUnlock ==
  ASSUME TypeInv, ThreadInv, BoundInv, NEW t \in Threads, Unlock(t), Stored' = Stored
  PROVE  BoundInv'
<1>1. tests' = tests /\ reg' = reg /\ done' = done
  BY DEF Unlock
<1>2. mem'.plain = mem.plain /\ mem'.counter = mem.counter
  BY LocationSet DEF Unlock, TypeInv
<1>3. Made' = Made
  BY <1>1 DEF Made
<1>4. Stored \in Nat
  BY AllPairs, CountType DEF Stored
<1>5. ASSUME NEW u \in Threads, NEW n \in DOMAIN buffer'[u]
      PROVE  buffer'[u][n].val <= Stored
  <2>1. CASE Test = "mutex"
    BY <1>5, <2>1 DEF Unlock, BoundInv
  <2>2. CASE Test # "mutex"
    <3>1. Store(t, "word", 0)
      BY <2>2 DEF Unlock
    <3>2. /\ DOMAIN buffer'[t] = 1 .. Len(buffer[t]) + 1 /\ DOMAIN buffer[t] = 1 .. Len(buffer[t])
          /\ \A m \in DOMAIN buffer[t] : buffer'[t][m] = buffer[t][m]
          /\ buffer'[t][Len(buffer[t]) + 1] = [loc |-> "word", val |-> 0] /\ Len(buffer[t]) \in Nat
          /\ \A w \in Threads : w # t => buffer'[w] = buffer[w]
      BY <3>1, StoreEffect, BufferType, LocationSet
    <3>3. CASE u # t
      BY <1>5, <3>2, <3>3 DEF BoundInv
    <3>4. CASE u = t
      <4>1. n \in DOMAIN buffer[t] \/ n = Len(buffer[t]) + 1
        BY <1>5, <3>2, <3>4
      <4>2. n \in DOMAIN buffer[t] => buffer[t][n].val <= Stored
        BY DEF BoundInv
      <4> QED
        BY <1>4, <3>2, <3>4, <4>1, <4>2
    <3> QED
      BY <3>3, <3>4
  <2> QED
    BY <2>1, <2>2
<1> QED
  BY <1>1, <1>2, <1>3, <1>5, SameTest DEF BoundInv

LEMMA BoundDrain ==
  ASSUME TypeInv, ThreadInv, BoundInv, NEW t \in Threads, Drain(t), Stored' = Stored
  PROVE  BoundInv'
<1>1. /\ tests' = tests /\ done' = done /\ reg' = reg
      /\ Len(buffer[t]) >= 1 /\ Len(buffer[t]) \in Nat
      /\ DOMAIN buffer'[t] = 1 .. Len(buffer[t]) - 1 /\ DOMAIN buffer[t] = 1 .. Len(buffer[t])
      /\ \A n \in DOMAIN buffer'[t] : buffer'[t][n] = buffer[t][n + 1]
      /\ mem' = [mem EXCEPT ![buffer[t][1].loc] = buffer[t][1].val]
      /\ \A u \in Threads : u # t => buffer'[u] = buffer[u]
      /\ mem \in [Locations -> Nat]
  BY DrainEffect, BufferType DEF Drain, threadVars, TypeInv
<1>2. Made' = Made
  BY <1>1 DEF Made
<1>3. 1 \in DOMAIN buffer[t]
  BY <1>1
<1>4. buffer[t][1].val <= Stored /\ buffer[t][1].val \in Nat
  BY <1>3, BufferType DEF BoundInv
<1>5. /\ Stored \in 0 .. Expected /\ Made \in 0 .. Expected /\ Stored <= Made /\ Expected \in Nat
  BY StoredAndMade, AllPairs
<1>6. ASSUME NEW u \in Threads, NEW n \in DOMAIN buffer'[u]
      PROVE  buffer'[u][n].val <= Stored
  <2>1. CASE u # t
    BY <1>1, <1>6, <2>1 DEF BoundInv
  <2>2. CASE u = t
    <3>1. n + 1 \in DOMAIN buffer[t]
      BY <1>1, <1>6, <2>2
    <3>2. buffer[t][n + 1].val <= Stored
      BY <3>1 DEF BoundInv
    <3> QED
      BY <1>1, <1>6, <2>2, <3>2
  <2> QED
    BY <2>1, <2>2
<1>7. mem'.counter <= Made
  BY <1>1, <1>4, <1>5, LocationSet DEF BoundInv
<1>8. CASE InDemo
  <2>1. mem'.plain <= Stored /\ mem'.plain <= Expected
    <3>1. mem.plain <= Stored
      BY <1>8, Modes DEF BoundInv
    <3> QED
      BY <1>1, <1>4, <1>5, <3>1, LocationSet
  <2>2. Test' = "demo"
    BY <1>1, <1>8, SameTest DEF InDemo
  <2> QED
    BY <1>1, <1>2, <1>6, <1>7, <2>1, <2>2 DEF BoundInv
<1>9. CASE InLocked
  <2>1. buffer[t][1].loc # "plain"
    BY <1>3, <1>9 DEF ThreadInv, Buffered
  <2>2. mem'.plain = mem.plain
    BY <1>1, <2>1, LocationSet
  <2> QED
    BY <1>1, <1>2, <1>6, <1>7, <2>2, SameTest DEF BoundInv
<1> QED
  BY <1>8, <1>9, FlowDrain DEF ThreadInv

LEMMA BoundNext ==
  ASSUME TypeInv, ThreadInv, TypeInv', ThreadInv', LockInv, CountInv, BoundInv, [Next]_vars
  PROVE  BoundInv'
<1>0. /\ \A t \in Threads : Flow(t) /\ Buffered(t)
      /\ Stored \in Nat /\ Made \in Nat /\ mem.counter \in Nat
  <2>1. Stored \in Nat /\ Made \in Nat
    BY AllPairs, CountType DEF Stored, Made
  <2> QED
    BY <2>1, LocationSet DEF ThreadInv, TypeInv
<1>1. ASSUME NEW t \in Threads, LoopHead(t)
      PROVE  BoundInv'
  <2>1. /\ tests' = tests /\ done' = done /\ mem' = mem /\ buffer' = buffer /\ reg' = reg
        /\ \A u \in Threads : pc'[u] \in {"load", "store"} <=> pc[u] \in {"load", "store"}
    BY <1>1 DEF LoopHead, At, GoTo, TypeInv
  <2>2. Stored' = Stored /\ Made' = Made
    BY <2>1, StoredKept DEF Made
  <2> QED
    BY <1>0, <2>1, <2>2, BoundKept DEF BoundInv
<1>2. ASSUME NEW t \in Threads, Lock(t)
      PROVE  BoundInv'
  <2>1. /\ tests' = tests /\ done' = done /\ buffer' = buffer /\ reg' = reg
        /\ mem'.plain = mem.plain /\ mem'.counter = mem.counter
    BY <1>2, LocationSet DEF Lock, TypeInv
  <2>2. InLocked /\ ~InDemo /\ ~InDemo'
    BY <1>0, <1>2, <2>1, FlowLock, Modes, SameTest
  <2>3. Finished' = Finished
    BY <2>1, <2>2 DEF Finished
  <2>4. Stored' = Stored /\ Made' = Made
    BY <2>1, <2>3 DEF Stored, Made
  <2> QED
    BY <1>0, <2>1, <2>4, BoundKept DEF BoundInv
<1>3. ASSUME NEW t \in Threads, LoadForAdd(t)
      PROVE  BoundInv'
  <2>1. /\ tests' = tests /\ done' = done /\ mem' = mem /\ buffer' = buffer
        /\ \A u \in Threads : pc'[u] \in {"load", "store"} <=> pc[u] \in {"load", "store"}
    BY <1>3 DEF LoadForAdd, At, GoTo, TypeInv
  <2>2. Stored' = Stored /\ Made' = Made
    BY <2>1, StoredKept DEF Made
  <2>3. \A u \in Threads : reg'[u] <= Stored
    BY <1>3, BoundLoad, OneThread DEF BoundInv, Step
  <2> QED
    BY <1>0, <2>1, <2>2, <2>3, BoundKept DEF BoundInv
<1>4. ASSUME NEW t \in Threads, StoreSum(t)
      PROVE  BoundInv'
  BY <1>4, BoundStore
<1>5. ASSUME NEW t \in Threads, Unlock(t)
      PROVE  BoundInv'
  <2>1. /\ tests' = tests /\ done' = done
        /\ \A u \in Threads : pc'[u] \in {"load", "store"} <=> pc[u] \in {"load", "store"}
    BY <1>5 DEF Unlock, At, GoTo, TypeInv
  <2> QED
    BY <1>5, <2>1, StoredKept, BoundUnlock
<1>6. ASSUME NEW t \in Threads, AtomicAdd(t)
      PROVE  BoundInv'
  <2>1. /\ tests' = tests /\ buffer' = buffer /\ reg' = reg
        /\ mem'.plain = mem.plain /\ mem'.counter = mem.counter + 1
    BY <1>6, LocationSet DEF AtomicAdd, TypeInv
  <2>2. Made' = Made + 1 /\ Stored' >= Stored
    BY <1>6, CountAdd, StoredAdd
  <2>3. mem'.counter <= Made'
    BY <1>0, <2>1, <2>2 DEF BoundInv
  <2> QED
    BY <2>1, <2>2, <2>3, BoundKept DEF BoundInv
<1>7. ASSUME NEW t \in Threads, Drain(t)
      PROVE  BoundInv'
  <2>1. tests' = tests /\ done' = done /\ pc' = pc
    BY <1>7 DEF Drain, threadVars
  <2> QED
    BY <1>7, <2>1, StoredKept, BoundDrain
<1>8. CASE JoinAndPrint
  <2>1. mem'.counter = 0 /\ mem'.plain = mem.plain /\ tests' = Tail(tests)
    BY <1>8, LocationSet DEF JoinAndPrint, TypeInv
  <2>2. \A t \in Threads : DOMAIN buffer'[t] = {} /\ reg'[t] = 0
    BY <1>8, FlowJoin DEF JoinAndPrint, Each
  <2>3. Stored' \in Nat /\ Made' \in Nat
    <3>1. Stored' \in Nat
      BY AllPairs, CountType DEF Stored
    <3>2. Made' \in Nat
      BY AllPairs, CountType DEF Made
    <3> QED
      BY <3>1, <3>2
  <2>4. Running' => Test # "demo" /\ Running
    BY <1>8, <2>1, TestCases DEF Running, JoinAndPrint, Joined
  <2>5. mem'.plain <= Expected /\ (Running' => mem'.plain = 0)
    BY <2>1, <2>4 DEF BoundInv
  <2> QED
    BY <2>1, <2>2, <2>3, <2>5 DEF BoundInv
<1>9. CASE UNCHANGED vars
  <2>1. Stored' = Stored /\ Made' = Made
    BY <1>9, StoredKept DEF vars, threadVars, Made
  <2> QED
    BY <1>0, <1>9, <2>1, BoundKept DEF vars, threadVars, BoundInv
<1> QED
  BY <1>1, <1>2, <1>3, <1>4, <1>5, <1>6, <1>7, <1>8, <1>9 DEF Next, Step

-----------------------------------------------------------------------------
(***************************************************************************)
(* What the races of the demo leave.                                       *)
(***************************************************************************)
LEMMA PlainInit == Init => PlainInv
<1> SUFFICES ASSUME Init PROVE PlainInv
  OBVIOUS
<1>1. \A t \in Threads : done[t] = 0 /\ DOMAIN buffer[t] = {} /\ pc[t] = "head"
  BY DEF Init, Each
<1>2. \A t \in Threads : Late(t, 1) /\ Late(t, 2)
  BY <1>1 DEF Late
<1> QED
  BY <1>1, <1>2, Constants DEF PlainInv

LEMMA PlainHead ==
  ASSUME TypeInv, PlainInv, InDemo, NEW t \in Threads, LoopHead(t)
  PROVE  PlainInv'
<1>1. /\ tests' = tests /\ done' = done /\ mem' = mem /\ buffer' = buffer /\ reg' = reg
      /\ \A u \in Threads : pc'[u] \in {"load", "store"} <=> pc[u] \in {"load", "store"}
      /\ \A u \in Threads : pc'[u] = "store" <=> pc[u] = "store"
  BY DEF LoopHead, At, GoTo, TypeInv
<1>2. \A u \in Threads : (Late(u, 1)' <=> Late(u, 1)) /\ (Late(u, 2)' <=> Late(u, 2))
  BY <1>1 DEF Late
<1> QED
  BY <1>1, <1>2 DEF PlainInv

LEMMA PlainAdd ==
  ASSUME TypeInv, PlainInv, InDemo, NEW t \in Threads, AtomicAdd(t)
  PROVE  PlainInv'
<1>1. /\ tests' = tests /\ buffer' = buffer /\ reg' = reg /\ mem'.plain = mem.plain
      /\ buffer[t] = <<>> /\ pc[t] = "xadd" /\ pc'[t] = "load"
      /\ done[t] \in Nat /\ done'[t] = done[t] + 1
  BY LocationSet DEF AtomicAdd, At, GoTo, InDemo, TypeInv
<1>2. \A u \in Threads : u # t => pc'[u] = pc[u] /\ done'[u] = done[u]
  BY OneThread DEF Step
<1>3. \A u \in Threads : u # t => (Late(u, 1)' <=> Late(u, 1)) /\ (Late(u, 2)' <=> Late(u, 2))
  BY <1>1, <1>2 DEF Late
<1>4. (Late(t, 1) => Late(t, 1)') /\ (Late(t, 2) => Late(t, 2)')
  BY <1>1 DEF Late
<1>5. mem'.plain >= 2 \/ \E u \in Threads : Late(u, 2)'
  BY <1>1, <1>3, <1>4 DEF PlainInv
<1>6. \A u \in Threads : Late(u, 1)' \/ mem'.plain >= 1
  BY <1>1, <1>3, <1>4 DEF PlainInv
<1>7. \A u \in Threads : pc'[u] = "store" /\ done'[u] >= 2 => reg'[u] >= 1
  BY <1>1, <1>2 DEF PlainInv
<1>8. \A u \in Threads : \A n \in DOMAIN buffer'[u] :
         buffer'[u][n].val >= 1 /\ (done'[u] >= 2 => buffer'[u][n].val >= 2)
  <2>1. DOMAIN buffer'[t] = {}
    BY <1>1
  <2> QED
    BY <1>1, <1>2, <2>1 DEF PlainInv
<1> QED
  BY <1>5, <1>6, <1>7, <1>8 DEF PlainInv

LEMMA PlainLoad ==
  ASSUME TypeInv, ThreadInv, PlainInv, InDemo, NEW t \in Threads, LoadForAdd(t)
  PROVE  PlainInv'
<1>1. /\ tests' = tests /\ buffer' = buffer /\ mem' = mem /\ done' = done
      /\ pc[t] = "load" /\ reg'[t] = Load(t, "plain") /\ done[t] \in Nat
      /\ \A u \in Threads : pc'[u] \in {"load", "store"} <=> pc[u] \in {"load", "store"}
  BY DEF LoadForAdd, At, GoTo, InDemo, TypeInv
<1>2. \A u \in Threads : u # t => pc'[u] = pc[u] /\ reg'[u] = reg[u]
  BY OneThread DEF Step
<1>3. \A u \in Threads : (Late(u, 1)' <=> Late(u, 1)) /\ (Late(u, 2)' <=> Late(u, 2))
  BY <1>1 DEF Late
<1>4. Load(t, "plain") = mem.plain
  <2>1. buffer[t] = <<>>
    BY <1>1 DEF ThreadInv, Buffered
  <2>2. DOMAIN buffer[t] = {}
    BY <2>1
  <2> QED
    BY <2>2 DEF Load
<1>5. done[t] >= 2 => mem.plain >= 1
  <2>1. done[t] >= 2 => ~Late(t, 1)
    BY <1>1 DEF Late
  <2> QED
    BY <2>1 DEF PlainInv
<1>6. \A u \in Threads : pc'[u] = "store" /\ done'[u] >= 2 => reg'[u] >= 1
  BY <1>1, <1>2, <1>4, <1>5 DEF PlainInv
<1> QED
  BY <1>1, <1>3, <1>6 DEF PlainInv

LEMMA PlainStore ==
  ASSUME TypeInv, ThreadInv, PlainInv, InDemo, NEW t \in Threads, StoreSum(t)
  PROVE  PlainInv'
<1>1. /\ tests' = tests /\ mem' = mem /\ done' = done /\ reg' = reg /\ reg[t] \in Nat
      /\ pc[t] = "store" /\ pc'[t] = "head" /\ Store(t, "plain", reg[t] + 1) /\ done[t] \in Nat
  BY DEF StoreSum, At, GoTo, InDemo, TypeInv
<1>2. /\ DOMAIN buffer'[t] = 1 .. Len(buffer[t]) + 1 /\ buffer'[t] # <<>>
      /\ buffer'[t][Len(buffer[t]) + 1] = [loc |-> "plain", val |-> reg[t] + 1]
      /\ \A u \in Threads : u # t => buffer'[u] = buffer[u] /\ pc'[u] = pc[u]
  BY <1>1, StoreEffect, LocationSet, OneThread DEF Step
<1>3. Len(buffer[t]) = 0
  BY <1>1, BufferType DEF ThreadInv, Buffered
<1>4. \A u \in Threads : (Late(u, 1)' <=> Late(u, 1)) /\ (Late(u, 2)' <=> Late(u, 2))
  BY <1>1, <1>2 DEF Late
<1>5. \A n \in DOMAIN buffer'[t] :
         buffer'[t][n].val >= 1 /\ (done[t] >= 2 => buffer'[t][n].val >= 2)
  <2>1. \A n \in DOMAIN buffer'[t] : buffer'[t][n].val = reg[t] + 1
    BY <1>2, <1>3
  <2>2. done[t] >= 2 => reg[t] >= 1
    BY <1>1 DEF PlainInv
  <2> QED
    BY <1>1, <2>1, <2>2
<1>6. \A u \in Threads : \A n \in DOMAIN buffer'[u] :
         buffer'[u][n].val >= 1 /\ (done[u] >= 2 => buffer'[u][n].val >= 2)
  BY <1>2, <1>5 DEF PlainInv
<1>7. \A u \in Threads : pc'[u] = "store" => pc[u] = "store"
  BY <1>1, <1>2
<1> QED
  BY <1>1, <1>4, <1>6, <1>7 DEF PlainInv

LEMMA PlainDrain ==
  ASSUME TypeInv, ThreadInv, PlainInv, InDemo, NEW t \in Threads, Drain(t)
  PROVE  PlainInv'
<1>1. /\ tests' = tests /\ done' = done /\ reg' = reg /\ pc' = pc /\ done[t] \in Nat
      /\ DOMAIN buffer'[t] = 1 .. Len(buffer[t]) - 1 /\ DOMAIN buffer[t] = 1 .. Len(buffer[t])
      /\ mem' = [mem EXCEPT ![buffer[t][1].loc] = buffer[t][1].val]
      /\ \A u \in Threads : u # t => buffer'[u] = buffer[u]
      /\ mem \in [Locations -> Nat] /\ Len(buffer[t]) >= 1 /\ Len(buffer[t]) <= 1
      /\ Len(buffer[t]) \in Nat
  BY DrainEffect, BufferType DEF Drain, threadVars, TypeInv, ThreadInv, Buffered
<1>2. 1 \in DOMAIN buffer[t]
  BY <1>1
<1>3. /\ buffer[t][1].loc = "plain" /\ buffer[t][1].val \in Nat /\ buffer[t][1].val >= 1
      /\ done[t] >= 2 => buffer[t][1].val >= 2
  BY <1>2, BufferType DEF ThreadInv, Buffered, PlainInv
<1>4. mem'.plain = buffer[t][1].val
  BY <1>1, <1>3, LocationSet
<1>5. done[t] < 2 => Late(t, 2)'
  BY <1>1 DEF Late
<1>6. mem'.plain >= 1 /\ (mem'.plain >= 2 \/ \E u \in Threads : Late(u, 2)')
  BY <1>1, <1>3, <1>4, <1>5
<1>7. \A u \in Threads : \A n \in DOMAIN buffer'[u] :
         buffer'[u][n].val >= 1 /\ (done[u] >= 2 => buffer'[u][n].val >= 2)
  <2>1. DOMAIN buffer'[t] = {}
    BY <1>1
  <2> QED
    BY <1>1, <2>1 DEF PlainInv
<1> QED
  BY <1>1, <1>6, <1>7 DEF PlainInv

LEMMA PlainNext ==
  ASSUME TypeInv, ThreadInv, PlainInv, [Next]_vars
  PROVE  PlainInv'
<1> SUFFICES ASSUME InDemo' PROVE PlainInv'
  BY DEF PlainInv
<1>1. ASSUME NEW t \in Threads, Step(t) \/ Drain(t)
      PROVE  PlainInv'
  <2>1. InDemo
    BY <1>1, OneThread, SameTest
  <2>2. ~Lock(t) /\ ~Unlock(t)
    BY <2>1, FlowLock, FlowUnlock, Modes DEF ThreadInv
  <2> QED
    BY <1>1, <2>1, <2>2, PlainHead, PlainAdd, PlainLoad, PlainStore, PlainDrain DEF Step
<1>2. CASE JoinAndPrint
  BY <1>2, TestCases DEF JoinAndPrint, Joined, InDemo, Running, Test
<1>3. CASE UNCHANGED vars
  BY <1>3, SameTest DEF vars, threadVars, PlainInv, Late
<1> QED
  BY <1>1, <1>2, <1>3 DEF Next

-----------------------------------------------------------------------------
(***************************************************************************)
(* What main prints.                                                       *)
(***************************************************************************)
LEMMA PrintInit == Init => PrintInv
<1> SUFFICES ASSUME Init PROVE PrintInv
  OBVIOUS
<1>1. printed = <<>>
  BY DEF Init
<1>2. Len(printed) = 0 /\ DOMAIN printed = {}
  BY <1>1
<1>3. tests = <<"mutex", "atomic", "spin", "flag">> \/ tests = <<"demo">>
  BY DEF Init
<1>4. Running /\ (Test # "demo" => Len(printed) = 4 - Len(tests))
  BY <1>2, <1>3 DEF Running, Test
<1> QED
  BY <1>1, <1>2, <1>4 DEF PrintInv

(* When main prints, the counter holds every increment of the test. *)
LEMMA PrintedCounts ==
  ASSUME TypeInv, ThreadInv, CountInv, JoinAndPrint
  PROVE  mem.counter = Expected /\ Made = Expected
<1>1. \A t \in Threads : done[t] = Total /\ buffer[t] = <<>>
  BY FlowJoin
<1>2. done = [t \in Threads |-> Total]
  BY <1>1 DEF TypeInv
<1>3. Made = Expected
  BY <1>2, CountAll DEF Made
<1>4. \A t \in Threads : DOMAIN buffer[t] = {}
  BY <1>1
<1> QED
  BY <1>3, <1>4 DEF CountInv

(* When main prints in the demo, s_j has at least 2. *)
LEMMA PrintedPlain ==
  ASSUME TypeInv, ThreadInv, BoundInv, PlainInv, JoinAndPrint, InDemo, Total > 1
  PROVE  mem.plain \in 2 .. Expected
<1>1. \A t \in Threads : done[t] = Total /\ buffer[t] = <<>> /\ pc[t] = "out"
  BY FlowJoin DEF JoinAndPrint, Joined
<1>2. \A t \in Threads : ~Late(t, 2)
  BY <1>1, Constants DEF Late
<1>3. mem.plain >= 2 /\ mem.plain <= Expected
  BY <1>2 DEF PlainInv, BoundInv
<1> QED
  BY <1>3, AllPairs, LocationSet DEF TypeInv

LEMMA PrintNext ==
  ASSUME TypeInv, ThreadInv, CountInv, BoundInv, PlainInv, PrintInv, [Next]_vars
  PROVE  PrintInv'
<1>1. CASE tests' = tests /\ printed' = printed
  BY <1>1, SameTest DEF PrintInv
<1>2. CASE JoinAndPrint
  <2> DEFINE new == [counter |-> mem.counter, plain |-> mem.plain]
  <2>1. /\ Len(printed') = Len(printed) + 1 /\ DOMAIN printed' = 1 .. Len(printed) + 1
        /\ DOMAIN printed = 1 .. Len(printed) /\ Len(printed) \in Nat
        /\ \A n \in DOMAIN printed : printed'[n] = printed[n]
        /\ printed'[Len(printed) + 1] = new
    <3>1. printed \in Seq([counter : Nat, plain : Nat]) /\ new \in [counter : Nat, plain : Nat]
      BY LocationSet DEF TypeInv
    <3>2. printed' = Append(printed, new)
      BY <1>2 DEF JoinAndPrint
    <3> HIDE DEF new
    <3> QED
      BY <3>1, <3>2, AppendProperties, LenProperties
  <2>2. Running /\ tests' = Tail(tests)
    BY <1>2 DEF JoinAndPrint, Joined, Running
  <2>3. \A n \in DOMAIN printed' : printed'[n].counter = Expected
    <3>1. \A n \in DOMAIN printed' : n \in DOMAIN printed \/ n = Len(printed) + 1
      BY <2>1
    <3> QED
      BY <1>2, <2>1, <3>1, PrintedCounts DEF PrintInv
  <2>4. tests' # <<"demo">> /\ (Running' => Test' # "demo")
    <3>1. tests' # <<>> => Head(tests') # "demo"
      BY <2>2, TestCases DEF Running
    <3> QED
      BY <3>1 DEF Running, Test
  <2>5. Running' => Test # "demo" /\ Len(tests') = Len(tests) - 1 /\ Len(tests) \in Nat
    BY <2>2, TestCases DEF Running
  <2>6. Running' => Len(printed') = 4 - Len(tests')
    <3>1. Running' => Len(printed) = 4 - Len(tests)
      BY <2>2, <2>5 DEF PrintInv
    <3> QED
      BY <2>1, <2>5, <3>1
  <2>7. ~Running' => \/ Len(printed') = 4
                     \/ Len(printed') = 1 /\ (Total > 1 => printed'[1].plain \in 2 .. Expected)
    <3>1. CASE InDemo
      <4>1. printed = <<>>
        BY <2>2, <3>1, TestCases DEF PrintInv, InDemo, Running
      <4>2. Len(printed) = 0
        BY <4>1
      <4>3. printed'[1] = new
        BY <2>1, <4>2
      <4> QED
        BY <1>2, <2>1, <3>1, <4>2, <4>3, PrintedPlain
    <3>2. CASE ~InDemo
      <4> SUFFICES ASSUME ~Running' PROVE Len(printed') = 4
        OBVIOUS
      <4>1. Len(tests) = 1
        BY <2>2, <3>2, TestCases DEF Running, InDemo
      <4>2. Len(printed) = 4 - Len(tests)
        BY <2>2, <3>2 DEF PrintInv, InDemo
      <4>3. Len(printed) = 3
        BY <4>1, <4>2
      <4> QED
        BY <2>1, <4>3
    <3> QED
      BY <3>1, <3>2
  <2> QED
    BY <2>3, <2>4, <2>6, <2>7 DEF PrintInv
<1>3. CASE UNCHANGED vars
  BY <1>1, <1>3 DEF vars
<1>4. ASSUME NEW t \in Threads, Step(t) \/ Drain(t)
      PROVE  tests' = tests /\ printed' = printed
  BY <1>4 DEF Step, LoopHead, Lock, LoadForAdd, StoreSum, Unlock, AtomicAdd, Drain
<1> QED
  BY <1>1, <1>2, <1>3, <1>4 DEF Next

-----------------------------------------------------------------------------
(***************************************************************************)
(* The theorems.                                                           *)
(***************************************************************************)
LEMMA Inductive == Spec => []IInv
<1>1. Init => IInv
  BY TypeInit, ThreadInit, LockInit, CountInit, BoundInit, PlainInit, PrintInit DEF IInv
<1>2. IInv /\ [Next]_vars => IInv'
  <2> SUFFICES ASSUME IInv, [Next]_vars PROVE IInv'
    OBVIOUS
  <2>1. TypeInv /\ ThreadInv /\ LockInv /\ CountInv /\ BoundInv /\ PlainInv /\ PrintInv
    BY DEF IInv
  <2>2. TypeInv' /\ ThreadInv'
    BY <2>1, TypeNext, ThreadNext
  <2>3. LockInv' /\ CountInv' /\ BoundInv' /\ PlainInv' /\ PrintInv'
    BY <2>1, <2>2, LockNext, CountNext, BoundNext, PlainNext, PrintNext
  <2> QED
    BY <2>2, <2>3 DEF IInv
<1> QED
  BY <1>1, <1>2, PTL DEF Spec

(* The types: no counter exceeds the number of increments that are expected, *)
(* and no buffer the stores of one critical section and its release.         *)
THEOREM TypeCorrect == Spec => []TypeOK
<1>1. IInv => TypeOK
  <2> SUFFICES ASSUME IInv PROVE TypeOK
    OBVIOUS
  <2>1. TypeInv /\ ThreadInv /\ LockInv /\ BoundInv
    BY DEF IInv
  <2>2. Stored \in 0 .. Expected /\ Made \in 0 .. Expected /\ Expected \in Nat
    BY <2>1, StoredAndMade, AllPairs
  <2>3. Len(tests) <= 4
    <3>1. CASE tests = <<>>
      BY <3>1
    <3>2. CASE tests # <<>>
      <4>1. PICK k \in 1 .. 4 : Len(tests) = k
        BY <2>1, <3>2, TestCases
      <4>2. k <= 4
        BY <4>1
      <4> QED
        BY <4>1, <4>2, Zenon
    <3> QED
      BY <3>1, <3>2
  <2>4. Expected >= 1
    <3>1. Cardinality(Threads) \in Nat /\ Cardinality(Threads) # 0
      BY Constants, FS_CardinalityType, FS_EmptySet
    <3> QED
      BY <3>1, Constants DEF Expected
  <2>5. \A l \in Locations : mem[l] \in 0 .. Expected
    <3>1. mem.counter \in Nat /\ mem.plain \in Nat
      BY <2>1, LocationSet DEF TypeInv
    <3> QED
      BY <2>1, <2>2, <2>4, <3>1, LocationSet DEF BoundInv, LockInv
  <2>6. ASSUME NEW t \in Threads
        PROVE  /\ Len(buffer[t]) <= Adds + 1
               /\ \A n \in DOMAIN buffer[t] :
                     buffer[t][n].loc \in Locations /\ buffer[t][n].val \in 0 .. Expected
               /\ pc[t] \in {"head", "lock", "load", "store", "unlock", "xadd", "out"}
               /\ reg[t] \in 0 .. Expected /\ done[t] \in 0 .. Total
    <3>1. Len(buffer[t]) <= Adds + 1 /\ done[t] <= Total
      BY <2>1 DEF ThreadInv, Flow, Buffered
    <3>2. reg[t] \in Nat /\ done[t] \in Nat /\ pc[t] \in PcValues
      BY <2>1 DEF TypeInv
    <3>3. \A n \in DOMAIN buffer[t] :
             buffer[t][n].loc \in Locations /\ buffer[t][n].val \in 0 .. Expected
      BY <2>1, <2>2, BufferType DEF BoundInv
    <3>4. reg[t] \in 0 .. Expected
      BY <2>1, <2>2, <3>2 DEF BoundInv
    <3> QED
      BY <3>1, <3>2, <3>3, <3>4, Constants DEF PcValues
  <2> QED
    BY <2>1, <2>3, <2>5, <2>6 DEF TypeOK, LockInv
<1> QED
  BY <1>1, Inductive, PTL

(* The owner of a lock is alone, under each of the three locks, also while its *)
(* predecessor's release waits in a store buffer.                              *)
THEOREM OwnerAlone == Spec => []OwnerIsAlone
<1>1. IInv => OwnerIsAlone
  <2> SUFFICES ASSUME IInv, NEW t \in Threads, NEW u \in Threads, InSection(t), u # t
               PROVE  ~InSection(u) /\ \A n \in DOMAIN buffer[u] : buffer[u][n].loc # "counter"
    BY DEF OwnerIsAlone
  <2>1. Holder(t) /\ (InSection(u) => Holder(u))
    BY DEF InSection, Holder, InLocked, Running
  <2>2. ~Holder(u)
    BY <2>1 DEF IInv, LockInv
  <2>3. buffer[u] = <<>>
    BY <2>1, <2>2 DEF Holder
  <2>4. DOMAIN buffer[u] = {}
    BY <2>3
  <2> QED
    BY <2>1, <2>2, <2>4
<1> QED
  BY <1>1, Inductive, PTL

(* No increment is lost under a lock or a locked instruction; of the increments *)
(* of s_j at least two survive.                                                 *)
THEOREM PrintedRight == Spec => []PrintsRight
<1>1. IInv => PrintsRight
  BY DEF IInv, PrintInv, PrintsRight, Running
<1> QED
  BY <1>1, Inductive, PTL

-----------------------------------------------------------------------------
(***************************************************************************)
(* The tests implement the abstract counter: a sum of a critical section   *)
(* and the locked instruction are its increments.                          *)
(***************************************************************************)
LEMMA CountedIsMade == IInv => Counted = Made
<1> SUFFICES ASSUME IInv PROVE Counted = Made
  OBVIOUS
<1>1. TypeInv /\ ThreadInv /\ LockInv /\ CountInv
  BY DEF IInv
<1>2. CASE Owners = {}
  BY <1>1, <1>2 DEF CountInv, Owners, Counted
<1>3. CASE Owners # {}
  <2> DEFINE t == CHOOSE u \in Owners : TRUE
  <2>1. t \in Owners
    BY <1>3
  <2>2. Counted = Load(t, "counter")
    BY <1>3 DEF Counted
  <2> HIDE DEF t
  <2>3. t \in Threads /\ \E n \in DOMAIN buffer[t] : buffer[t][n].loc = "counter"
    BY <2>1 DEF Owners
  <2>4. buffer[t] # <<>>
    BY <2>3
  <2>5. InLocked
    <3>1. Running /\ ~InAtomic
      BY <1>1, <2>3, <2>4 DEF ThreadInv, Buffered
    <3>2. ~InDemo
      BY <1>1, <2>3 DEF ThreadInv, Buffered
    <3> QED
      BY <1>1, <3>1, <3>2, Modes
  <2>6. Holder(t)
    BY <2>4, <2>5 DEF Holder
  <2> QED
    BY <1>1, <2>2, <2>3, <2>6, LoadCounts
<1> QED
  BY <1>2, <1>3

Left == [t \in Threads |-> Total - done[t]]

LEMMA SameLeft == done' = done => Left' = Left
BY DEF Left

LEMMA AbstractInit == Init => Abstract!Init
<1> SUFFICES ASSUME Init PROVE Abstract!Init
  OBVIOUS
<1>1. IInv
  BY TypeInit, ThreadInit, LockInit, CountInit, BoundInit, PlainInit, PrintInit DEF IInv
<1>2. Counted = 0
  BY <1>1, CountedIsMade, CountNone DEF Init, Each, Made
<1>3. Len(tests) \in Nat
  BY DEF Init
<1>4. [t \in Threads |-> Total - done[t]] = [t \in Threads |-> Total]
  BY Constants DEF Init, Each
<1> QED
  BY <1>2, <1>3, <1>4 DEF Abstract!Init, Abstract!Fresh

(* The step of a thread that counts is an increment of the abstract counter. *)
LEMMA AbstractIncrement ==
  ASSUME TypeInv, Running, Counted' = Counted + 1, tests' = tests, NEW t \in Threads,
         done[t] < Total, done' = [done EXCEPT ![t] = done[t] + 1]
  PROVE  Abstract!Next
<1>1. Len(tests) > 0
  BY TestCases DEF Running
<1>2. Left[t] > 0 /\ Left' = [Left EXCEPT ![t] = Left[t] - 1]
  <2>1. Total \in Nat /\ \A u \in Threads : done[u] \in Nat
    BY Constants DEF TypeInv
  <2>2. /\ Left[t] = Total - done[t] /\ Left'[t] = Total - (done[t] + 1)
        /\ \A u \in Threads : u # t => Left'[u] = Left[u]
    BY DEF Left, TypeInv
  <2>3. Left'[t] = Left[t] - 1 /\ Left[t] > 0
    BY <2>1, <2>2
  <2>4. Left' = [u \in Threads |-> IF u = t THEN Left[t] - 1 ELSE Left[u]]
    BY <2>2, <2>3 DEF Left
  <2> QED
    BY <2>3, <2>4 DEF Left
<1>3. Abstract!Increment(t)
  BY <1>1, <1>2 DEF Abstract!Increment, Left
<1> QED
  BY <1>3 DEF Abstract!Next

LEMMA AbstractNext ==
  ASSUME IInv, Counted = Made, Counted' = Made', [Next]_vars
  PROVE  [Abstract!Next]_Abstract!vars
<1>0. TypeInv /\ ThreadInv /\ LockInv /\ CountInv
  BY DEF IInv
<1>1. CASE tests' = tests /\ done' = done
  <2>1. Counted' = Counted
    BY <1>0, <1>1 DEF Made
  <2> QED
    BY <1>1, <2>1 DEF Abstract!vars
<1>2. ASSUME NEW t \in Threads, StoreSum(t), done' # done
      PROVE  Abstract!Next
  <2>1. InLocked /\ done[t] < Total
    BY <1>0, <1>2, FlowStore DEF StoreSum, At, InDemo, ThreadInv, Flow
  <2>2. Made' = Made + 1
    BY <1>0, <1>2, <2>1, CountStore
  <2>3. tests' = tests /\ done' = [done EXCEPT ![t] = done[t] + 1] /\ Running
    BY <1>2, <2>1 DEF StoreSum, InLocked, Locked
  <2> QED
    BY <1>0, <2>1, <2>2, <2>3, AbstractIncrement
<1>3. ASSUME NEW t \in Threads, AtomicAdd(t)
      PROVE  Abstract!Next
  <2>1. Made' = Made + 1
    BY <1>0, <1>3, CountAdd
  <2>2. /\ tests' = tests /\ done' = [done EXCEPT ![t] = done[t] + 1] /\ Running
        /\ done[t] < Total
    BY <1>0, <1>3 DEF AtomicAdd, At, Running, ThreadInv, Flow
  <2> QED
    BY <1>0, <2>1, <2>2, AbstractIncrement
<1>4. CASE JoinAndPrint
  <2>1. \A t \in Threads : done[t] = Total
    BY <1>0, <1>4, FlowJoin
  <2>2. Made' = 0
    BY <1>4, CountNone DEF JoinAndPrint, Each, Made
  <2>3. Len(tests) > 0 /\ Len(tests') = Len(tests) - 1
    BY <1>0, <1>4, TestCases DEF JoinAndPrint, Joined
  <2>4. \A t \in Threads : Left[t] = 0
    BY <2>1, Constants DEF Left
  <2>5. Left' = [t \in Threads |-> Total]
    BY <1>4, Constants DEF Left, JoinAndPrint, Each
  <2>6. Abstract!NextTest
    BY <1>0, <2>2, <2>3, <2>4, <2>5 DEF Abstract!NextTest, Abstract!Fresh, Left
  <2> QED
    BY <2>6 DEF Abstract!Next
<1>5. ASSUME NEW t \in Threads, LoopHead(t) \/ Lock(t) \/ LoadForAdd(t) \/ Unlock(t) \/ Drain(t)
      PROVE  tests' = tests /\ done' = done
  BY <1>5 DEF LoopHead, Lock, LoadForAdd, Unlock, Drain, threadVars
<1>6. ASSUME NEW t \in Threads, StoreSum(t)
      PROVE  tests' = tests
  BY <1>6 DEF StoreSum
<1>7. CASE UNCHANGED vars
  BY <1>1, <1>7 DEF vars, threadVars
<1> QED
  BY <1>1, <1>2, <1>3, <1>4, <1>5, <1>6, <1>7 DEF Next, Step

(* Under each lock, and by the locked instruction, the threads of a test share *)
(* one atomic counter; a test is over when every thread has counted its share. *)
THEOREM CounterRefined == Spec => ImplementsCounter
<1> DEFINE Exact == Counted = Made
<1>1. IInv /\ Exact /\ Exact' /\ [Next]_vars => [Abstract!Next]_Abstract!vars
  BY AbstractNext
<1>2. IInv => Exact
  BY CountedIsMade
<1> HIDE DEF Exact
<1>3. Spec => []IInv
  BY Inductive
<1> QED
  BY <1>1, <1>2, <1>3, AbstractInit, PTL DEF Spec, ImplementsCounter, Abstract!Spec
=============================================================================
