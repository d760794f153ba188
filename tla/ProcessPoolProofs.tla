-------------------------- MODULE ProcessPoolProofs --------------------------
(***************************************************************************)
(* Proofs about ProcessPool, for any number of children and connections.   *)
(***************************************************************************)
EXTENDS ProcessPool, SequenceTheorems, NatLemmas

(***************************************************************************)
(* What the types rest on: while the constructor still loops there is a    *)
(* child left to fork, and a process that looks at signals[] has a byte    *)
(* left in it.                                                             *)
(***************************************************************************)
StartOK  == pc[Parent] = "fork" => forked < N
BufferOK == \A p \in Proc : pc[p] = "signals" => signals[p] # <<>>
TypeInv  == TypeOK /\ StartOK /\ BufferOK

LEMMA ProcFacts ==
  /\ N \in Nat \ {0}
  /\ Parent \in Proc
  /\ Parent \notin Child
  /\ 0 \in Child
  /\ NoPid \notin Child
  /\ \A c \in Child : c \in Proc /\ c # Parent
BY PoolAssumption DEF Proc, Parent, Child, NoPid

LEMMA TypeInit == Init => TypeInv
<1> SUFFICES ASSUME Init PROVE TypeInv
  OBVIOUS
<1> USE ProcFacts DEF Init
<1>1. <<>> \in Seq(Signal) /\ <<>> \in Seq(Conns)
  OBVIOUS
<1>2. TypeOK
  BY <1>1 DEF TypeOK, PcValues
<1>3. StartOK /\ BufferOK
  BY DEF StartOK, BufferOK
<1> QED
  BY <1>2, <1>3 DEF TypeInv

LEMMA TypeNext == TypeInv /\ [Next]_vars => TypeInv'
<1> SUFFICES ASSUME TypeInv, [Next]_vars
             PROVE  TypeInv'
  OBVIOUS
<1>a. /\ turns \in [Child -> Nat] /\ pipe \in [Child -> Nat]
      /\ kids \in [Child -> Nat] /\ deadkids \in [Child -> Nat]
  BY DEF TypeInv, TypeOK
<1>b. /\ ready \in [Proc -> SUBSET (Conns \cup {"listen", "pipe", "sig"})]
      /\ events \in [Proc -> SUBSET (Conns \cup {"listen", "pipe", "sig"})]
      /\ pending \in [Proc -> SUBSET Signal]
  BY DEF TypeInv, TypeOK
<1>c. /\ users \in [Child -> SUBSET Conns]
      /\ conn \in [Conns -> {"new", "backlog", "open", "closed"}]
      /\ data \subseteq Conns
  BY DEF TypeInv, TypeOK
<1>d. target \in Child /\ pc \in [Proc -> PcValues] /\ signals \in [Proc -> Seq(Signal)]
  BY DEF TypeInv, TypeOK
<1> USE ProcFacts DEF TypeInv, TypeOK, StartOK, BufferOK, PcValues
<1>1. CASE Fork
  <2>1. forked \in Child /\ forked + 1 \in 0 .. N /\ (forked + 1 # N => forked + 1 < N)
    BY <1>1 DEF Fork, Child
  <2> QED
    BY <1>1, <2>1 DEF Fork, childVars, netVars, history, epollVars, sigVars
<1>2. ASSUME NEW p \in Proc, Setup(p)
      PROVE  TypeInv'
  BY <1>2 DEF Setup, sigVars, parentVars, childVars, netVars, history
<1>3. ASSUME NEW c \in Child, Exits(c)
      PROVE  TypeInv'
  <2>1. <<>> \in Seq(Signal) /\ "CHLD" \in Signal
    BY DEF Signal
  <2>2. pc' \in [Proc -> PcValues] /\ m_stop' \in [Proc -> BOOLEAN] /\ StartOK'
    BY <1>3 DEF Exits, parentVars
  <2>3. /\ ready' \in [Proc -> SUBSET (Conns \cup {"listen", "pipe", "sig"})]
        /\ events' \in [Proc -> SUBSET (Conns \cup {"listen", "pipe", "sig"})]
    BY <1>3 DEF Exits, parentVars
  <2>4. /\ pending' \in [Proc -> SUBSET Signal]
        /\ sigpipe' \in [Proc -> Seq(Signal)]
        /\ signals' \in [Proc -> Seq(Signal)]
    BY <1>3, <2>1 DEF Exits
  <2>5. BufferOK'
    BY <1>3 DEF Exits
  <2> QED
    BY <1>3, <2>2, <2>3, <2>4, <2>5 DEF Exits, parentVars
<1>4. ASSUME NEW p \in Proc, StartupFails(p)
      PROVE  TypeInv'
  <2>1. CASE p = Parent
    BY <1>4, <2>1 DEF StartupFails, epollVars, sigVars, parentVars, childVars, netVars, history
  <2>2. CASE p # Parent
    BY <1>3, <1>4, <2>2 DEF StartupFails, Proc
  <2> QED
    BY <2>1, <2>2
<1>5. ASSUME NEW c \in Child, Crash(c)
      PROVE  TypeInv'
  BY <1>3, <1>5 DEF Crash
<1>6. ASSUME NEW p \in Proc, NEW s \in Signal, sig_handler(p, s)
      PROVE  TypeInv'
  <2>1. sigpipe' \in [Proc -> Seq(Signal)]
    BY <1>6, AppendProperties DEF sig_handler
  <2>2. /\ ready' \in [Proc -> SUBSET (Conns \cup {"listen", "pipe", "sig"})]
        /\ pending' \in [Proc -> SUBSET Signal]
    BY <1>6 DEF sig_handler
  <2> QED
    BY <1>6, <2>1, <2>2
    DEF sig_handler, procVars, parentVars, childVars, netVars, history
<1>7. ASSUME NEW p \in Proc, EpollWait(p)
      PROVE  TypeInv'
  BY <1>7 DEF EpollWait, sigVars, parentVars, childVars, netVars, history
<1>8. ASSUME NEW p \in Proc, EndBatch(p)
      PROVE  TypeInv'
  <2>1. CASE p \in Child /\ m_stop[p]
    BY <1>3, <1>8, <2>1 DEF EndBatch
  <2>2. CASE ~(p \in Child /\ m_stop[p])
    BY <1>8, <2>2 DEF EndBatch, epollVars, sigVars, parentVars, childVars, netVars, history
  <2> QED
    BY <2>1, <2>2
<1>9. ASSUME NEW p \in Proc, RecvSignals(p)
      PROVE  TypeInv'
  <2>1. /\ sigpipe' \in [Proc -> Seq(Signal)]
        /\ signals' \in [Proc -> Seq(Signal)]
    BY <1>9, EmptySeq DEF RecvSignals
  <2>2. pc' \in [Proc -> PcValues] /\ BufferOK' /\ StartOK'
    BY <1>9 DEF RecvSignals, parentVars
  <2>3. events' \in [Proc -> SUBSET (Conns \cup {"listen", "pipe", "sig"})]
    BY <1>9 DEF RecvSignals, Takes
  <2> QED
    BY <1>9, <2>1, <2>2, <2>3 DEF RecvSignals, parentVars, childVars, netVars, history
<1>10. CASE Pick
  <2>1. \A d \in 0 .. N - 1 : Nth(d) \in Live => Nth(d) \in Child
    BY DEF Live
  <2>2. \A c \in Child : NextIndex(c) \in Child
    BY DEF Child, NextIndex
  <2>3. /\ target' \in Child
        /\ sub_process_index' \in Child
        /\ turns' \in [Child -> Nat]
    <3> HIDE ProcFacts DEF TypeInv, TypeOK, StartOK, BufferOK, PcValues
    <3>1. PICK d \in 0 .. N - 1 :
            /\ Nth(d) \in Live
            /\ target' = Nth(d)
            /\ sub_process_index' = NextIndex(Nth(d))
            /\ turns' = [turns EXCEPT ![Nth(d)] = @ + 1]
      BY <1>10 DEF Pick
    <3>2. Nth(d) \in Child
      BY <2>1, <3>1
    <3>3. turns' \in [Child -> Nat]
      BY <1>a, <3>1, <3>2
    <3> QED
      BY <2>2, <3>1, <3>2, <3>3
  <2>4. /\ pc' \in [Proc -> PcValues]
        /\ events' \in [Proc -> SUBSET (Conns \cup {"listen", "pipe", "sig"})]
        /\ BufferOK' /\ StartOK'
    BY <1>10 DEF Pick, Takes, sigVars
  <2> QED
    BY <1>10, <2>3, <2>4 DEF Pick, sigVars, childVars, netVars, history
<1>11. CASE NobodyLeft
  BY <1>11 DEF NobodyLeft, sigVars, parentVars, childVars, netVars, history
<1>12. CASE SendToken
  <2>1. /\ pipe' \in [Child -> Nat]
        /\ ready' \in [Proc -> SUBSET (Conns \cup {"listen", "pipe", "sig"})]
    <3> HIDE ProcFacts DEF TypeInv, TypeOK, StartOK, BufferOK, PcValues
    <3>1. pipe' \in [Child -> Nat]
      BY <1>12, <1>a, <1>d DEF SendToken, Dead
    <3>2. ready' \in [Proc -> SUBSET (Conns \cup {"listen", "pipe", "sig"})]
      BY <1>12, <1>b DEF SendToken
    <3> QED
      BY <3>1, <3>2
  <2>2. pc' \in [Proc -> PcValues] /\ BufferOK' /\ StartOK'
    BY <1>12 DEF SendToken, sigVars, parentVars
  <2> QED
    BY <1>12, <2>1, <2>2 DEF SendToken, sigVars, parentVars, netVars, history
<1>13. ASSUME NEW p \in Proc, NEW s, SignalIs(p, s), ConsumeSignal(p)
       PROVE  /\ signals' \in [Proc -> Seq(Signal)]
              /\ \A q \in Proc : q # p => signals'[q] = signals[q]
              /\ AfterSignal(p) = "signals" => signals'[p] # <<>>
              /\ AfterSignal(p) \in {"events", "signals"}
  <2>1. signals[p] \in Seq(Signal) /\ signals[p] # <<>>
    BY <1>13 DEF SignalIs
  <2>2. Tail(signals[p]) \in Seq(Signal) /\ Len(Tail(signals[p])) = Len(signals[p]) - 1
    BY <2>1, HeadTailProperties
  <2>3. Len(signals[p]) # 1 => Tail(signals[p]) # <<>>
    <3> HIDE ProcFacts DEF TypeInv, TypeOK, StartOK, BufferOK, PcValues
    <3>1. Len(signals[p]) \in Nat \ {0}
      BY <2>1, EmptySeq
    <3>2. Len(signals[p]) # 1 => Len(Tail(signals[p])) # 0
      BY <2>2, <3>1
    <3> QED
      BY <3>2, EmptySeq
  <2> QED
    BY <1>13, <2>2, <2>3 DEF ConsumeSignal, AfterSignal
<1>14. CASE Reap
  BY <1>13, <1>14 DEF Reap, Collected, Exited, AllJoined, epollVars, childVars, netVars
<1>15. ASSUME NEW S \in SUBSET Proc
       PROVE  /\ Terminated(S) \in [Proc -> PcValues]
              /\ \A p \in Proc : Terminated(S)[p] \in {pc[p], "aborted", "exited"}
              /\ Signalled(S) \in [Proc -> SUBSET Signal]
              /\ PipesWithout(S) \in [Child -> Nat]
  BY DEF Terminated, Signalled, PipesWithout
<1>16. CASE KillAll
  <2>1. Live \in SUBSET Proc
    BY DEF Live, Proc
  <2>2. /\ pc' \in [Proc -> PcValues]
        /\ signals' \in [Proc -> Seq(Signal)]
    BY <1>13, <1>15, <1>16, <2>1 DEF KillAll
  <2>4. BufferOK'
    <3> SUFFICES ASSUME NEW p \in Proc, pc'[p] = "signals" PROVE signals'[p] # <<>>
      OBVIOUS
    <3>1. CASE p = Parent
      <4>1. pc'[Parent] = AfterSignal(Parent)
        <5> HIDE DEF TypeInv, TypeOK, StartOK, BufferOK, PcValues
        <5>1. pc' = [Terminated(Live) EXCEPT ![Parent] = AfterSignal(Parent)]
          BY <1>16 DEF KillAll
        <5>2. Terminated(Live) \in [Proc -> PcValues]
          BY <1>15, <2>1
        <5> QED
          BY <5>1, <5>2
      <4>2. AfterSignal(Parent) = "signals" => signals'[Parent] # <<>>
        BY <1>13, <1>16 DEF KillAll
      <4> QED
        BY <3>1, <4>1, <4>2
    <3>2. CASE p # Parent
      <4>1. Terminated(Live)[p] = "signals"
        BY <1>15, <1>16, <2>1, <3>2 DEF KillAll
      <4>2. pc[p] = "signals"
        BY <1>15, <2>1, <4>1
      <4> QED
        BY <1>13, <1>16, <3>2, <4>2 DEF KillAll
    <3> QED
      BY <3>1, <3>2
  <2>5. StartOK'
    BY <1>13, <1>15, <1>16, <2>1 DEF KillAll, parentVars
  <2>3. pending' \in [Proc -> SUBSET Signal] /\ pipe' \in [Child -> Nat]
    BY <1>15, <1>16, <2>1 DEF KillAll
  <2> QED
    BY <1>16, <2>2, <2>3, <2>4, <2>5 DEF KillAll, epollVars, parentVars, netVars, history
<1>17. ASSUME NEW c \in Child, RecvToken(c)
       PROVE  TypeInv'
  <2>1. pipe' \in [Child -> Nat]
    <3> HIDE ProcFacts DEF TypeInv, TypeOK, StartOK, BufferOK, PcValues
    <3> QED
      BY <1>17, <1>a DEF RecvToken, TokensAfterRecv
  <2>2. CASE backlog = <<>>
    BY <1>17, <2>1, <2>2 DEF RecvToken, Takes, procVars, sigVars, parentVars, history
  <2>3. CASE backlog # <<>>
    <3>1. Head(backlog) \in Conns /\ Tail(backlog) \in Seq(Conns)
      BY <2>3, HeadTailProperties
    <3>2. PICK k \in Conns :
            /\ backlog' = Tail(backlog)
            /\ conn' = [conn EXCEPT ![k] = "open"]
            /\ users' = [users EXCEPT ![c] = @ \cup {k}]
            /\ ready' = IF k \in data THEN [ready EXCEPT ![c] = @ \cup {k}] ELSE ready
      <4> HIDE ProcFacts DEF TypeInv, TypeOK, StartOK, BufferOK, PcValues
      <4> QED
        BY <1>17, <2>3, <3>1 DEF RecvToken
    <3>3. /\ users' \in [Child -> SUBSET Conns]
          /\ conn' \in [Conns -> {"new", "backlog", "open", "closed"}]
          /\ ready' \in [Proc -> SUBSET (Conns \cup {"listen", "pipe", "sig"})]
      <4> HIDE ProcFacts DEF TypeInv, TypeOK, StartOK, BufferOK, PcValues
      <4> QED
        BY <1>b, <1>c, <3>2
    <3>4. events' \in [Proc -> SUBSET (Conns \cup {"listen", "pipe", "sig"})]
      <4> HIDE ProcFacts DEF TypeInv, TypeOK, StartOK, BufferOK, PcValues
      <4> QED
        BY <1>17, <1>b DEF RecvToken, Takes
    <3>5. backlog' \in Seq(Conns)
      BY <3>1, <3>2
    <3> QED
      BY <1>17, <2>1, <3>3, <3>4, <3>5 DEF RecvToken, procVars, sigVars, parentVars, history
  <2> QED
    BY <2>2, <2>3
<1>18. ASSUME NEW c \in Child, NEW k \in Conns, Process(c, k)
       PROVE  TypeInv'
  <2>1. /\ ready' \in [Proc -> SUBSET (Conns \cup {"listen", "pipe", "sig"})]
        /\ events' \in [Proc -> SUBSET (Conns \cup {"listen", "pipe", "sig"})]
    <3> HIDE ProcFacts DEF TypeInv, TypeOK, StartOK, BufferOK, PcValues
    <3> QED
      BY <1>18, <1>b, ProcFacts DEF Process, Takes
  <2>2. /\ users' \in [Child -> SUBSET Conns]
        /\ conn' \in [Conns -> {"new", "backlog", "open", "closed"}]
        /\ kids' \in [Child -> Nat]
        /\ data' \subseteq Conns
    <3> HIDE ProcFacts DEF TypeInv, TypeOK, StartOK, BufferOK, PcValues
    <3> QED
      BY <1>18, <1>a, <1>c DEF Process
  <2> QED
    BY <1>18, <2>1, <2>2 DEF Process, procVars, sigVars, parentVars, history
<1>19. ASSUME NEW c \in Child, ChildReap(c)
       PROVE  TypeInv'
  BY <1>13, <1>19 DEF ChildReap, epollVars, parentVars, netVars, history
<1>20. ASSUME NEW c \in Child, ChildStop(c)
       PROVE  TypeInv'
  BY <1>13, <1>20 DEF ChildStop, epollVars, parentVars, childVars, netVars, history
<1>21. ASSUME NEW k \in Conns, Connect(k)
       PROVE  TypeInv'
  <2>1. backlog' \in Seq(Conns)
    BY <1>21, AppendProperties DEF Connect
  <2>2. ready' \in [Proc -> SUBSET (Conns \cup {"listen", "pipe", "sig"})]
    BY <1>21 DEF Connect
  <2> QED
    BY <1>21, <2>1, <2>2 DEF Connect, procVars, sigVars, parentVars, childVars, history
<1>22. ASSUME NEW k \in Conns, ClientSends(k)
       PROVE  TypeInv'
  BY <1>22 DEF ClientSends, procVars, sigVars, parentVars, childVars, history
<1>23. ASSUME NEW c \in Child, KidExits(c)
       PROVE  TypeInv'
  <2>1. "CHLD" \in Signal /\ kids[c] - 1 \in Nat
    <3> HIDE ProcFacts DEF TypeInv, TypeOK, StartOK, BufferOK, PcValues
    <3> QED
      BY <1>23, <1>a DEF KidExits, Signal
  <2>2. pending' \in [Proc -> SUBSET Signal]
    BY <1>23, <2>1 DEF KidExits
  <2>3. kids' \in [Child -> Nat] /\ deadkids' \in [Child -> Nat]
    <3> HIDE ProcFacts DEF TypeInv, TypeOK, StartOK, BufferOK, PcValues
    <3> QED
      BY <1>23, <1>a, <2>1 DEF KidExits
  <2> QED
    BY <1>23, <2>2, <2>3 DEF KidExits, procVars, epollVars, parentVars, netVars, history
<1>24. ASSUME NEW S \in SUBSET Proc, Interrupt(S)
       PROVE  TypeInv'
  BY <1>15, <1>24 DEF Interrupt, epollVars, parentVars, netVars
<1>25. CASE UNCHANGED vars
  BY <1>25 DEF vars, procVars, epollVars, sigVars, parentVars, childVars, netVars, history
<1> QED
  BY <1>1, <1>2, <1>4, <1>5, <1>6, <1>7, <1>8, <1>9, <1>10, <1>11, <1>12, <1>14, <1>16,
     <1>17, <1>18, <1>19, <1>20, <1>21, <1>22, <1>23, <1>24, <1>25, PoolAssumption
  DEF Next, ParentStep, ChildStep, Environment

LEMMA TypeAlways == Spec => []TypeInv
BY TypeInit, TypeNext, PTL DEF Spec

(* Every variable keeps its type: the index of the next child stays in the  *)
(* table, signals[] is only read where a byte is left, and so on.           *)
THEOREM TypeCorrect == Spec => []TypeOK
BY TypeAlways, PTL DEF TypeInv

-----------------------------------------------------------------------------
(***************************************************************************)
(* The table of the parent.  The parent decides to leave from its table,   *)
(* so the invariant ties the table to what the processes really do: a      *)
(* child is named exactly from its fork to its waitpid, and m_stop is only *)
(* set once nobody is named any more.                                      *)
(***************************************************************************)
TableInv ==
  /\ \A c \in Child : m_pid[c] # NoPid <=> pc[c] \notin {"unborn", "reaped"}
  /\ \A c \in Child : pc[c] = "unborn" => pc[Parent] \in {"fork", "aborted"}
  /\ pc[Parent] = "fork" => \A c \in Child : pc[c] = "unborn" <=> c >= forked
  /\ m_stop[Parent] => pc[Parent] # "fork" /\ \A c \in Child : m_pid[c] = NoPid
  /\ pc[Parent] = "exited" => m_stop[Parent]

(* A step that neither forks nor reaps.  *)
LEMMA QuietStep ==
  ASSUME TypeInv, TableInv,
         m_pid' = m_pid,
         \A c \in Child : pc'[c] # pc[c] => {pc[c], pc'[c]} \cap {"unborn", "reaped"} = {},
         forked' = forked,
         m_stop'[Parent] = m_stop[Parent],
         \/ pc'[Parent] = pc[Parent]
         \/ pc'[Parent] = "aborted"
         \/ pc[Parent] \notin {"fork", "aborted"} /\ pc'[Parent] \notin {"fork", "exited"}
         \/ pc[Parent] = "events" /\ pc'[Parent] = "exited" /\ m_stop[Parent]
  PROVE  TableInv'
<1>1. \A c \in Child : \/ pc'[c] = pc[c]
                       \/ pc[c] \notin {"unborn", "reaped"} /\ pc'[c] \notin {"unborn", "reaped"}
  OBVIOUS
<1>2. \A c \in Child : m_pid'[c] # NoPid <=> pc'[c] \notin {"unborn", "reaped"}
  BY <1>1 DEF TableInv
<1>3. \A c \in Child : pc'[c] = "unborn" <=> pc[c] = "unborn"
  BY <1>1
<1>4. \A c \in Child : pc'[c] = "unborn" => pc'[Parent] \in {"fork", "aborted"}
  BY <1>3 DEF TableInv
<1>5. pc'[Parent] = "fork" => \A c \in Child : pc'[c] = "unborn" <=> c >= forked'
  BY <1>3 DEF TableInv
<1> QED
  BY <1>2, <1>4, <1>5 DEF TableInv

LEMMA TableInit == Init => TableInv
BY ProcFacts DEF Init, TableInv, Child

LEMMA TableNext == TypeInv /\ TableInv /\ [Next]_vars => TableInv'
<1> SUFFICES ASSUME TypeInv, TableInv, [Next]_vars
             PROVE  TableInv'
  OBVIOUS
<1> USE ProcFacts
<1>t. /\ pc \in [Proc -> PcValues] /\ m_stop \in [Proc -> BOOLEAN]
      /\ m_pid \in [Child -> Child \cup {NoPid}]
  BY DEF TypeInv, TypeOK
<1>1. CASE Fork
  <2>1. forked \in Child /\ pc[Parent] = "fork" /\ forked \in Nat
    BY <1>1 DEF Fork, TypeInv, TypeOK, StartOK, Child
  <2>2. /\ m_pid' = [m_pid EXCEPT ![forked] = forked]
        /\ forked' = forked + 1
        /\ pc' = [pc EXCEPT ![forked] = "setup",
                            ![Parent] = IF forked + 1 = N THEN "setup" ELSE "fork"]
        /\ m_stop' = m_stop
    BY <1>1 DEF Fork
  <2>3. \A c \in Child : c # forked => (c >= forked <=> c >= forked + 1)
    BY <2>1 DEF Child
  <2>4. forked + 1 = N => \A c \in Child : c >= forked => c = forked
    BY <2>1 DEF Child
  <2> QED
    BY <1>t, <2>1, <2>2, <2>3, <2>4 DEF TableInv
<1>2. ASSUME NEW p \in Proc, Setup(p)
      PROVE  TableInv'
  BY <1>t, <1>2, QuietStep DEF Setup, parentVars, Proc
<1>3. ASSUME NEW c \in Child, Exits(c), pc[c] \notin {"unborn", "reaped"}
      PROVE  TableInv'
  BY <1>t, <1>3, QuietStep DEF Exits, parentVars
<1>4. ASSUME NEW p \in Proc, StartupFails(p)
      PROVE  TableInv'
  <2>1. CASE p = Parent
    BY <1>t, <1>4, <2>1, QuietStep DEF StartupFails, parentVars
  <2>2. CASE p # Parent
    BY <1>3, <1>4, <2>2 DEF StartupFails, Proc
  <2> QED
    BY <2>1, <2>2
<1>5. ASSUME NEW c \in Child, Crash(c)
      PROVE  TableInv'
  BY <1>3, <1>5 DEF Crash, Running
<1>6. ASSUME NEW p \in Proc, NEW s \in Signal, sig_handler(p, s)
      PROVE  TableInv'
  BY <1>6, QuietStep DEF sig_handler, procVars, parentVars
<1>7. ASSUME NEW p \in Proc, EpollWait(p)
      PROVE  TableInv'
  BY <1>t, <1>7, QuietStep DEF EpollWait, parentVars
<1>8. ASSUME NEW p \in Proc, EndBatch(p)
      PROVE  TableInv'
  <2>1. CASE p \in Child /\ m_stop[p]
    BY <1>3, <1>8, <2>1 DEF EndBatch
  <2>2. CASE ~(p \in Child /\ m_stop[p])
    BY <1>t, <1>8, <2>2, QuietStep DEF EndBatch, parentVars, Proc
  <2> QED
    BY <2>1, <2>2
<1>9. ASSUME NEW p \in Proc, RecvSignals(p)
      PROVE  TableInv'
  BY <1>t, <1>9, QuietStep DEF RecvSignals, Takes, parentVars
<1>10. CASE Pick
  BY <1>t, <1>10, QuietStep DEF Pick, Takes
<1>11. CASE NobodyLeft
  BY <1>t, <1>11 DEF NobodyLeft, TableInv, parentVars, Live
<1>12. CASE SendToken
  BY <1>t, <1>12, QuietStep DEF SendToken, parentVars
<1>13. ASSUME NEW p \in Proc, NEW s, SignalIs(p, s)
       PROVE  pc[p] = "signals" /\ AfterSignal(p) \in {"events", "signals"}
  BY <1>13 DEF SignalIs, AfterSignal
<1>14. CASE Reap
  <2>1. /\ m_pid' = [c \in Child |-> IF c \in Exited THEN NoPid ELSE m_pid[c]]
        /\ pc' = [p \in Proc |-> IF p \in Exited THEN "reaped"
                                 ELSE IF p = Parent THEN AfterSignal(p) ELSE pc[p]]
        /\ m_stop' = [m_stop EXCEPT ![Parent] = Live \subseteq Exited]
    BY <1>14 DEF Reap, Collected, AllJoined
  <2>2. pc[Parent] = "signals" /\ AfterSignal(Parent) \in {"events", "signals"}
    BY <1>13, <1>14 DEF Reap
  <2>3. pc'[Parent] \in {"events", "signals"}
    BY <2>1, <2>2 DEF Exited
  <2>4. m_stop'[Parent] => \A c \in Child : m_pid'[c] = NoPid
    BY <1>t, <2>1 DEF Live, Exited
  <2>5. \A c \in Child : pc'[c] = IF pc[c] = "exited" THEN "reaped" ELSE pc[c]
    BY <2>1 DEF Exited
  <2>6. \A c \in Child : m_pid'[c] = IF pc[c] = "exited" THEN NoPid ELSE m_pid[c]
    BY <2>1 DEF Exited
  <2> QED
    BY <2>2, <2>3, <2>4, <2>5, <2>6 DEF TableInv
<1>15. ASSUME NEW S \in SUBSET Proc
       PROVE  /\ \A c \in Child : Terminated(S)[c] # pc[c] =>
                    {pc[c], Terminated(S)[c]} \cap {"unborn", "reaped"} = {}
              /\ Terminated(S)[Parent] \in {pc[Parent], "aborted"}
              /\ Terminated(S) \in [Proc -> PcValues]
  BY <1>t DEF Terminated, Unprotected, PcValues
<1>16. CASE KillAll
  <2>1. Live \in SUBSET Proc
    BY DEF Live, Proc
  <2>2. pc' = [Terminated(Live) EXCEPT ![Parent] = AfterSignal(Parent)]
    BY <1>16 DEF KillAll
  <2>3. pc[Parent] = "signals" /\ AfterSignal(Parent) \in {"events", "signals"}
    BY <1>13, <1>16 DEF KillAll
  <2>4. \A c \in Child : pc'[c] = Terminated(Live)[c]
    BY <1>15, <2>1, <2>2
  <2>5. pc'[Parent] \in {"events", "signals"}
    BY <1>15, <2>1, <2>2, <2>3
  <2> QED
    BY <1>15, <1>16, <2>1, <2>3, <2>4, <2>5, QuietStep DEF KillAll, parentVars
<1>17. ASSUME NEW c \in Child, RecvToken(c)
       PROVE  TableInv'
  BY <1>17, QuietStep DEF RecvToken, procVars, parentVars
<1>18. ASSUME NEW c \in Child, NEW k \in Conns, Process(c, k)
       PROVE  TableInv'
  BY <1>18, QuietStep DEF Process, procVars, parentVars
<1>19. ASSUME NEW c \in Child, ChildReap(c)
       PROVE  TableInv'
  BY <1>t, <1>13, <1>19, QuietStep DEF ChildReap, parentVars
<1>20. ASSUME NEW c \in Child, ChildStop(c)
       PROVE  TableInv'
  BY <1>t, <1>13, <1>20, QuietStep DEF ChildStop, parentVars
<1>21. ASSUME NEW k \in Conns, Connect(k) \/ ClientSends(k)
       PROVE  TableInv'
  BY <1>21, QuietStep DEF Connect, ClientSends, procVars, parentVars
<1>22. ASSUME NEW c \in Child, KidExits(c)
       PROVE  TableInv'
  BY <1>22, QuietStep DEF KidExits, procVars, parentVars
<1>23. ASSUME NEW S \in SUBSET Proc, Interrupt(S)
       PROVE  TableInv'
  BY <1>15, <1>23, QuietStep DEF Interrupt, parentVars
<1>24. CASE UNCHANGED vars
  BY <1>24, QuietStep DEF vars, procVars, parentVars
<1> QED
  BY <1>1, <1>2, <1>4, <1>5, <1>6, <1>7, <1>8, <1>9, <1>10, <1>11, <1>12, <1>14, <1>16,
     <1>17, <1>18, <1>19, <1>20, <1>21, <1>22, <1>23, <1>24, PoolAssumption
  DEF Next, ParentStep, ChildStep, Environment

(* The parent leaves run_parent only after every child was waited for, in   *)
(* whatever order children die, are told to stop, and are reaped.           *)
THEOREM ParentLeavesNobody == Spec => []NoOrphans
<1>1. Spec => []TableInv
  BY TypeAlways, TableInit, TableNext, PTL DEF Spec
<1>2. TableInv => NoOrphans
  BY DEF TableInv, NoOrphans
<1> QED
  BY <1>1, <1>2, PTL

-----------------------------------------------------------------------------
(***************************************************************************)
(* Deaths are noticed.  The note of a death moves from pending to the      *)
(* signal pipe to signals[]; it is not lost on the way because signals[]   *)
(* has been emptied whenever the parent reads the pipe again.              *)
(***************************************************************************)
DeathInv ==
  /\ EveryDeathNoticed
  /\ pc[Parent] # "signals" => signals[Parent] = <<>>

LEMMA ChldAppended ==
  ASSUME NEW q \in Seq(Signal), NEW s \in Signal, HasChld(q) \/ s = "CHLD"
  PROVE  HasChld(Append(q, s))
<1>1. /\ Len(q) \in Nat
      /\ Len(Append(q, s)) = Len(q) + 1
      /\ \A i \in 1 .. Len(q) : Append(q, s)[i] = q[i]
      /\ Append(q, s)[Len(q) + 1] = s
  BY AppendProperties, LenProperties
<1> QED
  BY <1>1 DEF HasChld

LEMMA ChldInTail ==
  ASSUME NEW q \in Seq(Signal), q # <<>>, Head(q) # "CHLD", HasChld(q)
  PROVE  HasChld(Tail(q))
<1>1. PICK i \in 1 .. Len(q) : q[i] = "CHLD"
  BY DEF HasChld
<1>2. /\ Len(q) \in Nat \ {0}
      /\ Len(Tail(q)) = Len(q) - 1
      /\ \A j \in 1 .. Len(Tail(q)) : Tail(q)[j] = q[j + 1]
  BY HeadTailProperties, EmptySeq
<1>3. Head(q) = q[1]
  BY <1>2
<1>4. i # 1
  BY <1>1, <1>3
<1>5. i - 1 \in 1 .. Len(Tail(q)) /\ Tail(q)[i - 1] = q[i]
  BY <1>2, <1>4
<1> QED
  BY <1>1, <1>5 DEF HasChld

(* A step that takes no note of a death away.  *)
LEMMA NoteKept ==
  ASSUME DeathInv,
         pending[Parent] \subseteq pending'[Parent],
         sigpipe'[Parent] = sigpipe[Parent],
         signals'[Parent] = signals[Parent],
         \A c \in Child : pc'[c] = "exited" /\ c \notin unseen' =>
           (pc[c] = "exited" /\ c \notin unseen) \/ "CHLD" \in pending'[Parent],
         pc[Parent] \in {"exited", "aborted"} => pc'[Parent] = pc[Parent],
         pc[Parent] = "signals" => pc'[Parent] = "signals"
  PROVE  DeathInv'
<1>1. ChldInFlight => ChldInFlight'
  BY DEF ChldInFlight
<1>2. "CHLD" \in pending'[Parent] => ChldInFlight'
  BY DEF ChldInFlight
<1> QED
  BY <1>1, <1>2 DEF DeathInv, EveryDeathNoticed

LEMMA DeathInit == Init => DeathInv
BY ProcFacts DEF Init, DeathInv, EveryDeathNoticed

LEMMA DeathNext == TypeInv /\ DeathInv /\ [Next]_vars => DeathInv'
<1> SUFFICES ASSUME TypeInv, DeathInv, [Next]_vars
             PROVE  DeathInv'
  OBVIOUS
<1> USE ProcFacts
<1>t. /\ pc \in [Proc -> PcValues]
      /\ pending \in [Proc -> SUBSET Signal]
      /\ sigpipe \in [Proc -> Seq(Signal)]
      /\ signals \in [Proc -> Seq(Signal)]
      /\ pc[Parent] = "signals" => signals[Parent] # <<>>
  BY DEF TypeInv, TypeOK, BufferOK
<1>1. CASE Fork
  <2>1. forked \in Child /\ pc[Parent] = "fork"
    BY <1>1 DEF Fork, TypeInv, TypeOK, StartOK, Child
  <2> QED
    BY <1>t, <1>1, <2>1, NoteKept DEF Fork, sigVars, history
<1>2. ASSUME NEW p \in Proc, Setup(p)
      PROVE  DeathInv'
  BY <1>t, <1>2, NoteKept DEF Setup, sigVars, history
<1>3. ASSUME NEW c \in Child, Exits(c)
      PROVE  DeathInv'
  <2>1. /\ pc'[Parent] = pc[Parent]
        /\ sigpipe'[Parent] = sigpipe[Parent]
        /\ signals'[Parent] = signals[Parent]
        /\ \A d \in Child : d # c => pc'[d] = pc[d]
    BY <1>t, <1>3 DEF Exits
  <2>2. pending'[Parent] = IF Running(Parent) THEN pending[Parent] \cup {"CHLD"}
                                              ELSE pending[Parent]
    BY <1>t, <1>3 DEF Exits
  <2>3. unseen' = IF Running(Parent) THEN unseen ELSE unseen \cup {c}
    BY <1>3 DEF Exits
  <2> QED
    BY <2>1, <2>2, <2>3, NoteKept
<1>4. ASSUME NEW p \in Proc, StartupFails(p)
      PROVE  DeathInv'
  <2>1. CASE p = Parent
    BY <1>t, <1>4, <2>1, NoteKept DEF StartupFails, sigVars, history
  <2>2. CASE p # Parent
    BY <1>3, <1>4, <2>2 DEF StartupFails, Proc
  <2> QED
    BY <2>1, <2>2
<1>5. ASSUME NEW c \in Child, Crash(c)
      PROVE  DeathInv'
  BY <1>3, <1>5 DEF Crash
<1>6. ASSUME NEW p \in Proc, NEW s \in Signal, sig_handler(p, s)
      PROVE  DeathInv'
  <2>1. CASE p # Parent
    BY <1>t, <1>6, <2>1, NoteKept DEF sig_handler, procVars, history
  <2>2. CASE p = Parent
    <3>1. /\ pending'[Parent] = pending[Parent] \ {s}
          /\ sigpipe'[Parent] = Append(sigpipe[Parent], s)
          /\ signals' = signals /\ pc' = pc /\ unseen' = unseen
      BY <1>t, <1>6, <2>2 DEF sig_handler, procVars, history
    <3>2. HasChld(sigpipe[Parent]) \/ s = "CHLD" => HasChld(sigpipe'[Parent])
      BY <1>t, <3>1, ChldAppended
    <3>3. ChldInFlight => ChldInFlight'
      BY <3>1, <3>2 DEF ChldInFlight
    <3> QED
      BY <3>1, <3>3 DEF DeathInv, EveryDeathNoticed
  <2> QED
    BY <2>1, <2>2
<1>7. ASSUME NEW p \in Proc, EpollWait(p)
      PROVE  DeathInv'
  BY <1>t, <1>7, NoteKept DEF EpollWait, sigVars, history
<1>8. ASSUME NEW p \in Proc, EndBatch(p)
      PROVE  DeathInv'
  <2>1. CASE p \in Child /\ m_stop[p]
    BY <1>3, <1>8, <2>1 DEF EndBatch
  <2>2. CASE ~(p \in Child /\ m_stop[p])
    <3>1. /\ pc'[p] = "exited" => p = Parent
          /\ \A q \in Proc : q # p => pc'[q] = pc[q]
          /\ UNCHANGED <<pending, sigpipe, signals, unseen>>
      BY <1>t, <1>8, <2>2 DEF EndBatch, sigVars, history, Proc
    <3>2. pc[p] = "events"
      BY <1>8 DEF EndBatch
    <3> QED
      BY <1>t, <3>1, <3>2, NoteKept
  <2> QED
    BY <2>1, <2>2
<1>9. ASSUME NEW p \in Proc, RecvSignals(p)
      PROVE  DeathInv'
  <2>1. CASE p # Parent
    BY <1>t, <1>9, <2>1, NoteKept DEF RecvSignals, Takes, history
  <2>2. CASE p = Parent
    <3>1. /\ pc[Parent] = "events" /\ signals[Parent] = <<>>
          /\ signals'[Parent] = sigpipe[Parent]
          /\ pending' = pending /\ unseen' = unseen
          /\ pc'[Parent] = IF sigpipe[Parent] = <<>> THEN "events" ELSE "signals"
          /\ \A c \in Child : pc'[c] = pc[c]
      BY <1>t, <1>9, <2>2 DEF RecvSignals, Takes, history, DeathInv
    <3>2. ~HasChld(<<>>)
      BY EmptySeq DEF HasChld
    <3>3. ChldInFlight => ChldInFlight'
      BY <3>1, <3>2 DEF ChldInFlight
    <3> QED
      BY <3>1, <3>3 DEF DeathInv, EveryDeathNoticed
  <2> QED
    BY <2>1, <2>2
<1>10. CASE Pick
  BY <1>t, <1>10, NoteKept DEF Pick, Takes, sigVars, history
<1>11. CASE NobodyLeft
  BY <1>t, <1>11, NoteKept DEF NobodyLeft, sigVars, history
<1>12. CASE SendToken
  BY <1>t, <1>12, NoteKept DEF SendToken, sigVars, history
<1>13. ASSUME NEW p \in Proc, NEW s, SignalIs(p, s), ConsumeSignal(p)
       PROVE  /\ pc[p] = "signals"
              /\ signals'[p] = Tail(signals[p])
              /\ \A q \in Proc : q # p => signals'[q] = signals[q]
              /\ AfterSignal(p) \in {"events", "signals"}
  BY <1>t, <1>13 DEF SignalIs, ConsumeSignal, AfterSignal
<1>14. ASSUME NEW s, SignalIs(Parent, s), ConsumeSignal(Parent), AfterSignal(Parent) # "signals"
       PROVE  signals'[Parent] = <<>>
  <2>1. signals[Parent] \in Seq(Signal) /\ signals[Parent] # <<>> /\ Len(signals[Parent]) = 1
    BY <1>t, <1>14 DEF SignalIs, AfterSignal
  <2>2. Tail(signals[Parent]) \in Seq(Signal) /\ Len(Tail(signals[Parent])) = 0
    BY <2>1, HeadTailProperties
  <2>3. Tail(signals[Parent]) = <<>>
    BY <2>2, EmptySeq
  <2> QED
    BY <1>13, <1>14, <2>3
<1>15. CASE Reap
  <2>1. \A c \in Child : pc'[c] # "exited"
    BY <1>t, <1>15 DEF Reap, Collected, Exited
  <2>2. pc'[Parent] = AfterSignal(Parent)
    BY <1>t, <1>13, <1>15 DEF Reap, Collected, Exited
  <2>3. pc'[Parent] # "signals" => signals'[Parent] = <<>>
    BY <1>14, <1>15, <2>2 DEF Reap
  <2> QED
    BY <2>1, <2>3 DEF DeathInv, EveryDeathNoticed
<1>16. ASSUME NEW S \in SUBSET Proc
       PROVE  /\ Terminated(S) \in [Proc -> PcValues]
              /\ \A c \in Child : Terminated(S)[c] = "exited" =>
                   pc[c] = "exited" \/ c \in Unprotected(S)
              /\ Terminated(S)[Parent] # pc[Parent] =>
                   pc[Parent] \in {"fork", "setup"} /\ Terminated(S)[Parent] = "aborted"
              /\ pending[Parent] \subseteq Signalled(S)[Parent]
              /\ Running(Parent) /\ Unprotected(S) # {} => "CHLD" \in Signalled(S)[Parent]
  <2>1. /\ Terminated(S) \in [Proc -> PcValues]
        /\ \A c \in Child : Terminated(S)[c] = "exited" =>
              pc[c] = "exited" \/ c \in Unprotected(S)
        /\ Terminated(S)[Parent] # pc[Parent] =>
              pc[Parent] \in {"fork", "setup"} /\ Terminated(S)[Parent] = "aborted"
    BY <1>t DEF Terminated, Unprotected, PcValues
  <2>2. /\ pending[Parent] \subseteq Signalled(S)[Parent]
        /\ Running(Parent) /\ Unprotected(S) # {} => "CHLD" \in Signalled(S)[Parent]
    BY DEF Signalled, Signal
  <2> QED
    BY <2>1, <2>2
<1>17. CASE KillAll
  <2>1. Live \in SUBSET Proc
    BY DEF Live, Proc
  <2>2. /\ SignalIs(Parent, "TERM") /\ ConsumeSignal(Parent)
        /\ pc' = [Terminated(Live) EXCEPT ![Parent] = AfterSignal(Parent)]
        /\ pending' = Signalled(Live)
        /\ sigpipe' = sigpipe /\ unseen' = unseen
    BY <1>17 DEF KillAll, history
  <2>3. /\ pc[Parent] = "signals" /\ Running(Parent)
        /\ signals'[Parent] = Tail(signals[Parent])
        /\ Head(signals[Parent]) # "CHLD"
    BY <1>13, <2>2 DEF Running, SignalIs
  <2>4. \A c \in Child : pc'[c] = Terminated(Live)[c]
    BY <1>16, <2>1, <2>2
  <2>5. pc'[Parent] = AfterSignal(Parent)
    BY <1>16, <2>1, <2>2
  <2>6. ChldInFlight => ChldInFlight'
    BY <1>t, <1>16, <2>1, <2>2, <2>3, ChldInTail DEF ChldInFlight
  <2>7. Unprotected(Live) # {} => ChldInFlight'
    BY <1>16, <2>1, <2>2, <2>3 DEF ChldInFlight
  <2>8. pc'[Parent] # "signals" => signals'[Parent] = <<>>
    BY <1>14, <2>2, <2>5
  <2> QED
    BY <1>16, <2>1, <2>2, <2>3, <2>4, <2>6, <2>7, <2>8 DEF DeathInv, EveryDeathNoticed
<1>18. ASSUME NEW c \in Child, RecvToken(c)
       PROVE  DeathInv'
  BY <1>18, NoteKept DEF RecvToken, procVars, sigVars, history
<1>19. ASSUME NEW c \in Child, NEW k \in Conns, Process(c, k)
       PROVE  DeathInv'
  BY <1>19, NoteKept DEF Process, procVars, sigVars, history
<1>20. ASSUME NEW c \in Child, ChildReap(c)
       PROVE  DeathInv'
  BY <1>t, <1>13, <1>20, NoteKept DEF ChildReap, history
<1>21. ASSUME NEW c \in Child, ChildStop(c)
       PROVE  DeathInv'
  BY <1>t, <1>13, <1>21, NoteKept DEF ChildStop, history
<1>22. ASSUME NEW k \in Conns, Connect(k) \/ ClientSends(k)
       PROVE  DeathInv'
  BY <1>22, NoteKept DEF Connect, ClientSends, procVars, sigVars, history
<1>23. ASSUME NEW c \in Child, KidExits(c)
       PROVE  DeathInv'
  BY <1>t, <1>23, NoteKept DEF KidExits, procVars, history
<1>24. ASSUME NEW S \in SUBSET Proc, Interrupt(S)
       PROVE  DeathInv'
  <2>1. /\ pc' = Terminated(S) /\ pending' = Signalled(S)
        /\ sigpipe' = sigpipe /\ signals' = signals
        /\ unseen' = IF Running(Parent) THEN unseen ELSE unseen \cup (Unprotected(S) \cap Child)
    BY <1>24 DEF Interrupt
  <2> QED
    BY <1>16, <2>1, NoteKept
<1>25. CASE UNCHANGED vars
  BY <1>25, NoteKept DEF vars, procVars, sigVars, history
<1> QED
  BY <1>1, <1>2, <1>4, <1>5, <1>6, <1>7, <1>8, <1>9, <1>10, <1>11, <1>12, <1>15, <1>17,
     <1>18, <1>19, <1>20, <1>21, <1>22, <1>23, <1>24, <1>25, PoolAssumption
  DEF Next, ParentStep, ChildStep, Environment

(* Signals coalesce, are delayed in a pipe and are handled several at a     *)
(* time, yet a child that died within sight of the parent is a zombie only  *)
(* as long as a SIGCHLD is on its way to the waitpid loop.                  *)
THEOREM DeathsAreNoticed == Spec => []EveryDeathNoticed
<1>1. Spec => []DeathInv
  BY TypeAlways, DeathInit, DeathNext, PTL DEF Spec
<1> QED
  BY <1>1, PTL DEF DeathInv

-----------------------------------------------------------------------------
(***************************************************************************)
(* Edges are not lost.  What matters is when a batch may be thrown away:   *)
(* the parent does so when no child is left, and by then it has stopped,   *)
(* which it can only have done after it took the signal event out of the   *)
(* batch; nor does it wait for another batch.                              *)
(***************************************************************************)
Starting(p) == pc[p] \in {"unborn", "fork", "setup"}

EdgeAt(p) ==
  /\ sigpipe[p] # <<>> => "sig" \in ready[p] \cup events[p]
  /\ pc[p] = "wait" => events[p] = {}
  /\ pc[p] = "signals" => "sig" \notin events[p]
  /\ Starting(p) => /\ sigpipe[p] = <<>> /\ events[p] = {}
                    /\ {"listen", "pipe", "sig"} \cap ready[p] = {}

PipeAt(c) ==
  /\ pipe[c] <= PipeCap
  /\ pipe[c] = PipeCap /\ Running(c) => "pipe" \in ready[c] \cup events[c]

StopsWhenEmpty ==
  /\ pc[Parent] \in {"fork", "setup"} => \A c \in Child : pc[c] # "reaped"
  /\ Running(Parent) /\ Live = {} => m_stop[Parent]
  /\ m_stop[Parent] => pc[Parent] # "wait" /\ "sig" \notin events[Parent]

EdgeInv ==
  /\ \A p \in Proc : EdgeAt(p)
  /\ \A c \in Child : PipeAt(c)
  /\ StopsWhenEmpty

LEMMA EdgeInit == Init => EdgeInv
BY ProcFacts, PoolAssumption
DEF Init, EdgeInv, EdgeAt, PipeAt, StopsWhenEmpty, Starting, Running

(* A process that looks at no event and loses none.  *)
LEMMA EdgeAtKept ==
  ASSUME NEW p \in Proc, EdgeAt(p),
         sigpipe'[p] = sigpipe[p], events'[p] = events[p],
         ready[p] \subseteq ready'[p],
         ready'[p] \cap {"listen", "pipe", "sig"} \subseteq ready[p] \/ Running(p),
         \/ pc'[p] = pc[p]
         \/ pc'[p] \notin {"wait", "signals", "unborn", "fork", "setup"}
         \/ Starting(p) /\ Starting(p)'
         \/ pc[p] = "signals" /\ pc'[p] = "signals"
  PROVE  EdgeAt(p)'
BY DEF EdgeAt, Starting, Running

LEMMA PipeAtKept ==
  ASSUME NEW c \in Child, PipeAt(c),
         pipe'[c] = pipe[c],
         {"pipe"} \cap (ready[c] \cup events[c]) \subseteq ready'[c] \cup events'[c],
         Running(c)' => Running(c)
  PROVE  PipeAt(c)'
BY DEF PipeAt

(* The parent stays as far as it is, and no child leaves the table.  *)
LEMMA StopKept ==
  ASSUME TableInv, StopsWhenEmpty, m_pid' = m_pid,
         m_stop'[Parent] = m_stop[Parent], events'[Parent] \subseteq events[Parent],
         \A c \in Child : pc'[c] = "reaped" => pc[c] = "reaped",
         \/ pc'[Parent] = pc[Parent]
         \/ pc'[Parent] \in {"exited", "aborted"}
         \/ Running(Parent) /\ Running(Parent)' /\ pc'[Parent] # "wait"
  PROVE  StopsWhenEmpty'
BY ProcFacts DEF StopsWhenEmpty, Running, Live

LEMMA EdgeNext == TypeInv /\ TableInv /\ EdgeInv /\ [Next]_vars => EdgeInv'
<1> SUFFICES ASSUME TypeInv, TableInv, EdgeInv, [Next]_vars
             PROVE  EdgeInv'
  OBVIOUS
<1> USE ProcFacts
<1>t. /\ pc \in [Proc -> PcValues]
      /\ m_stop \in [Proc -> BOOLEAN]
      /\ ready \in [Proc -> SUBSET (Conns \cup {"listen", "pipe", "sig"})]
      /\ events \in [Proc -> SUBSET (Conns \cup {"listen", "pipe", "sig"})]
      /\ sigpipe \in [Proc -> Seq(Signal)]
      /\ pipe \in [Child -> Nat]
      /\ target \in Child
  BY DEF TypeInv, TypeOK
<1>p. PipeCap \in Nat \ {0} /\ Conns \cap {"listen", "pipe", "sig"} = {}
  BY PoolAssumption
<1>i. /\ \A p \in Proc : EdgeAt(p)
      /\ \A c \in Child : PipeAt(c)
      /\ StopsWhenEmpty
  BY DEF EdgeInv
<1>1. CASE Fork
  <2>1. forked \in Child /\ pc[Parent] = "fork" /\ forked # Parent
    BY <1>1 DEF Fork, TypeInv, TypeOK, StartOK, Child
  <2>2. pc[forked] = "unborn"
    BY <2>1 DEF TableInv, Child
  <2>3. /\ pc'[forked] = "setup" /\ Starting(Parent)'
        /\ \A p \in Proc : p \notin {Parent, forked} => pc'[p] = pc[p]
        /\ \A c \in Child : pc'[c] # "reaped" \/ pc[c] = "reaped"
    BY <1>t, <1>1, <2>1 DEF Fork, Starting
  <2>4. UNCHANGED <<ready, events, sigpipe, pipe, m_stop>>
    BY <1>1 DEF Fork, epollVars, sigVars, childVars
  <2>5. \A p \in Proc : EdgeAt(p)'
    BY <1>i, <2>1, <2>2, <2>3, <2>4, EdgeAtKept DEF Starting
  <2>6. \A c \in Child : PipeAt(c)'
    BY <1>i, <2>1, <2>2, <2>3, <2>4, PipeAtKept DEF Running
  <2>7. StopsWhenEmpty'
    BY <1>i, <2>1, <2>3, <2>4 DEF StopsWhenEmpty, Starting, Running, TableInv
  <2> QED
    BY <2>5, <2>6, <2>7 DEF EdgeInv
<1>2. ASSUME NEW p \in Proc, Setup(p)
      PROVE  EdgeInv'
  <2>1. /\ pc[p] = "setup" /\ pc' = [pc EXCEPT ![p] = "wait"]
        /\ m_stop' = m_stop /\ events' = events /\ sigpipe' = sigpipe
        /\ m_pid' = m_pid /\ pipe' = pipe
    BY <1>2 DEF Setup, sigVars, parentVars, childVars
  <2>2. /\ \A q \in Proc : q # p => ready'[q] = ready[q]
        /\ p \in Child /\ pipe[p] > 0 => ready'[p] = {"pipe"}
    BY <1>t, <1>2 DEF Setup
  <2>3. EdgeAt(p)'
    BY <1>t, <1>i, <2>1, <2>2 DEF EdgeAt, Starting
  <2>4. \A q \in Proc : q # p => EdgeAt(q)'
    BY <1>t, <1>i, <2>1, <2>2, EdgeAtKept
  <2>5. p \in Child => PipeAt(p)'
    BY <1>t, <1>p, <1>i, <2>1, <2>2 DEF PipeAt
  <2>6. \A c \in Child : c # p => PipeAt(c)'
    BY <1>t, <1>i, <2>1, <2>2, PipeAtKept DEF Running
  <2>7. p # Parent => pc'[Parent] = pc[Parent]
    BY <1>t, <2>1
  <2>8. p = Parent => Live # {} /\ ~m_stop[Parent]
    BY <1>i, <2>1 DEF StopsWhenEmpty, TableInv, Live
  <2>9. \A c \in Child : pc'[c] = "reaped" => pc[c] = "reaped"
    BY <1>t, <2>1
  <2>10. StopsWhenEmpty'
    <3>1. CASE p # Parent
      BY <1>i, <2>1, <2>7, <2>9, <3>1, StopKept
    <3>2. CASE p = Parent
      BY <1>t, <2>1, <2>8, <3>2 DEF StopsWhenEmpty, Live
    <3> QED
      BY <3>1, <3>2
  <2> QED
    BY <2>3, <2>4, <2>5, <2>6, <2>10 DEF EdgeInv
<1>3. ASSUME NEW c \in Child, Exits(c), pc[c] # "reaped"
      PROVE  EdgeInv'
  <2>1. /\ pc' = [pc EXCEPT ![c] = "exited"]
        /\ ready' = [ready EXCEPT ![c] = {}]
        /\ events' = [events EXCEPT ![c] = {}]
        /\ sigpipe' = [sigpipe EXCEPT ![c] = <<>>]
        /\ pipe' = [pipe EXCEPT ![c] = 0]
        /\ m_stop' = m_stop /\ m_pid' = m_pid
    BY <1>3 DEF Exits, parentVars
  <2>2. EdgeAt(c)' /\ PipeAt(c)'
    BY <1>t, <1>p, <2>1 DEF EdgeAt, PipeAt, Starting, Running
  <2>3. \A p \in Proc : p # c => EdgeAt(p)'
    BY <1>t, <1>i, <2>1, EdgeAtKept
  <2>4. \A d \in Child : d # c => PipeAt(d)'
    BY <1>t, <1>i, <2>1, PipeAtKept DEF Running
  <2>5. StopsWhenEmpty'
    BY <1>t, <1>i, <1>3, <2>1, StopKept
  <2> QED
    BY <2>2, <2>3, <2>4, <2>5 DEF EdgeInv
<1>a. ASSUME UNCHANGED <<events, sigpipe, pipe, m_pid>>, m_stop'[Parent] = m_stop[Parent],
             \A p \in Proc : /\ ready[p] \subseteq ready'[p]
                             /\ \/ ready'[p] \cap {"listen", "pipe", "sig"} \subseteq ready[p]
                                \/ Running(p),
             pc' = pc
      PROVE  EdgeInv'
  <2>1. \A p \in Proc : EdgeAt(p)'
    BY <1>i, <1>a, EdgeAtKept
  <2>2. \A c \in Child : PipeAt(c)'
    BY <1>i, <1>a, PipeAtKept DEF Running
  <2>3. StopsWhenEmpty'
    BY <1>i, <1>a, StopKept
  <2> QED
    BY <2>1, <2>2, <2>3 DEF EdgeInv
<1>4. ASSUME NEW p \in Proc, StartupFails(p)
      PROVE  EdgeInv'
  <2>1. CASE p = Parent
    <3>1. /\ pc' = [pc EXCEPT ![Parent] = "aborted"]
          /\ UNCHANGED <<m_stop, m_pid, ready, events, sigpipe, pipe>>
      BY <1>4, <2>1 DEF StartupFails, epollVars, sigVars, parentVars, childVars
    <3>2. \A q \in Proc : EdgeAt(q)'
      BY <1>t, <1>i, <3>1, EdgeAtKept
    <3>3. \A c \in Child : PipeAt(c)'
      BY <1>t, <1>i, <3>1, PipeAtKept DEF Running
    <3>4. StopsWhenEmpty'
      BY <1>t, <1>i, <3>1, StopKept
    <3> QED
      BY <3>2, <3>3, <3>4 DEF EdgeInv
  <2>2. CASE p # Parent
    BY <1>3, <1>4, <2>2 DEF StartupFails, Proc
  <2> QED
    BY <2>1, <2>2
<1>5. ASSUME NEW c \in Child, Crash(c)
      PROVE  EdgeInv'
  BY <1>3, <1>5 DEF Crash, Running
<1>6. ASSUME NEW p \in Proc, NEW s \in Signal, sig_handler(p, s)
      PROVE  EdgeInv'
  <2>1. /\ Running(p) /\ ready' = [ready EXCEPT ![p] = @ \cup {"sig"}]
        /\ sigpipe' = [sigpipe EXCEPT ![p] = Append(@, s)]
        /\ UNCHANGED <<pc, events, pipe, m_pid, m_stop>>
    BY <1>6 DEF sig_handler, procVars, parentVars, childVars
  <2>2. EdgeAt(p)'
    BY <1>t, <1>i, <2>1 DEF EdgeAt, Running, Starting
  <2>3. \A q \in Proc : q # p => EdgeAt(q)'
    BY <1>t, <1>i, <2>1, EdgeAtKept
  <2>4. \A c \in Child : PipeAt(c)'
    BY <1>t, <1>i, <2>1, PipeAtKept DEF Running
  <2>5. StopsWhenEmpty'
    BY <1>i, <2>1, StopKept
  <2> QED
    BY <2>2, <2>3, <2>4, <2>5 DEF EdgeInv
<1>7. ASSUME NEW p \in Proc, EpollWait(p)
      PROVE  EdgeInv'
  <2>1. /\ pc[p] = "wait" /\ pc' = [pc EXCEPT ![p] = "events"]
        /\ events' = [events EXCEPT ![p] = ready[p]]
        /\ ready' = [ready EXCEPT ![p] = {}]
        /\ UNCHANGED <<m_stop, sigpipe, pipe, m_pid>>
    BY <1>7 DEF EpollWait, sigVars, parentVars, childVars
  <2>2. events[p] = {}
    BY <1>i, <2>1 DEF EdgeAt
  <2>3. EdgeAt(p)'
    BY <1>t, <1>i, <2>1, <2>2 DEF EdgeAt, Starting
  <2>4. \A q \in Proc : q # p => EdgeAt(q)'
    BY <1>t, <1>i, <2>1, EdgeAtKept
  <2>5. p \in Child => PipeAt(p)'
    BY <1>t, <1>i, <2>1, <2>2, PipeAtKept DEF Running
  <2>6. \A c \in Child : c # p => PipeAt(c)'
    BY <1>t, <1>i, <2>1, PipeAtKept DEF Running
  <2>7. \A c \in Child : pc'[c] = "reaped" => pc[c] = "reaped"
    BY <1>t, <2>1
  <2>8. StopsWhenEmpty'
    <3>1. CASE p # Parent
      BY <1>t, <1>i, <2>1, <2>7, <3>1, StopKept
    <3>2. CASE p = Parent
      BY <1>t, <1>i, <2>1, <3>2 DEF StopsWhenEmpty, Live, Running
    <3> QED
      BY <3>1, <3>2
  <2> QED
    BY <2>3, <2>4, <2>5, <2>6, <2>8 DEF EdgeInv
<1>8. ASSUME NEW p \in Proc, EndBatch(p)
      PROVE  EdgeInv'
  <2>1. CASE p \in Child /\ m_stop[p]
    BY <1>3, <1>8, <2>1 DEF EndBatch
  <2>2. CASE ~(p \in Child /\ m_stop[p])
    <3>1. /\ pc[p] = "events" /\ events[p] = {}
          /\ pc' = [pc EXCEPT ![p] = IF m_stop[p] THEN "exited" ELSE "wait"]
          /\ UNCHANGED <<m_stop, ready, events, sigpipe, pipe, m_pid>>
      BY <1>8, <2>2 DEF EndBatch, epollVars, sigVars, parentVars, childVars
    <3>2. EdgeAt(p)'
      BY <1>t, <1>i, <3>1 DEF EdgeAt, Starting
    <3>3. \A q \in Proc : q # p => EdgeAt(q)'
      BY <1>t, <1>i, <3>1, EdgeAtKept
    <3>4. \A c \in Child : PipeAt(c)'
      BY <1>t, <1>i, <3>1, PipeAtKept DEF Running
    <3>5. \A c \in Child : pc'[c] = "reaped" => pc[c] = "reaped"
      BY <1>t, <3>1
    <3>6. StopsWhenEmpty'
      <4>1. CASE p # Parent \/ m_stop[p]
        BY <1>t, <1>i, <3>1, <3>5, <4>1, StopKept
      <4>2. CASE p = Parent /\ ~m_stop[p]
        BY <1>t, <1>i, <3>1, <4>2 DEF StopsWhenEmpty, Live, Running
      <4> QED
        BY <4>1, <4>2
    <3> QED
      BY <3>2, <3>3, <3>4, <3>6 DEF EdgeInv
  <2> QED
    BY <2>1, <2>2
<1>9. ASSUME NEW p \in Proc, RecvSignals(p)
      PROVE  EdgeInv'
  <2>1. /\ pc[p] = "events" /\ events' = [events EXCEPT ![p] = @ \ {"sig"}]
        /\ sigpipe' = [sigpipe EXCEPT ![p] = <<>>]
        /\ pc' = [pc EXCEPT ![p] = IF sigpipe[p] = <<>> THEN "events" ELSE "signals"]
        /\ UNCHANGED <<m_stop, ready, pipe, m_pid>>
    BY <1>9 DEF RecvSignals, Takes, parentVars, childVars
  <2>2. EdgeAt(p)'
    BY <1>t, <2>1 DEF EdgeAt, Starting
  <2>3. \A q \in Proc : q # p => EdgeAt(q)'
    BY <1>t, <1>i, <2>1, EdgeAtKept
  <2>4. \A c \in Child : PipeAt(c)'
    BY <1>t, <1>i, <2>1, PipeAtKept DEF Running
  <2>5. StopsWhenEmpty'
    BY <1>t, <1>i, <2>1, StopKept DEF Running
  <2> QED
    BY <2>2, <2>3, <2>4, <2>5 DEF EdgeInv
<1>10. CASE Pick
  <2>1. /\ pc[Parent] = "events" /\ pc' = [pc EXCEPT ![Parent] = "send"]
        /\ events' = [events EXCEPT ![Parent] = @ \ {"listen"}]
        /\ UNCHANGED <<m_stop, ready, sigpipe, pipe, m_pid>>
    BY <1>10 DEF Pick, Takes, sigVars, childVars
  <2>2. EdgeAt(Parent)'
    BY <1>t, <1>i, <2>1 DEF EdgeAt, Starting
  <2>3. \A q \in Proc : q # Parent => EdgeAt(q)'
    BY <1>t, <1>i, <2>1, EdgeAtKept
  <2>4. \A c \in Child : PipeAt(c)'
    BY <1>t, <1>i, <2>1, PipeAtKept DEF Running
  <2>5. StopsWhenEmpty'
    BY <1>t, <1>i, <2>1, StopKept DEF Running
  <2> QED
    BY <2>2, <2>3, <2>4, <2>5 DEF EdgeInv
<1>11. CASE NobodyLeft
  <2>1. /\ pc[Parent] = "events" /\ pc' = pc /\ Live = {}
        /\ events' = [events EXCEPT ![Parent] = {}]
        /\ m_stop' = [m_stop EXCEPT ![Parent] = TRUE]
        /\ UNCHANGED <<ready, sigpipe, pipe, m_pid>>
    BY <1>11 DEF NobodyLeft, sigVars, parentVars, childVars
  <2>2. m_stop[Parent] /\ "sig" \notin events[Parent]
    BY <1>i, <2>1 DEF StopsWhenEmpty, Running
  <2>3. EdgeAt(Parent)'
    BY <1>t, <1>i, <2>1, <2>2 DEF EdgeAt, Starting
  <2>4. \A q \in Proc : q # Parent => EdgeAt(q)'
    BY <1>t, <1>i, <2>1, EdgeAtKept
  <2>5. \A c \in Child : PipeAt(c)'
    BY <1>t, <1>i, <2>1, PipeAtKept DEF Running
  <2>6. StopsWhenEmpty'
    BY <1>t, <1>i, <2>1, <2>2, StopKept
  <2> QED
    BY <2>3, <2>4, <2>5, <2>6 DEF EdgeInv
<1>12. CASE SendToken
  <2>1. /\ pc[Parent] = "send" /\ pc' = [pc EXCEPT ![Parent] = "events"]
        /\ UNCHANGED <<m_stop, events, sigpipe, m_pid>>
    BY <1>12 DEF SendToken, sigVars, parentVars
  <2>2. /\ Dead(target) \/ pipe[target] < PipeCap
        /\ pipe' = IF Dead(target) THEN pipe ELSE [pipe EXCEPT ![target] = @ + 1]
        /\ ready' = IF Running(target)
                      THEN [ready EXCEPT ![target] = @ \cup {"pipe"}] ELSE ready
    BY <1>12 DEF SendToken
  <2>3. \A p \in Proc : /\ ready[p] \subseteq ready'[p]
                        /\ \/ ready'[p] \cap {"listen", "pipe", "sig"} \subseteq ready[p]
                           \/ Running(p)
    BY <1>t, <2>2
  <2>4. EdgeAt(Parent)'
    BY <1>t, <1>i, <2>1, <2>2 DEF EdgeAt, Starting
  <2>5. \A q \in Proc : q # Parent => EdgeAt(q)'
    BY <1>t, <1>i, <2>1, <2>3, EdgeAtKept
  <2>6. \A c \in Child : c # target => PipeAt(c)'
    BY <1>t, <1>i, <2>1, <2>2, PipeAtKept DEF Running
  <2>7. ASSUME NEW c \in Child, c = target
        PROVE  PipeAt(c)'
    <3>1. /\ pipe[c] \in Nat /\ pipe[c] <= PipeCap
          /\ pc'[c] = pc[c]
      BY <1>t, <1>i, <2>1 DEF PipeAt
    <3>2. CASE Dead(c)
      BY <1>i, <2>1, <2>2, <2>7, <3>1, <3>2, PipeAtKept DEF Running, Dead
    <3>3. CASE ~Dead(c)
      <4>1. pipe'[c] = pipe[c] + 1 /\ pipe'[c] <= PipeCap
        BY <1>t, <1>p, <2>2, <2>7, <3>1, <3>3
      <4>2. Running(c)' => "pipe" \in ready'[c]
        BY <1>t, <2>2, <2>7, <3>1 DEF Running
      <4> QED
        BY <4>1, <4>2 DEF PipeAt
    <3> QED
      BY <3>2, <3>3
  <2>8. StopsWhenEmpty'
    BY <1>t, <1>i, <2>1, StopKept DEF Running
  <2> QED
    BY <2>4, <2>5, <2>6, <2>7, <2>8 DEF EdgeInv
<1>13. ASSUME NEW p \in Proc, NEW s, SignalIs(p, s)
       PROVE  pc[p] = "signals" /\ AfterSignal(p) \in {"events", "signals"}
  BY <1>13 DEF SignalIs, AfterSignal
<1>14. CASE Reap
  <2>1. /\ m_pid' = [c \in Child |-> IF c \in Exited THEN NoPid ELSE m_pid[c]]
        /\ pc' = [p \in Proc |-> IF p \in Exited THEN "reaped"
                                 ELSE IF p = Parent THEN AfterSignal(p) ELSE pc[p]]
        /\ m_stop' = [m_stop EXCEPT ![Parent] = Live \subseteq Exited]
        /\ UNCHANGED <<ready, events, sigpipe, pipe>>
    BY <1>14 DEF Reap, Collected, AllJoined, epollVars, childVars
  <2>2. pc[Parent] = "signals" /\ AfterSignal(Parent) \in {"events", "signals"}
    BY <1>13, <1>14 DEF Reap
  <2>3. pc'[Parent] \in {"events", "signals"}
    BY <2>1, <2>2 DEF Exited
  <2>4. \A c \in Child : pc'[c] = pc[c] \/ pc'[c] = "reaped"
    BY <2>1
  <2>5. \A p \in Proc : EdgeAt(p)'
    BY <1>i, <2>1, <2>2, <2>3, <2>4 DEF EdgeAt, Starting, Proc
  <2>6. \A c \in Child : PipeAt(c)'
    BY <1>i, <2>1, <2>4, PipeAtKept DEF Running
  <2>7. Live' = {} => Live \subseteq Exited
    BY <2>1 DEF Live
  <2>8. m_stop'[Parent] <=> Live \subseteq Exited
    BY <1>t, <2>1
  <2>9. "sig" \notin events'[Parent]
    BY <1>i, <2>1, <2>2 DEF EdgeAt
  <2>10. StopsWhenEmpty'
    BY <2>3, <2>7, <2>8, <2>9 DEF StopsWhenEmpty, Live, Running
  <2> QED
    BY <2>5, <2>6, <2>10 DEF EdgeInv
<1>15. ASSUME NEW S \in SUBSET Proc
       PROVE  /\ Terminated(S) \in [Proc -> PcValues]
              /\ \A p \in Proc : Terminated(S)[p] = pc[p]
                    \/ (Starting(p) /\ Terminated(S)[p] \in {"exited", "aborted"})
              /\ \A c \in Child : /\ PipesWithout(S)[c] = 0 \/ PipesWithout(S)[c] = pipe[c]
                                  /\ Terminated(S)[c] # "aborted"
                                       \/ Terminated(S)[c] = pc[c]
  <2>a. Terminated(S) \in [Proc -> PcValues]
    BY <1>t DEF Terminated, PcValues
  <2>b. \A p \in Proc : Terminated(S)[p] = IF p \notin Unprotected(S) THEN pc[p]
                                           ELSE IF p = Parent THEN "aborted" ELSE "exited"
    BY DEF Terminated
  <2>1. /\ \A p \in Proc : Terminated(S)[p] = pc[p]
              \/ (Starting(p) /\ Terminated(S)[p] \in {"exited", "aborted"})
        /\ \A c \in Child : Terminated(S)[c] # "aborted" \/ Terminated(S)[c] = pc[c]
    BY <2>b DEF Unprotected, Starting
  <2>2. \A c \in Child : PipesWithout(S)[c] = 0 \/ PipesWithout(S)[c] = pipe[c]
    BY DEF PipesWithout
  <2> QED
    BY <2>1, <2>2, <2>a
<1>16. ASSUME NEW S \in SUBSET Proc, pipe' = PipesWithout(S),
              \A p \in Proc : p # Parent => pc'[p] = Terminated(S)[p],
              \/ pc'[Parent] = Terminated(S)[Parent]
              \/ pc[Parent] = "signals" /\ pc'[Parent] \in {"events", "signals"},
              UNCHANGED <<m_stop, ready, events, sigpipe, m_pid>>
       PROVE  EdgeInv'
  <2>1. \A p \in Proc : \/ pc'[p] = pc[p]
                        \/ (Starting(p) /\ pc'[p] \in {"exited", "aborted"})
                        \/ pc[p] = "signals" /\ pc'[p] \in {"events", "signals"}
    BY <1>15, <1>16
  <2>2. \A p \in Proc : EdgeAt(p)'
    BY <1>i, <1>16, <2>1, EdgeAtKept DEF Starting
  <2>3. \A c \in Child : PipeAt(c)'
    <3> SUFFICES ASSUME NEW c \in Child PROVE PipeAt(c)'
      OBVIOUS
    <3>1. pipe'[c] = 0 \/ pipe'[c] = pipe[c]
      BY <1>15, <1>16
    <3>2. Running(c)' => Running(c)
      BY <1>15, <1>16 DEF Running
    <3>3. CASE pipe'[c] = 0
      BY <1>p, <3>3 DEF PipeAt
    <3>4. CASE pipe'[c] = pipe[c]
      BY <1>i, <1>16, <3>2, <3>4, PipeAtKept
    <3> QED
      BY <3>1, <3>3, <3>4
  <2>4. \A c \in Child : pc'[c] = "reaped" => pc[c] = "reaped"
    BY <1>15, <1>16
  <2>5. StopsWhenEmpty'
    BY <1>i, <1>16, <2>1, <2>4, StopKept DEF Running, Starting
  <2> QED
    BY <2>2, <2>3, <2>5 DEF EdgeInv
<1>17. CASE KillAll
  <2>1. Live \in SUBSET Proc
    BY DEF Live, Proc
  <2>2. /\ pc' = [Terminated(Live) EXCEPT ![Parent] = AfterSignal(Parent)]
        /\ pipe' = PipesWithout(Live)
        /\ UNCHANGED <<m_stop, ready, events, sigpipe, m_pid>>
    BY <1>17 DEF KillAll, epollVars, parentVars
  <2>3. pc[Parent] = "signals" /\ AfterSignal(Parent) \in {"events", "signals"}
    BY <1>13, <1>17 DEF KillAll
  <2>4. pc'[Parent] = AfterSignal(Parent) /\ \A p \in Proc : p # Parent => pc'[p] = Terminated(Live)[p]
    BY <1>15, <2>1, <2>2
  <2> QED
    BY <1>16, <2>1, <2>2, <2>3, <2>4
<1>18. ASSUME NEW c \in Child, RecvToken(c)
       PROVE  EdgeInv'
  <2>1. /\ pc[c] = "events" /\ pc' = pc
        /\ events' = [events EXCEPT ![c] = @ \ {"pipe"}]
        /\ pipe' = [pipe EXCEPT ![c] = IF pipe[c] > 0 THEN pipe[c] - 1 ELSE pipe[c]]
        /\ UNCHANGED <<m_stop, sigpipe, m_pid>>
    BY <1>18 DEF RecvToken, Takes, TokensAfterRecv, procVars, sigVars, parentVars
  <2>a. ready' = ready \/ ready' = [ready EXCEPT ![c] = @ \cup {Head(backlog)}]
    BY <1>18 DEF RecvToken
  <2>2. /\ \A p \in Proc : ready[p] \subseteq ready'[p]
        /\ \A p \in Proc : p # c => ready'[p] = ready[p]
    BY <1>t, <2>a
  <2>3. EdgeAt(c)'
    BY <1>t, <1>i, <2>1, <2>2 DEF EdgeAt, Starting
  <2>4. \A p \in Proc : p # c => EdgeAt(p)'
    BY <1>t, <1>i, <2>1, <2>2, EdgeAtKept
  <2>5. PipeAt(c)'
    <3>1. pipe[c] \in Nat /\ pipe[c] <= PipeCap
      BY <1>t, <1>i DEF PipeAt
    <3>2. pipe'[c] <= PipeCap /\ pipe'[c] # PipeCap
      BY <1>t, <1>p, <2>1, <3>1
    <3> QED
      BY <3>2 DEF PipeAt
  <2>6. \A d \in Child : d # c => PipeAt(d)'
    BY <1>t, <1>i, <2>1, <2>2, PipeAtKept DEF Running
  <2>7. StopsWhenEmpty'
    BY <1>t, <1>i, <2>1, StopKept
  <2> QED
    BY <2>3, <2>4, <2>5, <2>6, <2>7 DEF EdgeInv
<1>19. ASSUME NEW c \in Child, NEW k \in Conns, Process(c, k)
       PROVE  EdgeInv'
  <2>1. /\ pc[c] = "events" /\ pc' = pc
        /\ events' = [events EXCEPT ![c] = @ \ {k}]
        /\ UNCHANGED <<m_stop, sigpipe, m_pid, pipe>>
    BY <1>19 DEF Process, Takes, procVars, sigVars, parentVars
  <2>2. k \notin {"listen", "pipe", "sig"}
    BY <1>p
  <2>3. ready' = ready \/ ready' = [ready EXCEPT ![c] = @ \ {k}]
    BY <1>19 DEF Process
  <2>4. EdgeAt(c)'
    BY <1>t, <1>i, <2>1, <2>2, <2>3 DEF EdgeAt, Starting
  <2>5. \A p \in Proc : p # c => EdgeAt(p)'
    BY <1>t, <1>i, <2>1, <2>3, EdgeAtKept
  <2>6. \A d \in Child : PipeAt(d)'
    BY <1>t, <1>i, <2>1, <2>2, <2>3, PipeAtKept DEF Running
  <2>7. StopsWhenEmpty'
    BY <1>t, <1>i, <2>1, StopKept
  <2> QED
    BY <2>4, <2>5, <2>6, <2>7 DEF EdgeInv
<1>20. ASSUME NEW c \in Child, ChildReap(c) \/ ChildStop(c)
       PROVE  EdgeInv'
  <2>1. pc[c] = "signals" /\ AfterSignal(c) \in {"events", "signals"}
    BY <1>13, <1>20 DEF ChildReap, ChildStop
  <2>2. /\ pc' = [pc EXCEPT ![c] = "spin"] \/ pc' = [pc EXCEPT ![c] = AfterSignal(c)]
        /\ UNCHANGED <<ready, events, sigpipe, pipe, m_pid>>
        /\ m_stop' = m_stop \/ m_stop' = [m_stop EXCEPT ![c] = TRUE]
    BY <1>20 DEF ChildReap, ChildStop, epollVars, parentVars, childVars
  <2>3. EdgeAt(c)'
    BY <1>t, <1>i, <2>1, <2>2, EdgeAtKept
  <2>4. \A p \in Proc : p # c => EdgeAt(p)'
    BY <1>t, <1>i, <2>2, EdgeAtKept
  <2>5. \A d \in Child : PipeAt(d)'
    BY <1>t, <1>i, <2>1, <2>2, PipeAtKept DEF Running
  <2>6. pc'[Parent] = pc[Parent] /\ m_stop'[Parent] = m_stop[Parent]
    BY <1>t, <2>2
  <2>7. \A d \in Child : pc'[d] = "reaped" => pc[d] = "reaped"
    BY <1>t, <2>1, <2>2
  <2>8. StopsWhenEmpty'
    BY <1>i, <2>2, <2>6, <2>7, StopKept
  <2> QED
    BY <2>3, <2>4, <2>5, <2>8 DEF EdgeInv
<1>21. ASSUME NEW k \in Conns, Connect(k)
       PROVE  EdgeInv'
  <2>1. /\ UNCHANGED <<events, sigpipe, pipe, m_pid, m_stop, pc>>
        /\ ready' = IF Running(Parent)
                      THEN [ready EXCEPT ![Parent] = @ \cup {"listen"}] ELSE ready
    BY <1>21 DEF Connect, procVars, sigVars, parentVars, childVars
  <2>2. \A p \in Proc : /\ ready[p] \subseteq ready'[p]
                        /\ ready'[p] \cap {"listen", "pipe", "sig"} \subseteq ready[p] \/ Running(p)
    BY <1>t, <2>1
  <2> QED
    BY <1>a, <2>1, <2>2
<1>22. ASSUME NEW k \in Conns, ClientSends(k)
       PROVE  EdgeInv'
  <2>1. /\ UNCHANGED <<events, sigpipe, pipe, m_pid, m_stop, pc>>
        /\ ready' = [p \in Proc |-> IF p \in Child /\ k \in users[p]
                                      THEN ready[p] \cup {k} ELSE ready[p]]
    BY <1>22 DEF ClientSends, procVars, sigVars, parentVars, childVars
  <2>2. \A p \in Proc : /\ ready[p] \subseteq ready'[p]
                        /\ ready'[p] \cap {"listen", "pipe", "sig"} \subseteq ready[p]
    BY <1>p, <2>1
  <2> QED
    BY <1>a, <2>1, <2>2
<1>23. ASSUME NEW c \in Child, KidExits(c)
       PROVE  EdgeInv'
  BY <1>a, <1>23 DEF KidExits, procVars, epollVars, parentVars
<1>24. ASSUME NEW S \in SUBSET Proc, Interrupt(S)
       PROVE  EdgeInv'
  <2>1. /\ pc' = Terminated(S) /\ pipe' = PipesWithout(S)
        /\ UNCHANGED <<m_stop, ready, events, sigpipe, m_pid>>
    BY <1>24 DEF Interrupt, epollVars, parentVars
  <2> QED
    BY <1>16, <2>1
<1>25. CASE UNCHANGED vars
  BY <1>a, <1>25 DEF vars, procVars, epollVars, sigVars, parentVars, childVars
<1> QED
  BY <1>1, <1>2, <1>4, <1>5, <1>6, <1>7, <1>8, <1>9, <1>10, <1>11, <1>12, <1>14, <1>17,
     <1>18, <1>19, <1>20, <1>21, <1>22, <1>23, <1>24, <1>25, PoolAssumption
  DEF Next, ParentStep, ChildStep, Environment

LEMMA EdgeAlways == Spec => []EdgeInv
<1>1. Spec => [](TypeInv /\ TableInv)
  BY TypeAlways, TableInit, TableNext, PTL DEF Spec
<1> QED
  BY <1>1, EdgeInit, EdgeNext, PTL DEF Spec

(* Edge triggering strands no signal: as long as a byte is in the signal    *)
(* pipe of a process, its epoll instance has an event to report for it, or  *)
(* the batch at hand still holds one.                                       *)
THEOREM SignalsKeepEdge == Spec => []SignalBytesHaveEdge
<1>1. EdgeInv => SignalBytesHaveEdge
  BY DEF EdgeInv, EdgeAt, SignalBytesHaveEdge
<1> QED
  BY <1>1, EdgeAlways, PTL

(* A child whose socketpair is full has an event for it: the parent's send  *)
(* never blocks on a child that will not read.                              *)
THEOREM FullPipesKeepEdge == Spec => []FullPipeHasEdge
<1>1. EdgeInv => FullPipeHasEdge
  BY DEF EdgeInv, PipeAt, FullPipeHasEdge
<1> QED
  BY <1>1, EdgeAlways, PTL

-----------------------------------------------------------------------------
(***************************************************************************)
(* Tokens and edges are counted.  A connection in the backlog stands for   *)
(* at most one of: the edge of the listening socket, the token the parent  *)
(* is about to send, a token in a socketpair.                              *)
(***************************************************************************)
One(b) == IF b THEN 1 ELSE 0

Edges == One("listen" \in ready[Parent]) + One("listen" \in events[Parent])
         + One(pc[Parent] = "send")

ChildBacked(c) == pipe[c] >= One("pipe" \in ready[c]) + One("pipe" \in events[c])

TokenInv ==
  /\ Len(backlog) >= Edges + Cardinality(Tokens)
  /\ \A c \in Child : ChildBacked(c)
  /\ pc[Parent] \in {"fork", "setup"} => \A c \in Child : pipe[c] = 0

LEMMA OneOf ==
  ASSUME NEW x, NEW S
  PROVE  Cardinality({x} \cap S) = One(x \in S)
<1>1. CASE x \in S
  <2>1. {x} \cap S = {x}
    BY <1>1
  <2> QED
    BY <1>1, <2>1, FS_Singleton DEF One
<1>2. CASE x \notin S
  <2>1. {x} \cap S = {}
    BY <1>2
  <2> QED
    BY <1>2, <2>1, FS_EmptySet DEF One
<1> QED
  BY <1>1, <1>2

LEMMA TokensCounted == TokenInv => TokensBacked
<1>1. Edges = Cardinality({"listen"} \cap ready[Parent])
            + Cardinality({"listen"} \cap events[Parent])
            + (IF pc[Parent] = "send" THEN 1 ELSE 0)
  BY OneOf DEF Edges, One
<1>2. \A c \in Child : ChildBacked(c) =>
        pipe[c] >= Cardinality({"pipe"} \cap ready[c]) + Cardinality({"pipe"} \cap events[c])
  BY OneOf DEF ChildBacked
<1> QED
  BY <1>1, <1>2 DEF TokenInv, TokensBacked

LEMMA TokensFinite == IsFiniteSet(Tokens) /\ Cardinality(Tokens) \in Nat
<1>1. IsFiniteSet(Child) /\ IsFiniteSet(1 .. PipeCap)
  BY ProcFacts, PoolAssumption, FS_Interval DEF Child
<1>2. IsFiniteSet(Child \X (1 .. PipeCap))
  BY <1>1, FS_Product
<1>3. Tokens \subseteq Child \X (1 .. PipeCap)
  BY DEF Tokens
<1>4. IsFiniteSet(Tokens)
  BY <1>2, <1>3, FS_Subset
<1> QED
  BY <1>4, FS_CardinalityType

LEMMA FewerTokens ==
  ASSUME NEW f, \A c \in Child : f[c] \in Nat /\ pipe[c] \in Nat /\ f[c] <= pipe[c]
  PROVE  Cardinality({t \in Child \X (1 .. PipeCap) : t[2] <= f[t[1]]}) \in 0 .. Cardinality(Tokens)
<1> DEFINE F == {t \in Child \X (1 .. PipeCap) : t[2] <= f[t[1]]}
<1>1. F \subseteq Tokens
  BY PoolAssumption DEF Tokens
<1> HIDE DEF F
<1>2. IsFiniteSet(F) /\ Cardinality(F) <= Cardinality(Tokens)
  BY <1>1, TokensFinite, FS_Subset
<1>3. Cardinality(F) \in Nat
  BY <1>2, FS_CardinalityType
<1>4. Cardinality(F) \in 0 .. Cardinality(Tokens)
  BY <1>2, <1>3, TokensFinite
<1> QED
  BY <1>4 DEF F

LEMMA TokenAdded ==
  ASSUME NEW c \in Child, NEW f, pipe \in [Child -> Nat], pipe[c] < PipeCap,
         f = [pipe EXCEPT ![c] = @ + 1]
  PROVE  Cardinality({t \in Child \X (1 .. PipeCap) : t[2] <= f[t[1]]}) = Cardinality(Tokens) + 1
<1> DEFINE F == {t \in Child \X (1 .. PipeCap) : t[2] <= f[t[1]]}
           x == <<c, pipe[c] + 1>>
<1>1. pipe[c] \in Nat /\ PipeCap \in Nat
  BY PoolAssumption
<1>2. pipe[c] + 1 \in 1 .. PipeCap
  BY <1>1
<1>3. x \notin Tokens
  BY <1>1 DEF Tokens
<1>4. F = Tokens \cup {x}
  <2>1. \A d \in Child, k \in 1 .. PipeCap :
           k <= f[d] <=> k <= pipe[d] \/ (d = c /\ k = pipe[c] + 1)
    BY <1>1
  <2>2. \A t \in Child \X (1 .. PipeCap) : t \in F <=> t \in Tokens \/ t = x
    BY <2>1 DEF Tokens
  <2>3. x \in Child \X (1 .. PipeCap)
    BY <1>2
  <2>4. F \subseteq Child \X (1 .. PipeCap) /\ Tokens \subseteq Child \X (1 .. PipeCap)
    BY DEF Tokens
  <2> HIDE DEF F, x
  <2> QED
    BY <2>2, <2>3, <2>4
<1> HIDE DEF F, x
<1>5. Cardinality(F) = Cardinality(Tokens) + 1
  BY <1>3, <1>4, TokensFinite, FS_AddElement
<1> QED
  BY <1>5 DEF F

LEMMA TokenRemoved ==
  ASSUME NEW c \in Child, NEW f, pipe \in [Child -> Nat], pipe[c] \in 1 .. PipeCap,
         f = [pipe EXCEPT ![c] = @ - 1]
  PROVE  Cardinality({t \in Child \X (1 .. PipeCap) : t[2] <= f[t[1]]}) = Cardinality(Tokens) - 1
<1> DEFINE F == {t \in Child \X (1 .. PipeCap) : t[2] <= f[t[1]]}
           x == <<c, pipe[c]>>
<1>1. PipeCap \in Nat
  BY PoolAssumption
<1>2. x \in Tokens
  BY DEF Tokens
<1>3. F = Tokens \ {x}
  <2>1. \A d \in Child, k \in 1 .. PipeCap :
           k <= f[d] <=> k <= pipe[d] /\ ~ (d = c /\ k = pipe[c])
    BY <1>1
  <2>2. \A t \in Child \X (1 .. PipeCap) : t \in F <=> t \in Tokens /\ t # x
    BY <2>1 DEF Tokens
  <2>3. F \subseteq Child \X (1 .. PipeCap) /\ Tokens \subseteq Child \X (1 .. PipeCap)
    BY DEF Tokens
  <2> HIDE DEF F, x
  <2> QED
    BY <2>2, <2>3
<1> HIDE DEF F, x
<1>4. Cardinality(F) = Cardinality(Tokens) - 1
  BY <1>2, <1>3, TokensFinite, FS_RemoveElement
<1> QED
  BY <1>4 DEF F

LEMMA TokenInit == Init => TokenInv
<1> SUFFICES ASSUME Init PROVE TokenInv
  OBVIOUS
<1>1. /\ backlog = <<>> /\ pipe = [c \in Child |-> 0]
      /\ ready = [p \in Proc |-> {}] /\ events = [p \in Proc |-> {}]
      /\ pc[Parent] = "fork"
  BY ProcFacts DEF Init
<1>2. Edges = 0
  BY <1>1, ProcFacts DEF Edges, One
<1>3. Tokens = {}
  <2>1. \A t \in Child \X (1 .. PipeCap) : ~ (t[2] <= pipe[t[1]])
    BY <1>1, PoolAssumption
  <2> QED
    BY <2>1 DEF Tokens
<1>4. Len(backlog) = 0
  BY <1>1
<1>5. \A c \in Child : ChildBacked(c) /\ pipe[c] = 0
  BY <1>1, ProcFacts DEF ChildBacked, One
<1> QED
  BY <1>2, <1>3, <1>4, <1>5, FS_EmptySet DEF TokenInv

(* Steps that take no connection out of the backlog and put no token or     *)
(* edge in its place.                                                       *)
LEMMA TotalKept ==
  ASSUME TypeInv, TokenInv, Len(backlog') \in Nat, Len(backlog') >= Len(backlog),
         "listen" \in ready'[Parent] => "listen" \in ready[Parent],
         "listen" \in events'[Parent] => "listen" \in events[Parent],
         pc'[Parent] = "send" => pc[Parent] = "send",
         \A c \in Child : pipe'[c] \in Nat /\ pipe'[c] <= pipe[c]
  PROVE  Len(backlog') >= Edges' + Cardinality(Tokens)'
<1>1. Cardinality(Tokens)' \in 0 .. Cardinality(Tokens)
  <2>1. \A c \in Child : pipe'[c] \in Nat /\ pipe[c] \in Nat /\ pipe'[c] <= pipe[c]
    BY DEF TypeInv, TypeOK
  <2> QED
    BY <2>1, FewerTokens DEF Tokens
<1>2. Edges' \in Nat /\ Edges \in Nat /\ Edges' <= Edges
  BY DEF Edges, One
<1>3. Len(backlog) \in Nat
  BY LenProperties DEF TypeInv, TypeOK
<1>4. Len(backlog) >= Edges + Cardinality(Tokens)
  BY DEF TokenInv
<1> QED
  BY <1>1, <1>2, <1>3, <1>4, TokensFinite

(* Steps that leave the tokens of a child and its edges alone.  *)
LEMMA ChildKept ==
  ASSUME NEW c \in Child, ChildBacked(c), pipe[c] \in Nat, pipe'[c] = pipe[c],
         "pipe" \in ready'[c] => "pipe" \in ready[c],
         "pipe" \in events'[c] => "pipe" \in events[c]
  PROVE  ChildBacked(c)'
BY DEF ChildBacked, One

LEMMA ChildSilent ==
  ASSUME NEW c \in Child, pipe'[c] \in Nat, "pipe" \notin ready'[c], "pipe" \notin events'[c]
  PROVE  ChildBacked(c)'
BY DEF ChildBacked, One

(* The parent is done with its start-up, or no token has been sent.  *)
LEMMA NoTokenYet ==
  ASSUME TokenInv, pc'[Parent] \in {"fork", "setup"} => pc[Parent] \in {"fork", "setup"},
         \A c \in Child : pipe[c] = 0 => pipe'[c] = 0
  PROVE  pc'[Parent] \in {"fork", "setup"} => \A c \in Child : pipe'[c] = 0
BY DEF TokenInv

(* Steps with no effect on tokens and edges.  *)
LEMMA TokenKept ==
  ASSUME TypeInv, TokenInv, backlog' = backlog, pipe' = pipe,
         "listen" \in ready'[Parent] => "listen" \in ready[Parent],
         "listen" \in events'[Parent] => "listen" \in events[Parent],
         pc'[Parent] = "send" => pc[Parent] = "send",
         pc'[Parent] \in {"fork", "setup"} => pc[Parent] \in {"fork", "setup"},
         \A c \in Child : /\ "pipe" \in ready'[c] => "pipe" \in ready[c]
                          /\ "pipe" \in events'[c] => "pipe" \in events[c]
  PROVE  TokenInv'
<1>1. Len(backlog) \in Nat /\ pipe \in [Child -> Nat]
  BY LenProperties DEF TypeInv, TypeOK
<1>2. \A c \in Child : pipe'[c] \in Nat /\ pipe'[c] <= pipe[c]
  BY <1>1
<1>3. Len(backlog') >= Edges' + Cardinality(Tokens)'
  BY <1>1, <1>2, TotalKept
<1>4. \A c \in Child : ChildBacked(c)'
  BY <1>1, ChildKept DEF TokenInv
<1>5. pc'[Parent] \in {"fork", "setup"} => \A c \in Child : pipe'[c] = 0
  BY NoTokenYet
<1> QED
  BY <1>3, <1>4, <1>5 DEF TokenInv

LEMMA TokenNext == TypeInv /\ TableInv /\ EdgeInv /\ TokenInv /\ [Next]_vars => TokenInv'
<1> SUFFICES ASSUME TypeInv, TableInv, EdgeInv, TokenInv, [Next]_vars
             PROVE  TokenInv'
  OBVIOUS
<1> USE ProcFacts
<1>t. /\ pc \in [Proc -> PcValues]
      /\ ready \in [Proc -> SUBSET (Conns \cup {"listen", "pipe", "sig"})]
      /\ events \in [Proc -> SUBSET (Conns \cup {"listen", "pipe", "sig"})]
      /\ pipe \in [Child -> Nat]
      /\ target \in Child
  BY DEF TypeInv, TypeOK
<1>b. backlog \in Seq(Conns) /\ Len(backlog) \in Nat
  BY LenProperties DEF TypeInv, TypeOK
<1>p. PipeCap \in Nat \ {0} /\ "listen" \notin Conns /\ "pipe" \notin Conns
  BY PoolAssumption
<1>i. /\ \A p \in Proc : EdgeAt(p)
      /\ \A c \in Child : pipe[c] <= PipeCap
  BY DEF EdgeInv, PipeAt
<1>j. /\ Len(backlog) >= Edges + Cardinality(Tokens)
      /\ \A c \in Child : ChildBacked(c)
      /\ pc[Parent] \in {"fork", "setup"} => \A c \in Child : pipe[c] = 0
  BY DEF TokenInv
<1>1. CASE Fork
  <2>1. /\ pc[Parent] = "fork" /\ pc'[Parent] # "send"
        /\ UNCHANGED <<ready, events, pipe, backlog>>
    BY <1>t, <1>1 DEF Fork, epollVars, childVars, netVars, TypeInv, TypeOK, StartOK, Child
  <2> QED
    BY <2>1, TokenKept
<1>2. ASSUME NEW p \in Proc, Setup(p)
      PROVE  TokenInv'
  <2>1. /\ pc[p] = "setup" /\ pc' = [pc EXCEPT ![p] = "wait"]
        /\ UNCHANGED <<events, pipe, backlog>>
    BY <1>2 DEF Setup, childVars, netVars
  <2>2. /\ \A q \in Proc : q # p => ready'[q] = ready[q]
        /\ p \in Child => ready'[p] = IF pipe[p] > 0 THEN {"pipe"} ELSE {}
        /\ p = Parent => ready'[p] = IF backlog # <<>> THEN {"listen"} ELSE {}
    BY <1>t, <1>2 DEF Setup
  <2>3. events[p] = {}
    BY <1>i, <2>1 DEF EdgeAt, Starting
  <2>4. \A c \in Child : ChildBacked(c)'
    <3>1. \A c \in Child : c # p => ChildBacked(c)'
      BY <1>t, <1>j, <2>1, <2>2, ChildKept
    <3>2. p \in Child => ChildBacked(p)'
      BY <1>t, <2>1, <2>2, <2>3 DEF ChildBacked, One
    <3> QED
      BY <3>1, <3>2
  <2>5. pc'[Parent] \in {"fork", "setup"} => \A c \in Child : pipe'[c] = 0
    BY <1>t, <2>1, NoTokenYet
  <2>6. Len(backlog') >= Edges' + Cardinality(Tokens)'
    <3>1. CASE p # Parent
      <4>1. \A c \in Child : pipe'[c] \in Nat /\ pipe'[c] <= pipe[c]
        BY <1>t, <2>1
      <4> QED
        BY <1>t, <1>b, <2>1, <2>2, <3>1, <4>1, TotalKept
    <3>2. CASE p = Parent
      <4>1. Tokens' = {}
        <5>1. \A c \in Child : pipe'[c] = 0
          BY <1>j, <2>1, <3>2
        <5>2. \A t \in Child \X (1 .. PipeCap) : ~ (t[2] <= pipe'[t[1]])
          BY <1>p, <5>1
        <5> QED
          BY <5>2 DEF Tokens
      <4>2. Cardinality(Tokens)' = 0
        BY <4>1, FS_EmptySet
      <4>3. Edges' = One(backlog # <<>>)
        BY <1>t, <2>1, <2>2, <2>3, <3>2 DEF Edges, One
      <4>4. backlog # <<>> => Len(backlog) > 0
        BY <1>b, EmptySeq
      <4> QED
        BY <1>b, <2>1, <4>2, <4>3, <4>4 DEF One
    <3> QED
      BY <3>1, <3>2
  <2> QED
    BY <2>4, <2>5, <2>6 DEF TokenInv
<1>3. ASSUME NEW c \in Child, Exits(c)
      PROVE  TokenInv'
  <2>1. /\ pc' = [pc EXCEPT ![c] = "exited"]
        /\ ready' = [ready EXCEPT ![c] = {}]
        /\ events' = [events EXCEPT ![c] = {}]
        /\ pipe' = [pipe EXCEPT ![c] = 0]
        /\ backlog' = backlog
    BY <1>3 DEF Exits
  <2>2. \A d \in Child : pipe'[d] \in Nat /\ pipe'[d] <= pipe[d]
    BY <1>t, <2>1
  <2>3. Len(backlog') >= Edges' + Cardinality(Tokens)'
    BY <1>t, <1>b, <2>1, <2>2, TotalKept
  <2>4. ChildBacked(c)'
    BY <1>t, <2>1, <2>2, ChildSilent
  <2>5. \A d \in Child : d # c => ChildBacked(d)'
    BY <1>t, <1>j, <2>1, ChildKept
  <2>6. pc'[Parent] \in {"fork", "setup"} => \A d \in Child : pipe'[d] = 0
    BY <1>t, <2>1, NoTokenYet
  <2> QED
    BY <2>3, <2>4, <2>5, <2>6 DEF TokenInv
<1>4. ASSUME NEW p \in Proc, StartupFails(p)
      PROVE  TokenInv'
  <2>1. CASE p = Parent
    <3>1. /\ pc'[Parent] = "aborted"
          /\ UNCHANGED <<ready, events, pipe, backlog>>
      BY <1>t, <1>4, <2>1 DEF StartupFails, epollVars, childVars, netVars
    <3> QED
      BY <3>1, TokenKept
  <2>2. CASE p # Parent
    BY <1>3, <1>4, <2>2 DEF StartupFails, Proc
  <2> QED
    BY <2>1, <2>2
<1>5. ASSUME NEW c \in Child, Crash(c)
      PROVE  TokenInv'
  BY <1>3, <1>5 DEF Crash
<1>6. ASSUME NEW p \in Proc, NEW s \in Signal, sig_handler(p, s)
      PROVE  TokenInv'
  <2>1. /\ ready' = [ready EXCEPT ![p] = @ \cup {"sig"}]
        /\ UNCHANGED <<pc, events, pipe, backlog>>
    BY <1>6 DEF sig_handler, procVars, childVars, netVars
  <2>2. \A q \in Proc : ready'[q] \subseteq ready[q] \cup {"sig"}
    BY <1>t, <2>1
  <2> QED
    BY <2>1, <2>2, TokenKept
<1>7. ASSUME NEW p \in Proc, EpollWait(p)
      PROVE  TokenInv'
  <2>1. /\ pc[p] = "wait" /\ pc' = [pc EXCEPT ![p] = "events"]
        /\ events' = [events EXCEPT ![p] = ready[p]]
        /\ ready' = [ready EXCEPT ![p] = {}]
        /\ UNCHANGED <<pipe, backlog>>
    BY <1>7 DEF EpollWait, childVars, netVars
  <2>2. events[p] = {}
    BY <1>i, <2>1 DEF EdgeAt
  <2>3. /\ \A q \in Proc : q # p => events'[q] = events[q] /\ ready'[q] = ready[q]
        /\ events'[p] = ready[p] /\ ready'[p] = {}
    BY <1>t, <2>1
  <2>4. Edges' = Edges
    <3>1. CASE p = Parent
      BY <1>t, <2>1, <2>2, <2>3, <3>1 DEF Edges, One
    <3>2. CASE p # Parent
      BY <1>t, <2>1, <2>3, <3>2 DEF Edges, One
    <3> QED
      BY <3>1, <3>2
  <2>5. Tokens' = Tokens
    BY <2>1 DEF Tokens
  <2>6. \A c \in Child : ChildBacked(c)'
    <3> SUFFICES ASSUME NEW c \in Child PROVE ChildBacked(c)'
      OBVIOUS
    <3>1. CASE c = p
      BY <1>j, <2>1, <2>2, <2>3, <3>1 DEF ChildBacked, One
    <3>2. CASE c # p
      BY <1>t, <1>j, <2>1, <2>3, <3>2, ChildKept
    <3> QED
      BY <3>1, <3>2
  <2>7. pc'[Parent] \in {"fork", "setup"} => \A d \in Child : pipe'[d] = 0
    BY <1>t, <2>1, NoTokenYet
  <2> QED
    BY <1>j, <2>1, <2>4, <2>5, <2>6, <2>7 DEF TokenInv
<1>8. ASSUME NEW p \in Proc, EndBatch(p)
      PROVE  TokenInv'
  <2>1. CASE p \in Child /\ m_stop[p]
    BY <1>3, <1>8, <2>1 DEF EndBatch
  <2>2. CASE ~(p \in Child /\ m_stop[p])
    <3>1. /\ pc' = [pc EXCEPT ![p] = IF m_stop[p] THEN "exited" ELSE "wait"]
          /\ UNCHANGED <<ready, events, pipe, backlog>>
      BY <1>8, <2>2 DEF EndBatch, epollVars, childVars, netVars
    <3> QED
      BY <1>t, <3>1, TokenKept
  <2> QED
    BY <2>1, <2>2
<1>9. ASSUME NEW p \in Proc, RecvSignals(p)
      PROVE  TokenInv'
  <2>1. /\ events' = [events EXCEPT ![p] = @ \ {"sig"}]
        /\ pc' = [pc EXCEPT ![p] = IF sigpipe[p] = <<>> THEN "events" ELSE "signals"]
        /\ UNCHANGED <<ready, pipe, backlog>>
    BY <1>9 DEF RecvSignals, Takes, childVars, netVars
  <2> QED
    BY <1>t, <2>1, TokenKept
<1>10. CASE Pick
  <2>1. /\ pc[Parent] = "events" /\ pc' = [pc EXCEPT ![Parent] = "send"]
        /\ "listen" \in events[Parent]
        /\ events' = [events EXCEPT ![Parent] = @ \ {"listen"}]
        /\ UNCHANGED <<ready, pipe, backlog>>
    BY <1>10 DEF Pick, Takes, childVars, netVars
  <2>2. Edges' = Edges
    BY <1>t, <2>1 DEF Edges, One
  <2>3. Tokens' = Tokens
    BY <2>1 DEF Tokens
  <2>4. \A c \in Child : ChildBacked(c)'
    BY <1>t, <1>j, <2>1, ChildKept
  <2>5. pc'[Parent] = "send"
    BY <1>t, <2>1
  <2> QED
    BY <1>j, <2>1, <2>2, <2>3, <2>4, <2>5 DEF TokenInv
<1>11. CASE NobodyLeft
  <2>1. /\ pc' = pc /\ events' = [events EXCEPT ![Parent] = {}]
        /\ UNCHANGED <<ready, pipe, backlog>>
    BY <1>11 DEF NobodyLeft, childVars, netVars
  <2> QED
    BY <1>t, <2>1, TokenKept
<1>12. CASE SendToken
  <2>1. /\ pc[Parent] = "send" /\ pc' = [pc EXCEPT ![Parent] = "events"]
        /\ Dead(target) \/ pipe[target] < PipeCap
        /\ pipe' = IF Dead(target) THEN pipe ELSE [pipe EXCEPT ![target] = @ + 1]
        /\ ready' = IF Running(target)
                      THEN [ready EXCEPT ![target] = @ \cup {"pipe"}] ELSE ready
        /\ UNCHANGED <<events, backlog>>
    BY <1>12 DEF SendToken, netVars
  <2>2. CASE Dead(target)
    <3>1. pipe' = pipe /\ ready' = ready
      BY <2>1, <2>2 DEF Dead, Running
    <3> QED
      BY <1>t, <2>1, <3>1, TokenKept
  <2>3. CASE ~Dead(target)
    <3>1. pipe[target] < PipeCap /\ pipe' = [pipe EXCEPT ![target] = @ + 1]
      BY <2>1, <2>3
    <3>2. Cardinality(Tokens)' = Cardinality(Tokens) + 1
      BY <1>t, <3>1, TokenAdded DEF Tokens
    <3>3. ready'[Parent] = ready[Parent] /\ pc'[Parent] = "events"
      BY <1>t, <2>1
    <3>4. Edges = Edges' + 1 /\ Edges' \in Nat
      BY <2>1, <3>3 DEF Edges, One
    <3>5. \A c \in Child : c # target => ChildBacked(c)'
      <4>1. \A c \in Child : c # target => pipe'[c] = pipe[c] /\ ready'[c] = ready[c]
        BY <1>t, <2>1, <3>1
      <4> QED
        BY <1>t, <1>j, <2>1, <4>1, ChildKept
    <3>6. ASSUME NEW c \in Child, c = target
          PROVE  ChildBacked(c)'
      <4>1. /\ pipe'[c] = pipe[c] + 1 /\ pipe[c] \in Nat
            /\ ready'[c] \subseteq ready[c] \cup {"pipe"}
            /\ events'[c] = events[c]
        BY <1>t, <2>1, <3>1, <3>6
      <4>2. pipe[c] >= One("pipe" \in ready[c]) + One("pipe" \in events[c])
        BY <1>j DEF ChildBacked
      <4>3. pipe[c] + 1 >= One("pipe" \in ready'[c]) + One("pipe" \in events[c])
        BY <4>1, <4>2 DEF One
      <4> QED
        BY <4>1, <4>3 DEF ChildBacked
    <3>7. Len(backlog') >= Edges' + Cardinality(Tokens)'
      BY <1>b, <1>j, <2>1, <3>2, <3>4, TokensFinite
    <3> QED
      BY <3>3, <3>5, <3>6, <3>7 DEF TokenInv
  <2> QED
    BY <2>2, <2>3
<1>13. ASSUME NEW p \in Proc, NEW s, SignalIs(p, s)
       PROVE  pc[p] = "signals" /\ AfterSignal(p) \in {"events", "signals"}
  BY <1>13 DEF SignalIs, AfterSignal
<1>14. CASE Reap
  <2>1. /\ pc' = [p \in Proc |-> IF p \in Exited THEN "reaped"
                                 ELSE IF p = Parent THEN AfterSignal(p) ELSE pc[p]]
        /\ UNCHANGED <<ready, events, pipe, backlog>>
    BY <1>14 DEF Reap, Collected, epollVars, childVars, netVars
  <2>2. pc[Parent] = "signals" /\ AfterSignal(Parent) \in {"events", "signals"}
    BY <1>13, <1>14 DEF Reap
  <2>3. pc'[Parent] \in {"events", "signals"}
    BY <2>1, <2>2 DEF Exited
  <2> QED
    BY <2>1, <2>3, TokenKept
<1>15. ASSUME NEW S \in SUBSET Proc, pipe' = PipesWithout(S), UNCHANGED <<ready, events, backlog>>,
              pc'[Parent] = "send" => pc[Parent] = "send",
              pc'[Parent] \in {"fork", "setup"} => pc[Parent] \in {"fork", "setup"}
       PROVE  TokenInv'
  <2>1. \A c \in Child : pipe'[c] = IF c \in Unprotected(S) THEN 0 ELSE pipe[c]
    BY <1>15 DEF PipesWithout
  <2>2. \A c \in Child : pipe'[c] \in Nat /\ pipe'[c] <= pipe[c]
    BY <1>t, <2>1
  <2>3. \A c \in Child : c \in Unprotected(S) => Starting(c)
    BY DEF Unprotected, Starting
  <2>4. \A c \in Child : ChildBacked(c)'
    <3> SUFFICES ASSUME NEW c \in Child PROVE ChildBacked(c)'
      OBVIOUS
    <3>1. CASE c \in Unprotected(S)
      <4>1. "pipe" \notin ready'[c] /\ "pipe" \notin events'[c]
        BY <1>i, <1>15, <2>3, <3>1 DEF EdgeAt
      <4> QED
        BY <2>2, <4>1, ChildSilent
    <3>2. CASE c \notin Unprotected(S)
      BY <1>t, <1>j, <1>15, <2>1, <3>2, ChildKept
    <3> QED
      BY <3>1, <3>2
  <2>5. Len(backlog') >= Edges' + Cardinality(Tokens)'
    BY <1>b, <1>15, <2>2, TotalKept
  <2>6. \A c \in Child : pipe[c] = 0 => pipe'[c] = 0
    BY <2>1
  <2>7. pc'[Parent] \in {"fork", "setup"} => \A c \in Child : pipe'[c] = 0
    BY <1>15, <2>6, NoTokenYet
  <2> QED
    BY <2>4, <2>5, <2>7 DEF TokenInv
<1>16. CASE KillAll
  <2>1. Live \in SUBSET Proc
    BY DEF Live, Proc
  <2>2. /\ pc' = [Terminated(Live) EXCEPT ![Parent] = AfterSignal(Parent)]
        /\ pipe' = PipesWithout(Live)
        /\ UNCHANGED <<ready, events, backlog>>
    BY <1>16 DEF KillAll, epollVars, netVars
  <2>3. pc[Parent] = "signals" /\ AfterSignal(Parent) \in {"events", "signals"}
    BY <1>13, <1>16 DEF KillAll
  <2>4. pc'[Parent] = AfterSignal(Parent)
    BY <2>2 DEF Terminated
  <2> QED
    BY <1>15, <2>1, <2>2, <2>3, <2>4
<1>17. ASSUME NEW c \in Child, RecvToken(c)
       PROVE  TokenInv'
  <2>1. /\ "pipe" \in events[c] /\ pc' = pc
        /\ events' = [events EXCEPT ![c] = @ \ {"pipe"}]
        /\ pipe' = [pipe EXCEPT ![c] = IF pipe[c] > 0 THEN pipe[c] - 1 ELSE pipe[c]]
    BY <1>17 DEF RecvToken, Takes, TokensAfterRecv, procVars
  <2>2. pipe[c] \in 1 .. PipeCap
    <3>1. pipe[c] \in Nat /\ pipe[c] <= PipeCap
      BY <1>t, <1>i
    <3>2. pipe[c] >= 1
      BY <1>j, <2>1, <3>1 DEF ChildBacked, One
    <3> QED
      BY <1>p, <3>1, <3>2
  <2>3. pipe' = [pipe EXCEPT ![c] = @ - 1]
    <3>1. pipe[c] > 0
      BY <1>p, <2>2
    <3> QED
      BY <2>1, <3>1
  <2>4. Cardinality(Tokens)' = Cardinality(Tokens) - 1
    BY <1>t, <2>2, <2>3, TokenRemoved DEF Tokens
  <2>5. Cardinality(Tokens) > 0
    <3>1. <<c, pipe[c]>> \in Tokens
      BY <2>2 DEF Tokens
    <3> QED
      BY <3>1, TokensFinite, FS_EmptySet
  <2>6. Edges \in Nat
    BY DEF Edges, One
  <2>7. Len(backlog) > 0 /\ backlog # <<>>
    BY <1>b, <1>j, <2>5, <2>6, TokensFinite, EmptySeq
  <2>8. /\ backlog' = Tail(backlog)
        /\ ready' = ready \/ ready' = [ready EXCEPT ![c] = @ \cup {Head(backlog)}]
    BY <1>17, <2>7 DEF RecvToken
  <2>9. Len(backlog') = Len(backlog) - 1 /\ Head(backlog) \in Conns
    BY <1>b, <2>7, <2>8, HeadTailProperties
  <2>10. \A p \in Proc : /\ "pipe" \in ready'[p] => "pipe" \in ready[p]
                         /\ "listen" \in ready'[p] => "listen" \in ready[p]
    BY <1>t, <1>p, <2>8, <2>9
  <2>11. Edges' <= Edges /\ Edges' \in Nat
    <3>1. events'[Parent] = events[Parent]
      BY <1>t, <2>1
    <3> QED
      BY <2>1, <2>10, <3>1 DEF Edges, One
  <2>12. Len(backlog') >= Edges' + Cardinality(Tokens)'
    BY <1>b, <1>j, <2>4, <2>6, <2>9, <2>11, TokensFinite
  <2>13. ChildBacked(c)'
    <3>1. pipe'[c] = pipe[c] - 1 /\ "pipe" \notin events'[c]
      BY <1>t, <2>1, <2>3
    <3>2. pipe[c] >= One("pipe" \in ready[c]) + 1
      BY <1>j, <2>1 DEF ChildBacked, One
    <3> QED
      BY <2>2, <2>10, <3>1, <3>2 DEF ChildBacked, One
  <2>14. \A d \in Child : d # c => ChildBacked(d)'
    BY <1>t, <1>j, <2>1, <2>3, <2>10, ChildKept
  <2>15. pc'[Parent] \notin {"fork", "setup"}
    BY <1>j, <2>1, <2>2
  <2> QED
    BY <2>12, <2>13, <2>14, <2>15 DEF TokenInv
<1>18. ASSUME NEW c \in Child, NEW k \in Conns, Process(c, k)
       PROVE  TokenInv'
  <2>1. /\ pc' = pc /\ events' = [events EXCEPT ![c] = @ \ {k}]
        /\ UNCHANGED <<backlog, pipe>>
        /\ ready' = ready \/ ready' = [ready EXCEPT ![c] = @ \ {k}]
    BY <1>18 DEF Process, Takes, procVars
  <2>2. \A p \in Proc : events'[p] \subseteq events[p] /\ ready'[p] \subseteq ready[p]
    BY <1>t, <2>1
  <2> QED
    BY <2>1, <2>2, TokenKept
<1>19. ASSUME NEW c \in Child, ChildReap(c) \/ ChildStop(c)
       PROVE  TokenInv'
  <2>1. /\ pc'[Parent] = pc[Parent]
        /\ UNCHANGED <<ready, events, pipe, backlog>>
    BY <1>t, <1>19 DEF ChildReap, ChildStop, epollVars, childVars, netVars
  <2> QED
    BY <2>1, TokenKept
<1>20. ASSUME NEW k \in Conns, Connect(k)
       PROVE  TokenInv'
  <2>1. /\ UNCHANGED <<events, pipe, pc>> /\ backlog' = Append(backlog, k)
        /\ ready' = IF Running(Parent)
                      THEN [ready EXCEPT ![Parent] = @ \cup {"listen"}] ELSE ready
    BY <1>20 DEF Connect, procVars, childVars
  <2>2. Len(backlog') = Len(backlog) + 1
    BY <1>b, <2>1, AppendProperties
  <2>3. Edges' <= Edges + 1 /\ Edges' \in Nat /\ Edges \in Nat
    BY <2>1 DEF Edges, One
  <2>4. Tokens' = Tokens
    BY <2>1 DEF Tokens
  <2>5. Len(backlog') >= Edges' + Cardinality(Tokens)'
    BY <1>b, <1>j, <2>2, <2>3, <2>4, TokensFinite
  <2>6. \A c \in Child : ready'[c] = ready[c]
    BY <1>t, <2>1
  <2>7. \A c \in Child : ChildBacked(c)'
    BY <1>t, <1>j, <2>1, <2>6, ChildKept
  <2> QED
    BY <1>j, <2>1, <2>5, <2>7 DEF TokenInv
<1>21. ASSUME NEW k \in Conns, ClientSends(k)
       PROVE  TokenInv'
  <2>1. /\ UNCHANGED <<events, pipe, pc, backlog>>
        /\ ready' = [p \in Proc |-> IF p \in Child /\ k \in users[p]
                                      THEN ready[p] \cup {k} ELSE ready[p]]
    BY <1>21 DEF ClientSends, procVars, childVars
  <2>2. \A p \in Proc : ready'[p] \subseteq ready[p] \cup {k}
    BY <2>1
  <2> QED
    BY <1>p, <2>1, <2>2, TokenKept
<1>22. ASSUME NEW c \in Child, KidExits(c)
       PROVE  TokenInv'
  BY <1>22, TokenKept DEF KidExits, procVars, epollVars, netVars
<1>23. ASSUME NEW S \in SUBSET Proc, Interrupt(S)
       PROVE  TokenInv'
  <2>1. /\ pc' = Terminated(S) /\ pipe' = PipesWithout(S)
        /\ UNCHANGED <<ready, events, backlog>>
    BY <1>23 DEF Interrupt, epollVars, netVars
  <2>2. pc'[Parent] = pc[Parent] \/ pc'[Parent] = "aborted"
    BY <2>1 DEF Terminated
  <2> QED
    BY <1>15, <2>1, <2>2
<1>24. CASE UNCHANGED vars
  BY <1>24, TokenKept DEF vars, procVars, epollVars, childVars, netVars
<1> QED
  BY <1>1, <1>2, <1>4, <1>5, <1>6, <1>7, <1>8, <1>9, <1>10, <1>11, <1>12, <1>14, <1>16,
     <1>17, <1>18, <1>19, <1>20, <1>21, <1>22, <1>23, <1>24, PoolAssumption
  DEF Next, ParentStep, ChildStep, Environment

(* No accept() comes in vain: however edges are merged and batches mixed,   *)
(* a child that takes a token finds a connection in the backlog, and a      *)
(* child whose pipe is reported readable finds a token in it.               *)
THEOREM AcceptsFindConnections == Spec => []TokensBacked
<1>1. Spec => [](TypeInv /\ TableInv)
  BY TypeAlways, TableInit, TableNext, PTL DEF Spec
<1>2. Spec => []TokenInv
  BY <1>1, EdgeAlways, TokenInit, TokenNext, PTL DEF Spec
<1> QED
  BY <1>2, TokensCounted, PTL

-----------------------------------------------------------------------------
(***************************************************************************)
(* Round robin.  Seen from sub_process_index, a child that comes sooner    *)
(* has had as many turns as one that comes later, or one fewer.            *)
(***************************************************************************)
Ahead(c) == IF c >= sub_process_index THEN c - sub_process_index
                                      ELSE c - sub_process_index + N

TurnInv ==
  /\ \A c, d \in Live : Ahead(c) < Ahead(d) => turns[c] <= turns[d] /\ turns[d] <= turns[c] + 1
  /\ pc[Parent] = "fork" => \A c \in Child : turns[c] = 0

LEMMA Wrap ==
  ASSUME NEW n \in Nat \ {0}, NEW a \in Nat, a < n + n
  PROVE  a % n = IF a < n THEN a ELSE a - n
<1>1. CASE a < n
  <2>1. a = 0 * n + a /\ a \in 0 .. n - 1
    BY <1>1
  <2>2. (0 * n + a) % n = a
    BY <2>1, Remainder
  <2> QED
    BY <1>1, <2>1, <2>2
<1>2. CASE ~ (a < n)
  <2>1. a = 1 * n + (a - n) /\ a - n \in 0 .. n - 1
    BY <1>2
  <2>2. (1 * n + (a - n)) % n = a - n
    BY <2>1, Remainder
  <2> QED
    BY <1>2, <2>1, <2>2
<1> QED
  BY <1>1, <1>2

LEMMA NthAhead ==
  ASSUME sub_process_index \in Child
  PROVE  /\ \A c \in Child : Ahead(c) \in 0 .. N - 1 /\ Nth(Ahead(c)) = c
         /\ \A d \in 0 .. N - 1 : Nth(d) \in Child /\ Ahead(Nth(d)) = d
         /\ \A c \in Child : NextIndex(c) = IF c = N - 1 THEN 0 ELSE c + 1
<1>n. N \in Nat \ {0} /\ sub_process_index \in 0 .. N - 1
  BY ProcFacts DEF Child
<1>1. \A d \in 0 .. N - 1 : Nth(d) = IF sub_process_index + d < N THEN sub_process_index + d
                                     ELSE sub_process_index + d - N
  <2> SUFFICES ASSUME NEW d \in 0 .. N - 1
               PROVE  (sub_process_index + d) % N = IF sub_process_index + d < N THEN sub_process_index + d
                                                    ELSE sub_process_index + d - N
    BY DEF Nth
  <2>1. PICK a \in Nat : a = sub_process_index + d /\ a < N + N
    BY <1>n
  <2>2. a % N = IF a < N THEN a ELSE a - N
    BY <1>n, <2>1, Wrap
  <2>3. (sub_process_index + d) % N = a % N
    BY <2>1
  <2> QED
    BY <1>n, <2>1, <2>2, <2>3
<1>2. \A c \in Child : Ahead(c) \in 0 .. N - 1 /\ Nth(Ahead(c)) = c
  BY <1>n, <1>1 DEF Ahead, Child
<1>3. \A d \in 0 .. N - 1 : Nth(d) \in Child /\ Ahead(Nth(d)) = d
  BY <1>n, <1>1 DEF Ahead, Child
<1>4. \A c \in Child : NextIndex(c) = IF c = N - 1 THEN 0 ELSE c + 1
  <2> SUFFICES ASSUME NEW c \in Child
               PROVE  (c + 1) % N = IF c = N - 1 THEN 0 ELSE c + 1
    BY DEF NextIndex
  <2>1. c \in 0 .. N - 1
    BY DEF Child
  <2>2. PICK a \in Nat : a = c + 1 /\ a < N + N
    BY <1>n, <2>1
  <2>3. a % N = IF a < N THEN a ELSE a - N
    BY <1>n, <2>2, Wrap
  <2> QED
    BY <1>n, <2>1, <2>2, <2>3
<1> QED
  BY <1>2, <1>3, <1>4

LEMMA TurnInit == Init => TurnInv
BY ProcFacts DEF Init, TurnInv

(* Nobody's turn: the table, the index and the counts stay.  *)
LEMMA NoTurn ==
  ASSUME TurnInv, UNCHANGED <<m_pid, sub_process_index, turns>>,
         pc'[Parent] = "fork" => pc[Parent] = "fork"
  PROVE  TurnInv'
BY DEF TurnInv, Live, Ahead

LEMMA PickTakesTurn ==
  ASSUME TypeInv, TurnInv, Pick
  PROVE  TurnInv'
<1>n. N \in Nat \ {0} /\ sub_process_index \in Child /\ Child = 0 .. N - 1
  BY ProcFacts DEF TypeInv, TypeOK, Child
<1>1. PICK x \in 0 .. N - 1 :
        /\ Nth(x) \in Live
        /\ \A e \in 0 .. x - 1 : Nth(e) \notin Live
        /\ sub_process_index' = NextIndex(Nth(x))
        /\ turns' = [turns EXCEPT ![Nth(x)] = @ + 1]
  BY DEF Pick
<1>2. PICK c \in Child : c = Nth(x)
  BY <1>n, <1>1, NthAhead
<1>3. Ahead(c) = x /\ c \in Live
  BY <1>n, <1>1, <1>2, NthAhead
<1>4. \A d \in Live : d # c => Ahead(d) > x /\ Ahead(d) \in 0 .. N - 1
  <2> SUFFICES ASSUME NEW d \in Live, d # c
               PROVE  Ahead(d) > x /\ Ahead(d) \in 0 .. N - 1
    OBVIOUS
  <2>1. d \in Child /\ Ahead(d) \in 0 .. N - 1 /\ Nth(Ahead(d)) = d
    BY <1>n, NthAhead DEF Live
  <2>2. Ahead(d) \notin 0 .. x - 1
    BY <1>1, <2>1
  <2>3. Ahead(d) # x
    BY <1>2, <2>1
  <2> QED
    BY <1>n, <2>1, <2>2, <2>3
<1>5. sub_process_index' = IF c = N - 1 THEN 0 ELSE c + 1
  BY <1>n, <1>1, <1>2, NthAhead
<1>6. Ahead(c)' = N - 1
  BY <1>n, <1>5 DEF Ahead
<1>7. \A d \in Live : d # c => Ahead(d)' = Ahead(d) - x - 1
  <2> SUFFICES ASSUME NEW d \in Live, d # c
               PROVE  Ahead(d)' = Ahead(d) - x - 1
    OBVIOUS
  <2>1. d \in 0 .. N - 1 /\ Ahead(d) > x
    BY <1>n, <1>4 DEF Live
  <2> QED
    BY <1>n, <1>3, <1>5, <2>1 DEF Ahead
<1>8. \A d \in Live : d # c => turns[c] <= turns[d] /\ turns[d] <= turns[c] + 1
  BY <1>3, <1>4 DEF TurnInv
<1>9. /\ turns \in [Child -> Nat] /\ turns' = [turns EXCEPT ![c] = @ + 1]
      /\ Live \subseteq Child /\ Live' = Live
  BY <1>1, <1>2 DEF Pick, TypeInv, TypeOK, Live
<1>10. /\ turns'[c] = turns[c] + 1 /\ turns[c] \in Nat
       /\ \A d \in Live : turns[d] \in Nat /\ (d # c => turns'[d] = turns[d])
  BY <1>9
<1>11. ASSUME NEW a \in Live, NEW b \in Live, Ahead(a)' < Ahead(b)'
       PROVE  turns'[a] <= turns'[b] /\ turns'[b] <= turns'[a] + 1
  <2>1. CASE a = c
    <3>1. b # c
      BY <1>11, <1>n, <1>6, <2>1
    <3>2. Ahead(b)' <= N - 1
      BY <1>n, <1>4, <1>7, <3>1
    <3> QED
      BY <1>11, <1>n, <1>6, <2>1, <3>1, <3>2, <1>4, <1>7
  <2>2. CASE b = c /\ a # c
    BY <1>8, <1>10, <2>2
  <2>3. CASE a # c /\ b # c
    <3>1. Ahead(a) < Ahead(b)
      BY <1>11, <1>n, <1>4, <1>7, <2>3
    <3> QED
      BY <1>10, <2>3, <3>1 DEF TurnInv
  <2> QED
    BY <2>1, <2>2, <2>3
<1>12. pc'[Parent] # "fork"
  BY ProcFacts DEF Pick, TypeInv, TypeOK
<1> QED
  BY <1>9, <1>11, <1>12 DEF TurnInv

LEMMA TurnNext == TypeInv /\ TurnInv /\ [Next]_vars => TurnInv'
<1> SUFFICES ASSUME TypeInv, TurnInv, [Next]_vars
             PROVE  TurnInv'
  OBVIOUS
<1> USE ProcFacts
<1>t. /\ pc \in [Proc -> PcValues]
      /\ m_pid \in [Child -> Child \cup {NoPid}]
  BY DEF TypeInv, TypeOK
<1>1. CASE Fork
  <2>1. pc[Parent] = "fork" /\ turns' = turns
    BY <1>1 DEF Fork
  <2>2. \A c \in Child : turns'[c] = 0
    BY <2>1 DEF TurnInv
  <2>3. Live' \subseteq Child
    BY DEF Live
  <2> QED
    BY <2>2, <2>3 DEF TurnInv
<1>2. ASSUME NEW p \in Proc, Setup(p)
      PROVE  TurnInv'
  BY <1>t, <1>2, NoTurn DEF Setup, parentVars
<1>3. ASSUME NEW c \in Child, Exits(c)
      PROVE  TurnInv'
  BY <1>t, <1>3, NoTurn DEF Exits, parentVars
<1>4. ASSUME NEW p \in Proc, StartupFails(p)
      PROVE  TurnInv'
  <2>1. CASE p = Parent
    BY <1>t, <1>4, <2>1, NoTurn DEF StartupFails, parentVars
  <2>2. CASE p # Parent
    BY <1>3, <1>4, <2>2 DEF StartupFails, Proc
  <2> QED
    BY <2>1, <2>2
<1>5. ASSUME NEW c \in Child, Crash(c)
      PROVE  TurnInv'
  BY <1>3, <1>5 DEF Crash
<1>6. ASSUME NEW p \in Proc, NEW s \in Signal, sig_handler(p, s)
      PROVE  TurnInv'
  BY <1>6, NoTurn DEF sig_handler, procVars, parentVars
<1>7. ASSUME NEW p \in Proc, EpollWait(p) \/ RecvSignals(p)
      PROVE  TurnInv'
  BY <1>t, <1>7, NoTurn DEF EpollWait, RecvSignals, parentVars
<1>8. ASSUME NEW p \in Proc, EndBatch(p)
      PROVE  TurnInv'
  <2>1. CASE p \in Child /\ m_stop[p]
    BY <1>3, <1>8, <2>1 DEF EndBatch
  <2>2. CASE ~(p \in Child /\ m_stop[p])
    BY <1>t, <1>8, <2>2, NoTurn DEF EndBatch, parentVars
  <2> QED
    BY <2>1, <2>2
<1>9. CASE NobodyLeft
  BY <1>9, NoTurn DEF NobodyLeft, parentVars
<1>10. CASE SendToken
  BY <1>t, <1>10, NoTurn DEF SendToken, parentVars
<1>11. CASE Reap
  <2>1. /\ pc[Parent] = "signals" /\ AfterSignal(Parent) \in {"events", "signals"}
        /\ Parent \notin Exited
    BY <1>11 DEF Reap, SignalIs, AfterSignal, Exited
  <2>2. /\ m_pid' = [c \in Child |-> IF c \in Exited THEN NoPid ELSE m_pid[c]]
        /\ pc' = [p \in Proc |-> IF p \in Exited THEN "reaped"
                                 ELSE IF p = Parent THEN AfterSignal(p) ELSE pc[p]]
        /\ turns' = IF Exited = {} THEN turns ELSE [c \in Child |-> 0]
        /\ sub_process_index' = sub_process_index
    BY <1>11 DEF Reap, Collected
  <2>3. pc'[Parent] # "fork"
    BY <2>1, <2>2
  <2>4. CASE Exited = {}
    <3>1. turns' = turns /\ m_pid' = m_pid
      BY <1>t, <2>2, <2>4
    <3> QED
      BY <2>2, <2>3, <3>1, NoTurn
  <2>5. CASE Exited # {}
    <3>1. \A c \in Child : turns'[c] = 0
      BY <2>2, <2>5
    <3>2. Live' \subseteq Child
      BY DEF Live
    <3> QED
      BY <3>1, <3>2 DEF TurnInv
  <2> QED
    BY <2>4, <2>5
<1>12. CASE KillAll
  <2>1. /\ pc[Parent] = "signals" /\ AfterSignal(Parent) \in {"events", "signals"}
        /\ pc' = [Terminated(Live) EXCEPT ![Parent] = AfterSignal(Parent)]
    BY <1>12 DEF KillAll, SignalIs, AfterSignal
  <2>2. pc'[Parent] # "fork"
    BY <2>1 DEF Terminated
  <2> QED
    BY <1>12, <2>2, NoTurn DEF KillAll, parentVars
<1>13. ASSUME NEW c \in Child, RecvToken(c) \/ \E k \in Conns : Process(c, k)
       PROVE  TurnInv'
  BY <1>13, NoTurn DEF RecvToken, Process, procVars, parentVars
<1>14. ASSUME NEW c \in Child, ChildReap(c) \/ ChildStop(c)
       PROVE  TurnInv'
  BY <1>t, <1>14, NoTurn DEF ChildReap, ChildStop, parentVars
<1>15. ASSUME NEW k \in Conns, Connect(k) \/ ClientSends(k)
       PROVE  TurnInv'
  BY <1>15, NoTurn DEF Connect, ClientSends, procVars, parentVars
<1>16. ASSUME NEW c \in Child, KidExits(c)
       PROVE  TurnInv'
  BY <1>16, NoTurn DEF KidExits, procVars, parentVars
<1>17. ASSUME NEW S \in SUBSET Proc, Interrupt(S)
       PROVE  TurnInv'
  <2>1. pc'[Parent] = "fork" => pc[Parent] = "fork"
    BY <1>17 DEF Interrupt, Terminated
  <2> QED
    BY <1>17, <2>1, NoTurn DEF Interrupt, parentVars
<1>18. CASE UNCHANGED vars
  BY <1>18, NoTurn DEF vars, procVars, parentVars
<1> QED
  BY <1>1, <1>2, <1>4, <1>5, <1>6, <1>7, <1>8, <1>9, <1>10, <1>11, <1>12, <1>13, <1>14,
     <1>15, <1>16, <1>17, <1>18, PickTakesTurn, PoolAssumption
  DEF Next, ParentStep, ChildStep, Environment

(* Connections are dealt out evenly: with any number of children, of which  *)
(* any may have died, no live one is ever two tokens ahead of another.      *)
THEOREM TurnsBalanced == Spec => []Balanced
<1>1. Spec => []TurnInv
  BY TypeAlways, TurnInit, TurnNext, PTL DEF Spec
<1>2. TypeInv /\ TurnInv => Balanced
  <2> SUFFICES ASSUME TypeInv, TurnInv, NEW c \in Live, NEW d \in Live
               PROVE  turns[c] <= turns[d] + 1
    BY DEF Balanced
  <2>1. /\ c \in Child /\ d \in Child /\ sub_process_index \in Child
        /\ turns[c] \in Nat /\ turns[d] \in Nat
    BY DEF TypeInv, TypeOK, Live
  <2>2. /\ Ahead(c) \in 0 .. N - 1 /\ Nth(Ahead(c)) = c
        /\ Ahead(d) \in 0 .. N - 1 /\ Nth(Ahead(d)) = d
    BY <2>1, NthAhead
  <2>3. Ahead(c) = Ahead(d) => c = d
    BY <2>2
  <2>4. Ahead(c) < Ahead(d) \/ Ahead(d) < Ahead(c) \/ c = d
    BY <2>2, <2>3, ProcFacts
  <2> QED
    BY <2>1, <2>4 DEF TurnInv
<1> QED
  BY <1>1, <1>2, TypeAlways, PTL
=============================================================================
