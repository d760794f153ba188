----------------------------- MODULE ProcessPool -----------------------------
(***************************************************************************)
(* The process pool of 01进程池/processPool.h: one parent that watches the *)
(* listening socket and N pre-forked children that accept and serve.  The  *)
(* parent never accepts; for a readable listening socket it sends one      *)
(* token (new_conn_flag) down the socketpair of the next live child, and   *)
(* that child calls accept().  Every process turns its signals into bytes  *)
(* on a private pipe (sig_handler), so that one edge-triggered epoll loop  *)
(* sees connections, tokens and signals alike.                             *)
(*                                                                         *)
(* A process is named by its m_idx: -1 is the parent, 0..N-1 the children. *)
(* The kernel objects are modelled from how the code uses them: an epoll   *)
(* instance is its ready list, filled by an edge and emptied by            *)
(* epoll_wait (EPOLLET); a socketpair is the number of unread tokens; a    *)
(* standard signal is pending at most once.                                *)
(***************************************************************************)
EXTENDS Integers, Sequences, FiniteSets

CONSTANTS
  N,         \* m_process_number
  Conns,     \* the connections that clients may open
  Outcomes,  \* what T::process may do with a connection whose data it has read
  Failing,   \* processes whose start-up may fail one of its assertions
  Crashing,  \* children that may die while serving
  Interrupts, \* sets of processes that SIGTERM or SIGINT may be sent to
  PipeCap    \* tokens a socketpair holds before send() blocks

Parent == -1
Child  == 0 .. N - 1
Proc   == {Parent} \cup Child
NoPid  == -1
Signal == {"CHLD", "TERM"}     \* SIGINT is handled exactly as SIGTERM

ASSUME PoolAssumption ==
  /\ N \in 1 .. 16                               \* MAX_PROCESS_NUMBER
  /\ PipeCap \in Nat \ {0}
  /\ Outcomes \subseteq {"keep", "close", "fork"}
  /\ Failing \subseteq Proc
  /\ Crashing \subseteq Child
  /\ Interrupts \subseteq SUBSET Proc
  /\ Conns \cap {"listen", "pipe", "sig"} = {}

VARIABLES
  pc,       \* where each process stands in run_parent / run_child
  m_stop,   \* m_stop of each process
  ready,    \* edges its epoll instance has not reported yet
  events,   \* what is left of the batch epoll_wait returned
  pending,  \* signals raised and not yet delivered to sig_handler
  sigpipe,  \* bytes written to sig_pipefd[1] and not yet read
  signals,  \* bytes of the local buffer signals[] not yet looked at
  m_pid,    \* the parent's table: m_sub_process[i].m_pid (i stands for its pid)
  forked,   \* loop counter of the constructor
  sub_process_index,
  target,   \* the child the parent is sending a token to
  pipe,     \* unread tokens in each child's socketpair
  users,    \* the connections each child has accepted and not closed
  kids,     \* running CGI processes of each child
  deadkids, \* CGI processes of each child that exited and were not waited for
  conn,     \* life of each connection
  data,     \* connections with bytes (or an EOF) nobody has read
  backlog,  \* completed connections that nobody has accepted
  termed,   \* the administrator has signalled the parent
  unseen,   \* history: children that died before the parent could see SIGCHLD
  turns     \* history: tokens per child since the table last changed

procVars   == <<pc, m_stop>>
epollVars  == <<ready, events>>
sigVars    == <<pending, sigpipe, signals>>
parentVars == <<m_pid, forked, sub_process_index, target, turns>>
childVars  == <<pipe, users, kids, deadkids>>
netVars    == <<conn, data, backlog>>
history    == <<termed, unseen>>
vars == <<procVars, epollVars, sigVars, parentVars, childVars, netVars, history>>

(***************************************************************************)
(* The handlers of a process are installed, and it has not terminated.     *)
(***************************************************************************)
Running(p) == pc[p] \in {"wait", "events", "send", "signals", "spin"}
Live       == {c \in Child : m_pid[c] # NoPid}
Dead(c)    == pc[c] \in {"exited", "reaped"}

Init ==
  /\ pc = [p \in Proc |-> IF p = Parent THEN "fork" ELSE "unborn"]
  /\ m_stop = [p \in Proc |-> FALSE]
  /\ ready = [p \in Proc |-> {}]
  /\ events = [p \in Proc |-> {}]
  /\ pending = [p \in Proc |-> {}]
  /\ sigpipe = [p \in Proc |-> <<>>]
  /\ signals = [p \in Proc |-> <<>>]
  /\ m_pid = [c \in Child |-> NoPid]
  /\ forked = 0
  /\ sub_process_index = 0
  /\ target = 0
  /\ turns = [c \in Child |-> 0]
  /\ pipe = [c \in Child |-> 0]
  /\ users = [c \in Child |-> {}]
  /\ kids = [c \in Child |-> 0]
  /\ deadkids = [c \in Child |-> 0]
  /\ conn = [k \in Conns |-> "new"]
  /\ data = {}
  /\ backlog = <<>>
  /\ termed = FALSE
  /\ unseen = {}

-----------------------------------------------------------------------------
(***************************************************************************)
(* Start-up: the constructor forks the children one by one, then every     *)
(* process runs setup_sig_pipe and registers its descriptors.              *)
(***************************************************************************)
Fork ==
  /\ pc[Parent] = "fork"
  /\ m_pid' = [m_pid EXCEPT ![forked] = forked]
  /\ forked' = forked + 1
  /\ pc' = [pc EXCEPT ![forked] = "setup",
                      ![Parent] = IF forked + 1 = N THEN "setup" ELSE "fork"]
  /\ UNCHANGED <<m_stop, epollVars, sigVars, sub_process_index, target, turns,
                 childVars, netVars, history>>

(* EPOLL_CTL_ADD reports at once what is already readable. *)
Setup(p) ==
  /\ pc[p] = "setup"
  /\ pc' = [pc EXCEPT ![p] = "wait"]
  /\ ready' = [ready EXCEPT ![p] =
                 IF p = Parent THEN IF backlog # <<>> THEN {"listen"} ELSE {}
                               ELSE IF pipe[p] > 0 THEN {"pipe"} ELSE {}]
  /\ UNCHANGED <<m_stop, events, sigVars, parentVars, childVars, netVars, history>>

-----------------------------------------------------------------------------
(***************************************************************************)
(* Termination of a child, for whatever reason: its descriptors go away,   *)
(* with the tokens and connections in them, and SIGCHLD is raised in the   *)
(* parent, which ignores it as long as it has installed no handler.        *)
(***************************************************************************)
Exits(c) ==
  /\ pc' = [pc EXCEPT ![c] = "exited"]
  /\ ready' = [ready EXCEPT ![c] = {}]
  /\ events' = [events EXCEPT ![c] = {}]
  /\ sigpipe' = [sigpipe EXCEPT ![c] = <<>>]
  /\ signals' = [signals EXCEPT ![c] = <<>>]
  /\ pending' = [pending EXCEPT ![c] = {},
                   ![Parent] = IF Running(Parent) THEN @ \cup {"CHLD"} ELSE @]
  /\ unseen' = IF Running(Parent) THEN unseen ELSE unseen \cup {c}
  /\ pipe' = [pipe EXCEPT ![c] = 0]
  /\ users' = [users EXCEPT ![c] = {}]
  /\ kids' = [kids EXCEPT ![c] = 0]
  /\ deadkids' = [deadkids EXCEPT ![c] = 0]
  /\ conn' = [k \in Conns |-> IF k \in users[c] THEN "closed" ELSE conn[k]]
  /\ UNCHANGED <<m_stop, parentVars, data, backlog, termed>>

(* An assertion of the start-up fails: fork, epoll_create, socketpair, new. *)
StartupFails(p) ==
  /\ p \in Failing
  /\ IF p = Parent
       THEN /\ pc[p] \in {"fork", "setup"}
            /\ pc' = [pc EXCEPT ![p] = "aborted"]
            /\ UNCHANGED <<m_stop, epollVars, sigVars, parentVars, childVars,
                           netVars, history>>
       ELSE pc[p] = "setup" /\ Exits(p)

Crash(c) ==
  /\ c \in Crashing
  /\ Running(c)
  /\ Exits(c)

-----------------------------------------------------------------------------
(***************************************************************************)
(* Signals.  sig_handler writes the number of the signal to the signal     *)
(* pipe, which is how the epoll loop learns of it.                         *)
(***************************************************************************)
sig_handler(p, s) ==
  /\ Running(p)
  /\ s \in pending[p]
  /\ pending' = [pending EXCEPT ![p] = @ \ {s}]
  /\ sigpipe' = [sigpipe EXCEPT ![p] = Append(@, s)]
  /\ ready' = [ready EXCEPT ![p] = @ \cup {"sig"}]
  /\ UNCHANGED <<procVars, events, signals, parentVars, childVars, netVars, history>>

(* SIGTERM or SIGINT is sent to the processes S.  Those that have installed *)
(* their handlers have it pending; those still starting up die of it.       *)
Unprotected(S) == {p \in S : pc[p] \in {"fork", "setup"}}

Terminated(S) ==
  [p \in Proc |-> IF p \notin Unprotected(S) THEN pc[p]
                  ELSE IF p = Parent THEN "aborted" ELSE "exited"]

Signalled(S) ==
  [p \in Proc |->
     pending[p] \cup {s \in Signal : Running(p) /\
       IF s = "TERM" THEN p \in S ELSE p = Parent /\ Unprotected(S) # {}}]

PipesWithout(S) == [c \in Child |-> IF c \in Unprotected(S) THEN 0 ELSE pipe[c]]

-----------------------------------------------------------------------------
(***************************************************************************)
(* The epoll loop common to run_parent and run_child.                      *)
(***************************************************************************)
EpollWaitLevel(p) ==            \* at fault: the listening socket without EPOLLET
  /\ pc[p] = "wait"
  /\ ready[p] # {}
  /\ events' = [events EXCEPT ![p] = ready[p]]
  /\ ready' = [ready EXCEPT ![p] = IF backlog = <<>> THEN {} ELSE @ \cap {"listen"}]
  /\ pc' = [pc EXCEPT ![p] = "events"]
  /\ UNCHANGED <<m_stop, sigVars, parentVars, childVars, netVars, history>>

EpollWait(p) ==
  /\ pc[p] = "wait"
  /\ ready[p] # {}
  /\ events' = [events EXCEPT ![p] = ready[p]]
  /\ ready' = [ready EXCEPT ![p] = {}]
  /\ pc' = [pc EXCEPT ![p] = "events"]
  /\ UNCHANGED <<m_stop, sigVars, parentVars, childVars, netVars, history>>

(* The batch is done: while(!m_stop) decides. *)
EndBatch(p) ==
  /\ pc[p] = "events"
  /\ events[p] = {}
  /\ IF p \in Child /\ m_stop[p]
       THEN Exits(p)
       ELSE /\ pc' = [pc EXCEPT ![p] = IF m_stop[p] THEN "exited" ELSE "wait"]
            /\ UNCHANGED <<m_stop, epollVars, sigVars, parentVars, childVars,
                           netVars, history>>

(* An event of the batch is taken up. *)
Takes(p, e) ==
  /\ pc[p] = "events"
  /\ e \in events[p]
  /\ events' = [events EXCEPT ![p] = @ \ {e}]

(* At fault: one byte is read. *)
RecvOneSignal(p) ==
  /\ Takes(p, "sig")
  /\ sigpipe[p] # <<>>
  /\ signals' = [signals EXCEPT ![p] = <<Head(sigpipe[p])>>]
  /\ sigpipe' = [sigpipe EXCEPT ![p] = Tail(@)]
  /\ pc' = [pc EXCEPT ![p] = "signals"]
  /\ UNCHANGED <<m_stop, ready, pending, parentVars, childVars, netVars, history>>

(* recv(sig_pipefd[0]) drains the signal pipe into signals[]. *)
RecvSignals(p) ==
  /\ Takes(p, "sig")
  /\ signals' = [signals EXCEPT ![p] = sigpipe[p]]
  /\ sigpipe' = [sigpipe EXCEPT ![p] = <<>>]
  /\ pc' = [pc EXCEPT ![p] = IF sigpipe[p] = <<>> THEN "events" ELSE "signals"]
  /\ UNCHANGED <<m_stop, ready, pending, parentVars, childVars, netVars, history>>

(* The next byte of signals[] is s; AfterSignal is where its case returns to. *)
SignalIs(p, s)  == pc[p] = "signals" /\ Head(signals[p]) = s
AfterSignal(p)  == IF Len(signals[p]) = 1 THEN "events" ELSE "signals"
ConsumeSignal(p) == signals' = [signals EXCEPT ![p] = Tail(@)]

-----------------------------------------------------------------------------
(***************************************************************************)
(* run_parent: the listening socket is readable.  The children are tried   *)
(* in turn from sub_process_index on; the first one that is still in the   *)
(* table gets the token.                                                   *)
(***************************************************************************)
Nth(d) == (sub_process_index + d) % N

(* The child to begin with next time; at fault: no wrap, no advance. *)
NextIndexUnwrapped(c) == c + 1
NextIndexKept(c)      == c
NextIndex(c)          == (c + 1) % N

Pick ==
  /\ Takes(Parent, "listen")
  /\ \E d \in 0 .. N - 1 :
       /\ Nth(d) \in Live
       /\ \A e \in 0 .. d - 1 : Nth(e) \notin Live
       /\ target' = Nth(d)
       /\ sub_process_index' = NextIndex(Nth(d))
       /\ turns' = [turns EXCEPT ![Nth(d)] = @ + 1]
  /\ pc' = [pc EXCEPT ![Parent] = "send"]
  /\ UNCHANGED <<m_stop, ready, sigVars, m_pid, forked, childVars, netVars, history>>

(* No child is left: m_stop is set and the rest of the batch is abandoned. *)
NobodyLeft ==
  /\ pc[Parent] = "events"
  /\ "listen" \in events[Parent]
  /\ Live = {}
  /\ m_stop' = [m_stop EXCEPT ![Parent] = TRUE]
  /\ events' = [events EXCEPT ![Parent] = {}]
  /\ UNCHANGED <<pc, ready, sigVars, parentVars, childVars, netVars, history>>

(* At fault: the token never gets to the child. *)
SendTokenNowhere ==
  /\ pc[Parent] = "send"
  /\ pc' = [pc EXCEPT ![Parent] = "events"]
  /\ UNCHANGED <<m_stop, epollVars, sigVars, parentVars, childVars, netVars, history>>

(* send() on a full socketpair blocks the parent; on one whose other end is *)
(* gone it fails with EPIPE (SIGPIPE is ignored) and the token is lost.     *)
SendToken ==
  /\ pc[Parent] = "send"
  /\ Dead(target) \/ pipe[target] < PipeCap
  /\ pipe' = IF Dead(target) THEN pipe ELSE [pipe EXCEPT ![target] = @ + 1]
  /\ ready' = IF Running(target)
                THEN [ready EXCEPT ![target] = @ \cup {"pipe"}] ELSE ready
  /\ pc' = [pc EXCEPT ![Parent] = "events"]
  /\ UNCHANGED <<m_stop, events, sigVars, parentVars, users, kids, deadkids,
                 netVars, history>>

(* SIGCHLD: waitpid(WNOHANG) until nothing is left; at fault: only once. *)
Exited        == {c \in Child : pc[c] = "exited"}
CollectedOnce == IF Exited = {} THEN {} ELSE {CHOOSE c \in Exited : TRUE}
Collected     == Exited

(* m_stop is set when the table is empty; at fault: when one child is gone. *)
SomeJoined(gone) == gone # {}
AllJoined(gone)  == Live \subseteq gone

Reap ==
  /\ SignalIs(Parent, "CHLD")
  /\ ConsumeSignal(Parent)
  /\ m_pid' = [c \in Child |-> IF c \in Collected THEN NoPid ELSE m_pid[c]]
  /\ pc' = [p \in Proc |-> IF p \in Collected THEN "reaped"
                           ELSE IF p = Parent THEN AfterSignal(p) ELSE pc[p]]
  /\ m_stop' = [m_stop EXCEPT ![Parent] = AllJoined(Collected)]
  /\ unseen' = unseen \ Collected
  /\ turns' = IF Collected = {} THEN turns ELSE [c \in Child |-> 0]
  /\ UNCHANGED <<epollVars, pending, sigpipe, forked, sub_process_index, target,
                 childVars, netVars, termed>>

(* SIGTERM, SIGINT: SIGTERM to every child in the table. *)
KillAll ==
  /\ SignalIs(Parent, "TERM")
  /\ ConsumeSignal(Parent)
  /\ pc' = [Terminated(Live) EXCEPT ![Parent] = AfterSignal(Parent)]
  /\ pending' = Signalled(Live)
  /\ pipe' = PipesWithout(Live)
  /\ UNCHANGED <<m_stop, epollVars, sigpipe, parentVars, users, kids, deadkids,
                 netVars, history>>

-----------------------------------------------------------------------------
(***************************************************************************)
(* run_child: a token is readable.  One recv() takes one token; EAGAIN is  *)
(* not treated as an error, so accept() is called in that case too.        *)
(***************************************************************************)
TokensAfterNoRecv(c)   == pipe[c]     \* at fault: reads none
TokensAfterRecv(c)     == IF pipe[c] > 0 THEN pipe[c] - 1 ELSE pipe[c]

RecvToken(c) ==
  /\ Takes(c, "pipe")
  /\ pipe' = [pipe EXCEPT ![c] = TokensAfterRecv(c)]
  /\ IF backlog = <<>>
       THEN UNCHANGED <<backlog, conn, users, ready>>
       ELSE LET k == Head(backlog) IN
              /\ backlog' = Tail(backlog)
              /\ conn' = [conn EXCEPT ![k] = "open"]
              /\ users' = [users EXCEPT ![c] = @ \cup {k}]
              /\ ready' = IF k \in data THEN [ready EXCEPT ![c] = @ \cup {k}] ELSE ready
  /\ UNCHANGED <<procVars, sigVars, parentVars, kids, deadkids, data, history>>

(* users[sockfd].process(): reads what there is; the connection is kept,    *)
(* closed, or closed after a CGI process was forked for it.                 *)
Process(c, k) ==
  /\ k \in Conns
  /\ Takes(c, k)
  /\ data' = data \ {k}
  /\ \E o \in (IF k \in data THEN Outcomes ELSE {"keep"}) :
       /\ users' = IF o = "keep" THEN users ELSE [users EXCEPT ![c] = @ \ {k}]
       /\ conn' = IF o = "keep" THEN conn ELSE [conn EXCEPT ![k] = "closed"]
       /\ ready' = IF o = "keep" THEN ready ELSE [ready EXCEPT ![c] = @ \ {k}]
       /\ kids' = IF o = "fork" THEN [kids EXCEPT ![c] = @ + 1] ELSE kids
  /\ UNCHANGED <<procVars, sigVars, parentVars, pipe, deadkids, backlog, history>>

(* SIGCHLD: while((pid = waitpid(-1,&stat,WNOHANG))) continue;  With a CGI  *)
(* process still running waitpid ends up at 0 and the loop ends; with none  *)
(* it ends up at -1 (ECHILD), which is not 0, and the loop never ends.      *)
ChildReap(c) ==
  /\ SignalIs(c, "CHLD")
  /\ ConsumeSignal(c)
  /\ deadkids' = [deadkids EXCEPT ![c] = 0]
  /\ pc' = [pc EXCEPT ![c] = IF kids[c] > 0 THEN AfterSignal(c) ELSE "spin"]
  /\ UNCHANGED <<m_stop, epollVars, pending, sigpipe, parentVars, pipe, users, kids,
                 netVars, history>>

(* At fault: SIGTERM is read and forgotten. *)
ChildStopForgotten(c) ==
  /\ SignalIs(c, "TERM")
  /\ ConsumeSignal(c)
  /\ pc' = [pc EXCEPT ![c] = AfterSignal(c)]
  /\ UNCHANGED <<m_stop, epollVars, pending, sigpipe, parentVars, childVars, netVars,
                 history>>

(* SIGTERM, SIGINT. *)
ChildStop(c) ==
  /\ SignalIs(c, "TERM")
  /\ ConsumeSignal(c)
  /\ m_stop' = [m_stop EXCEPT ![c] = TRUE]
  /\ pc' = [pc EXCEPT ![c] = AfterSignal(c)]
  /\ UNCHANGED <<epollVars, pending, sigpipe, parentVars, childVars, netVars, history>>

-----------------------------------------------------------------------------
(***************************************************************************)
(* The world outside: clients, CGI processes and the administrator.        *)
(***************************************************************************)
Connect(k) ==
  /\ conn[k] = "new"
  /\ pc[Parent] # "exited"
  /\ conn' = [conn EXCEPT ![k] = "backlog"]
  /\ backlog' = Append(backlog, k)
  /\ ready' = IF Running(Parent)
                THEN [ready EXCEPT ![Parent] = @ \cup {"listen"}] ELSE ready
  /\ UNCHANGED <<procVars, events, sigVars, parentVars, childVars, data, history>>

ClientSends(k) ==
  /\ conn[k] \in {"backlog", "open"}
  /\ k \notin data
  /\ data' = data \cup {k}
  /\ ready' = [p \in Proc |-> IF p \in Child /\ k \in users[p]
                                THEN ready[p] \cup {k} ELSE ready[p]]
  /\ UNCHANGED <<procVars, events, sigVars, parentVars, childVars, conn, backlog,
                 history>>

KidExits(c) ==
  /\ Running(c)
  /\ kids[c] > 0
  /\ kids' = [kids EXCEPT ![c] = @ - 1]
  /\ deadkids' = [deadkids EXCEPT ![c] = @ + 1]
  /\ pending' = [pending EXCEPT ![c] = @ \cup {"CHLD"}]
  /\ UNCHANGED <<procVars, epollVars, sigpipe, signals, parentVars, pipe, users,
                 netVars, history>>

(* The administrator signals the parent (kill), or the terminal signals the *)
(* whole process group (Ctrl-C), once.                                      *)
Interrupt(S) ==
  /\ ~termed
  /\ pc[Parent] \notin {"exited", "aborted"}
  /\ termed' = TRUE
  /\ pc' = Terminated(S)
  /\ pending' = Signalled(S)
  /\ pipe' = PipesWithout(S)
  /\ unseen' = IF Running(Parent) THEN unseen ELSE unseen \cup (Unprotected(S) \cap Child)
  /\ UNCHANGED <<m_stop, epollVars, sigpipe, signals, parentVars, users, kids, deadkids,
                 netVars>>

-----------------------------------------------------------------------------
ParentStep ==
  \/ Fork
  \/ Setup(Parent)
  \/ EpollWait(Parent)
  \/ EndBatch(Parent)
  \/ RecvSignals(Parent)
  \/ Pick
  \/ NobodyLeft
  \/ SendToken
  \/ Reap
  \/ KillAll

ChildStep(c) ==
  \/ Setup(c)
  \/ EpollWait(c)
  \/ EndBatch(c)
  \/ RecvSignals(c)
  \/ RecvToken(c)
  \/ \E k \in Conns : Process(c, k)
  \/ ChildReap(c)
  \/ ChildStop(c)

Environment ==
  \/ \E k \in Conns : Connect(k) \/ ClientSends(k)
  \/ \E c \in Child : KidExits(c) \/ Crash(c)
  \/ \E p \in Proc : StartupFails(p)
  \/ \E S \in Interrupts : Interrupt(S)

Next ==
  \/ ParentStep
  \/ \E c \in Child : ChildStep(c)
  \/ \E p \in Proc, s \in Signal : sig_handler(p, s)
  \/ Environment

(***************************************************************************)
(* The scheduler runs every process that can run, and the kernel delivers  *)
(* every pending signal.  Nothing is assumed of clients, CGI programs,     *)
(* crashes or the administrator.                                           *)
(***************************************************************************)
Fairness ==
  /\ WF_vars(ParentStep)
  /\ \A c \in Child : WF_vars(ChildStep(c))
  /\ \A p \in Proc, s \in Signal : WF_vars(sig_handler(p, s))

Spec == Init /\ [][Next]_vars /\ Fairness

-----------------------------------------------------------------------------
(***************************************************************************)
(* Properties.                                                             *)
(***************************************************************************)
PcValues == {"unborn", "fork", "setup", "wait", "events", "send", "signals", "spin",
             "exited", "reaped", "aborted"}

(* Types of the variables. *)
TypeOK ==
  /\ pc \in [Proc -> PcValues]
  /\ m_stop \in [Proc -> BOOLEAN]
  /\ ready \in [Proc -> SUBSET (Conns \cup {"listen", "pipe", "sig"})]
  /\ events \in [Proc -> SUBSET (Conns \cup {"listen", "pipe", "sig"})]
  /\ pending \in [Proc -> SUBSET Signal]
  /\ sigpipe \in [Proc -> Seq(Signal)]
  /\ signals \in [Proc -> Seq(Signal)]
  /\ m_pid \in [Child -> Child \cup {NoPid}]
  /\ forked \in 0 .. N
  /\ sub_process_index \in Child
  /\ target \in Child
  /\ turns \in [Child -> Nat]
  /\ pipe \in [Child -> Nat]
  /\ users \in [Child -> SUBSET Conns]
  /\ kids \in [Child -> Nat]
  /\ deadkids \in [Child -> Nat]
  /\ conn \in [Conns -> {"new", "backlog", "open", "closed"}]
  /\ data \subseteq Conns
  /\ backlog \in Seq(Conns)
  /\ termed \in BOOLEAN
  /\ unseen \subseteq Child

(* The parent leaves run_parent only when every child has been waited for:  *)
(* no zombie and no orphan is left behind (processPool.h 310-316, 322).     *)
NoOrphans == pc[Parent] = "exited" => \A c \in Child : pc[c] = "reaped"

(* A SIGCHLD is in flight towards the parent's waitpid loop. *)
HasChld(bytes) == \E i \in 1 .. Len(bytes) : bytes[i] = "CHLD"

ChldInFlight ==
  \/ "CHLD" \in pending[Parent]
  \/ HasChld(sigpipe[Parent])
  \/ HasChld(signals[Parent])

(* Signals coalesce and one waitpid loop answers several of them, yet no    *)
(* death the parent could see is forgotten: as long as a child is a zombie  *)
(* a SIGCHLD is still on its way to the loop that will reap it.             *)
EveryDeathNoticed ==
  pc[Parent] \notin {"exited", "aborted"} =>
    \A c \in Child : pc[c] = "exited" /\ c \notin unseen => ChldInFlight

(* Bytes in a signal pipe are never stranded by edge triggering: whenever   *)
(* some are unread the epoll instance still has an edge to report.          *)
SignalBytesHaveEdge ==
  \A p \in Proc : sigpipe[p] # <<>> => "sig" \in ready[p] \cup events[p]

(* The unread tokens, one by one. *)
Tokens == {t \in Child \X (1 .. PipeCap) : t[2] <= pipe[t[1]]}

(* One token per listening edge and one accept per token: there are never   *)
(* more tokens and edges under way than connections waiting, so that no     *)
(* accept() finds the backlog empty (EAGAIN).  And a child told of a        *)
(* readable pipe finds a token in it: the fall-through of EAGAIN into       *)
(* accept() (386) is never taken.                                           *)
TokensBacked ==
  LET edges == Cardinality({"listen"} \cap ready[Parent])
             + Cardinality({"listen"} \cap events[Parent])
             + (IF pc[Parent] = "send" THEN 1 ELSE 0)
  IN /\ Len(backlog) >= edges + Cardinality(Tokens)
     /\ \A c \in Child :
          pipe[c] >= Cardinality({"pipe"} \cap ready[c]) + Cardinality({"pipe"} \cap events[c])

(* Unread tokens may be left behind without an edge, but never so many that *)
(* the parent's blocking send() waits for a reader nobody will wake.        *)
FullPipeHasEdge ==
  \A c \in Child : pipe[c] = PipeCap /\ Running(c) => "pipe" \in ready[c] \cup events[c]

(* Round robin: as long as the table does not change no live child gets two *)
(* tokens more than another.                                                *)
Balanced ==
  \A c, d \in Live : turns[c] <= turns[d] + 1

(* Line 237: the parent hands the connections that arrive to the children.  *)
(* When every process sleeps in epoll_wait with nothing to report, nobody   *)
(* will ever look at a connection that is still in the backlog.             *)
NothingStranded ==
  (/\ \A p \in Proc : pc[p] = "wait" /\ ready[p] = {} /\ pending[p] = {})
    => backlog = <<>>

(* Line 322: told to terminate, the parent kills all children and waits for *)
(* all of them to exit.  One child that is alive, or whose death the parent *)
(* could see, is enough: the SIGCHLD of its death collects the others too.  *)
(* If all have died before the parent's sigaction (217), no SIGCHLD ever    *)
(* comes and the parent waits for ever.                                     *)
ParentTerminates ==
  ("TERM" \in pending[Parent] /\ unseen # Child) ~> (pc[Parent] = "exited")

(* As long as the listening socket has an edge to report, the connection    *)
(* that has waited longest is accepted, unless children die or are stopped. *)
OldestIsAccepted ==
  \A k \in Conns :
    (backlog # <<>> /\ Head(backlog) = k /\ "listen" \in ready[Parent])
      ~> (conn[k] # "backlog" \/ \E c \in Child : Dead(c))
=============================================================================
