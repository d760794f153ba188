------------------------------ MODULE CgiConn ------------------------------
(* One slot of users[] in a child of the pool: the cgi_conn that serves the *)
(* connections on one descriptor, one after the other (testCgi.cpp), the    *)
(* socket and the edge-triggered epoll below it, the CGI program it starts, *)
(* and the clients, among them the shipped one (testClient.cpp).            *)
(*                                                                          *)
(* A client's stream consists of CR, LF and other bytes, "x"; it arrives in *)
(* pieces of any size, at any moment between two calls of the server.       *)
EXTENDS Naturals, Sequences, FiniteSetsExt, SequencesExt

CONSTANTS BUFFER_SIZE,  \* cgi_conn::BUFFER_SIZE
          MaxStream     \* bound: the length of a stream

ASSUME CgiConnAssumption == BUFFER_SIZE \in Nat \ {0, 1} /\ MaxStream \in Nat

VARIABLES
  \* the client and the network
  client,   \* "none", "test" (testClient.cpp), "other", or "done": it has left
  stream,   \* all that the client means to send
  rest,     \* the part that has not arrived yet
  answer,   \* the CGI program has written to the client
  \* the server's socket
  conn,     \* "none", "queued" (not accepted), "open" (registered), "closed"
  unread,   \* bytes that have arrived and not been received
  peer,     \* what the socket knows of the client: "open", "fin" or "reset"
  edge,     \* epoll has an event for the socket
  \* the slot
  busy,     \* process() runs
  buf,      \* the first m_read_idx bytes of m_buffer
  verdict,  \* what became of the connection: "none", "run", "refused", "gone"
  name,     \* the program that was started for it
  cgi,      \* that program runs, with the socket as its output
  \* the child
  spins     \* it has entered the loop of waitpid and will never leave it

clientVars == <<client, stream, rest, answer>>
socketVars == <<conn, unread, peer, edge>>
slotVars == <<busy, buf, verdict, name, cgi>>
vars == <<clientVars, socketVars, slotVars, spins>>

LineEnds(s) == {n \in 2..Len(s) : s[n - 1] = "CR" /\ s[n] = "LF"}

Byte == {"x", "CR", "LF"}

Streams == BoundedSeq(Byte, MaxStream)
\* cin >> buf reads one word; the client adds CR LF.
TestStreams == {w \o <<"CR", "LF">> : w \in BoundedSeq({"x"}, MaxStream - 2)}

Init == /\ client = "none" /\ stream = <<>> /\ rest = <<>> /\ answer = FALSE
        /\ conn = "none" /\ unread = <<>> /\ peer = "open" /\ edge = FALSE
        /\ busy = FALSE /\ buf = <<>> /\ verdict = "none" /\ name = <<>> /\ cgi = FALSE
        /\ spins = FALSE

-----------------------------------------------------------------------------
(* Clients *)

\* The next client whose connection will get this descriptor. What is left of
\* the last one, its program and its client, is gone by then: it has a socket
\* of its own and nothing in common with this one but the slot.
Connect ==
    /\ conn \in {"none", "closed"} /\ client \in {"none", "done"} /\ ~cgi
    /\ \/ client' = "test" /\ stream' \in TestStreams
       \/ client' = "other" /\ stream' \in Streams
    /\ rest' = stream' /\ answer' = FALSE
    /\ conn' = "queued" /\ unread' = <<>> /\ peer' = "open" /\ edge' = FALSE
    /\ verdict' = "none" /\ name' = <<>>
    /\ UNCHANGED <<busy, buf, cgi, spins>>

\* A piece of the stream arrives; a closed socket discards it.
Arrive ==
    /\ rest # <<>>
    /\ \E n \in 1..Len(rest) :
        /\ rest' = SubSeq(rest, n + 1, Len(rest))
        /\ unread' = IF conn = "closed" THEN unread ELSE unread \o SubSeq(rest, 1, n)
    /\ edge' = (edge \/ conn = "open")
    /\ UNCHANGED <<client, stream, answer, conn, peer, slotVars, spins>>

\* Another client leaves when it likes, by close or by reset.
Leave ==
    /\ client = "other"
    /\ client' = "done" /\ rest' = <<>>
    /\ peer' \in {"fin", "reset"}
    /\ edge' = (edge \/ conn = "open")
    /\ UNCHANGED <<stream, answer, conn, unread, slotVars, spins>>

\* testClient.cpp: after write() one read(), which returns what the program has
\* written or, once nobody holds the server's end, 0; then close().
TestClientReads ==
    /\ client = "test" /\ rest = <<>>
    /\ answer \/ (conn = "closed" /\ ~cgi)
    /\ client' = "done"
    /\ peer' = "fin"
    /\ edge' = (edge \/ conn = "open")
    /\ UNCHANGED <<stream, rest, answer, conn, unread, slotVars, spins>>

-----------------------------------------------------------------------------
(* The child: run_child accepts and waits for events, process() handles them *)

\* At fault: init() leaves m_read_idx as the last connection had it.
AcceptKeepsIndex ==
    /\ conn = "queued" /\ ~spins
    /\ conn' = "open"
    /\ edge' = (unread # <<>> \/ peer # "open")
    /\ UNCHANGED <<clientVars, unread, peer, slotVars, spins>>

\* accept, addfd, init(): what arrived before gives the first event.
Accept ==
    /\ conn = "queued" /\ ~spins
    /\ conn' = "open"
    /\ edge' = (unread # <<>> \/ peer # "open")
    /\ buf' = <<>>
    /\ UNCHANGED <<clientVars, unread, peer, busy, verdict, name, cgi, spins>>

\* epoll_wait returns the event, run_child calls process().
Wake ==
    /\ conn = "open" /\ edge /\ ~busy /\ ~spins
    /\ busy' = TRUE /\ edge' = FALSE
    /\ UNCHANGED <<clientVars, conn, unread, peer, buf, verdict, name, cgi, spins>>

\* SIGCHLD: a CGI program of the child has ended, of this slot or of another one,
\* and none is left. waitpid() returns -1 from then on, which the loop takes for
\* one more program. (While a program runs it returns 0 and the loop ends.)
Spin ==
    /\ ~busy /\ ~cgi /\ ~spins
    /\ spins' = TRUE
    /\ UNCHANGED <<clientVars, socketVars, slotVars>>

\* At fault: no byte is kept for the end of the string; and one byte too many.
SpaceWhole == BUFFER_SIZE - Len(buf)
SpaceShort == IF Len(buf) >= BUFFER_SIZE - 2 THEN 0 ELSE BUFFER_SIZE - Len(buf) - 2

\* The length that recv() is called with.
Space == BUFFER_SIZE - Len(buf) - 1

\* recv() returns -1 and EAGAIN.
NothingYet ==
    /\ busy /\ unread = <<>> /\ peer = "open"
    /\ busy' = FALSE
    /\ UNCHANGED <<clientVars, socketVars, buf, verdict, name, cgi, spins>>

\* removefd(m_epollfd, m_sockfd) and the end of process().
Finish(v) ==
    /\ conn' = "closed" /\ edge' = FALSE
    /\ busy' = FALSE
    /\ verdict' = v

\* recv() returns 0 or an error: the client has left, or no room was offered.
\* With no room and nothing to read it may return 0 as well as EAGAIN.
ClientGone ==
    /\ busy
    /\ Space = 0 \/ (unread = <<>> /\ peer # "open")
    /\ Finish("gone")
    /\ UNCHANGED <<clientVars, unread, peer, buf, name, cgi, spins>>

\* At fault: the search starts anew with the bytes of this call.
FindLineAnew(old, new) == {n \in LineEnds(new) : n > Len(old) + 1}

\* for(;idx<m_read_idx;idx++): where in the new bytes a line ends, the CR may be
\* one of the old ones.
FindLine(old, new) == {n \in LineEnds(new) : n > Len(old)}

\* access() and fork() succeed: the program runs, the parent closes.
Start(n) == Finish("run") /\ name' = n /\ cgi' = TRUE

\* access() or fork() fails.
Refuse == Finish("refused") /\ UNCHANGED <<name, cgi>>

\* At fault: process() reads once per event.
ReceiveOnce ==
    /\ busy /\ unread # <<>> /\ Space > 0
    /\ LET n == Min({Space, Len(unread)})
           ends == FindLine(buf, buf \o SubSeq(unread, 1, n))
       IN  /\ buf' = buf \o SubSeq(unread, 1, n)
           /\ unread' = SubSeq(unread, n + 1, Len(unread))
           /\ IF ends = {}
              THEN busy' = FALSE /\ UNCHANGED <<conn, edge, verdict, name, cgi>>
              ELSE Start(SubSeq(buf', 1, Min(ends) - 2)) \/ Refuse
    /\ UNCHANGED <<clientVars, peer, spins>>

\* recv() returns bytes: the line, if it ends there, names the program, and
\* bytes behind it are dropped; otherwise process() reads on.
Receive ==
    /\ busy /\ unread # <<>> /\ Space > 0
    /\ LET n == Min({Space, Len(unread)})
           ends == FindLine(buf, buf \o SubSeq(unread, 1, n))
       IN  /\ buf' = buf \o SubSeq(unread, 1, n)
           /\ unread' = SubSeq(unread, n + 1, Len(unread))
           /\ IF ends = {}
              THEN UNCHANGED <<conn, edge, busy, verdict, name, cgi>>
              ELSE Start(SubSeq(buf', 1, Min(ends) - 2)) \/ Refuse
    /\ UNCHANGED <<clientVars, peer, spins>>

\* The program writes to its standard output, the socket.
CgiWrites ==
    /\ cgi /\ answer' = TRUE
    /\ UNCHANGED <<client, stream, rest, socketVars, slotVars, spins>>

\* It ends, which also stands for an execl() that fails.
CgiEnds ==
    /\ cgi /\ cgi' = FALSE
    /\ UNCHANGED <<clientVars, socketVars, busy, buf, verdict, name, spins>>

Process == NothingYet \/ ClientGone \/ Receive

Next == \/ Connect \/ Arrive \/ Leave \/ TestClientReads
        \/ Accept \/ Wake \/ Process \/ Spin
        \/ CgiWrites \/ CgiEnds

\* The network delivers, the child is scheduled and its programs end. Nothing is
\* assumed of accept: the pool may leave a connection in the backlog. Nor does the
\* child come back to epoll_wait for ever: Spin disables Wake.
Fairness == /\ WF_vars(Arrive) /\ WF_vars(TestClientReads)
            /\ WF_vars(Wake) /\ WF_vars(Process) /\ WF_vars(CgiEnds)

Spec == Init /\ [][Next]_vars /\ Fairness

-----------------------------------------------------------------------------
(* Properties *)

\* Types; m_buffer never fills up to the byte that ends the string.
TypeOK ==
    /\ client \in {"none", "test", "other", "done"}
    /\ conn \in {"none", "queued", "open", "closed"}
    /\ peer \in {"open", "fin", "reset"} /\ edge \in BOOLEAN /\ busy \in BOOLEAN
    /\ \A s \in {stream, rest, unread, buf, name} : s \in Seq(Byte) /\ Len(s) <= MaxStream
    /\ answer \in BOOLEAN /\ cgi \in BOOLEAN /\ spins \in BOOLEAN
    /\ verdict \in {"none", "run", "refused", "gone"}
    /\ Len(buf) < BUFFER_SIZE

\* However the stream is cut into pieces and calls, and whatever the last
\* connection has left in the slot, the program that is started is the first
\* line of this client's stream.
FindsRequest ==
    verdict = "run" => LineEnds(stream) # {} /\ name = SubSeq(stream, 1, Min(LineEnds(stream)) - 2)

\* The server gives up a connection only for a reason: a client that has sent
\* its line is not dropped because it left at once, only an overlong line is.
DropsOnlyLineless ==
    verdict = "gone" => /\ LineEnds(buf) = {}
                        /\ \/ Len(buf) = BUFFER_SIZE - 1
                           \/ unread = <<>> /\ peer # "open"

\* Edge-triggered: when the child waits and epoll has no event, all that has
\* arrived is received, the client is there and its line is not complete.
SleepsOnNothing ==
    conn = "open" /\ ~busy /\ ~edge =>
        unread = <<>> /\ peer = "open" /\ LineEnds(buf) = {}

\* The shipped client, once accepted, gets data or the end of the stream: it
\* does not hang in its read(). Only a child that has run into its loop of
\* waitpid before it has handled the request leaves the client waiting; one that
\* does so later does not.
TestClientEnds ==
    client = "test" /\ conn = "open" ~> client = "done" \/ (spins /\ conn = "open")
=============================================================================
