---------------------------- MODULE CgiConnProofs ----------------------------
(***************************************************************************)
(* Proofs about CgiConn, for a buffer of any size and streams of any       *)
(* length.                                                                 *)
(***************************************************************************)
EXTENDS CgiConn, SequenceTheorems, NatLemmas

(***************************************************************************)
(* Sequences: the beginnings of a stream and the line ends in them.        *)
(***************************************************************************)
Begins(a, s) == Len(a) <= Len(s) /\ \A k \in 1 .. Len(a) : a[k] = s[k]

LEMMA BeginsShorter ==
  ASSUME NEW a \in Seq(Byte), NEW b \in Seq(Byte), NEW s \in Seq(Byte), Begins(a \o b, s)
  PROVE  Begins(a, s)
<1>1. /\ Len(a) \in Nat /\ Len(b) \in Nat /\ Len(s) \in Nat
      /\ Len(a \o b) = Len(a) + Len(b)
      /\ \A k \in 1 .. Len(a) : (a \o b)[k] = a[k]
  BY ConcatProperties, LenProperties
<1> QED
  BY <1>1 DEF Begins

(* A piece that is cut off one sequence and added to the one before it.  *)
LEMMA Moved ==
  ASSUME NEW a \in Seq(Byte), NEW b \in Seq(Byte), NEW n \in 1 .. Len(b)
  PROVE  /\ SubSeq(b, 1, n) \in Seq(Byte) /\ Len(SubSeq(b, 1, n)) = n
         /\ SubSeq(b, n + 1, Len(b)) \in Seq(Byte)
         /\ Len(SubSeq(b, n + 1, Len(b))) = Len(b) - n
         /\ a \o SubSeq(b, 1, n) \in Seq(Byte) /\ Len(a \o SubSeq(b, 1, n)) = Len(a) + n
         /\ (a \o SubSeq(b, 1, n)) \o SubSeq(b, n + 1, Len(b)) = a \o b
<1> DEFINE c == SubSeq(b, 1, n)
           d == SubSeq(b, n + 1, Len(b))
<1>1. Len(b) \in Nat /\ \A k \in 1 .. Len(b) : b[k] \in Byte
  BY LenProperties, ElementOfSeq
<1>2. c \in Seq(Byte) /\ Len(c) = n /\ d \in Seq(Byte) /\ Len(d) = Len(b) - n
  <2>1. c \in Seq(Byte) /\ Len(c) = n
    BY <1>1, SubSeqProperties
  <2>2. n + 1 \in Int /\ Len(b) \in Int /\ \A k \in n + 1 .. Len(b) : b[k] \in Byte
    BY <1>1
  <2>3. d \in Seq(Byte) /\ Len(d) = IF n + 1 <= Len(b) THEN Len(b) - (n + 1) + 1 ELSE 0
    BY <2>2, SubSeqProperties
  <2>4. Len(d) = Len(b) - n
    BY <1>1, <2>3
  <2> QED
    BY <2>1, <2>3, <2>4
<1>3. c \o d = b
  <2>1. /\ 1 \in 1 .. Len(b) + 1 /\ n \in 1 - 1 .. Len(b) /\ Len(b) \in n .. Len(b)
    BY <1>1
  <2>2. c \o d = SubSeq(b, 1, Len(b))
    BY <2>1, ConcatAdjacentSubSeq
  <2> QED
    BY <2>2, SubSeqFull
<1> HIDE DEF c, d
<1>4. (a \o c) \o d = a \o (c \o d)
  <2>1. a \in Seq(Byte) /\ c \in Seq(Byte) /\ d \in Seq(Byte)
    BY <1>2
  <2> QED
    BY <2>1, ConcatAssociative, SMTT(60)
<1>5. a \o c \in Seq(Byte) /\ Len(a \o c) = Len(a) + n
  BY <1>2, ConcatProperties
<1> QED
  BY <1>2, <1>3, <1>4, <1>5 DEF c, d

LEMMA LineEndsOfBeginning ==
  ASSUME NEW a \in Seq(Byte), NEW s \in Seq(Byte), Begins(a, s)
  PROVE  LineEnds(a) = {n \in LineEnds(s) : n <= Len(a)}
<1>1. Len(a) \in Nat /\ Len(s) \in Nat /\ Len(a) <= Len(s)
  BY LenProperties DEF Begins
<1>2. \A n \in 2 .. Len(a) : a[n - 1] = s[n - 1] /\ a[n] = s[n]
  BY <1>1 DEF Begins
<1>3. \A n : n \in LineEnds(a) <=> n \in LineEnds(s) /\ n <= Len(a)
  <2>1. \A n : n \in LineEnds(a) <=> n \in 2 .. Len(a) /\ a[n - 1] = "CR" /\ a[n] = "LF"
    BY DEF LineEnds
  <2>2. \A n : n \in LineEnds(s) <=> n \in 2 .. Len(s) /\ s[n - 1] = "CR" /\ s[n] = "LF"
    BY DEF LineEnds
  <2>3. \A n : n \in 2 .. Len(a) <=> n \in 2 .. Len(s) /\ n <= Len(a)
    BY <1>1
  <2> QED
    BY <1>2, <2>1, <2>2, <2>3
<1> QED
  BY <1>3

(* What is found in the new bytes is the first line end of the stream, if   *)
(* there was none in the old ones.                                          *)
LEMMA FirstLine ==
  ASSUME NEW a \in Seq(Byte), NEW b \in Seq(Byte), NEW s \in Seq(Byte),
         Begins(a \o b, s), LineEnds(a) = {}
  PROVE  /\ FindLine(a, a \o b) = LineEnds(a \o b)
         /\ LineEnds(a \o b) # {} =>
              /\ LineEnds(s) # {}
              /\ Min(LineEnds(a \o b)) = Min(LineEnds(s))
              /\ Min(LineEnds(s)) \in 2 .. Len(a \o b)
              /\ SubSeq(a \o b, 1, Min(LineEnds(s)) - 2) = SubSeq(s, 1, Min(LineEnds(s)) - 2)
<1> DEFINE c == a \o b
<1>1. c \in Seq(Byte) /\ Len(c) \in Nat /\ Len(s) \in Nat /\ Len(a) \in Nat /\ Begins(a, c)
  <2>1. c \in Seq(Byte) /\ Len(c) = Len(a) + Len(b) /\ \A k \in 1 .. Len(a) : c[k] = a[k]
    BY ConcatProperties, LenProperties
  <2>2. Len(a) \in Nat /\ Len(b) \in Nat /\ Len(s) \in Nat
    BY LenProperties
  <2> HIDE DEF c
  <2> QED
    BY <2>1, <2>2 DEF Begins
<1>2. Begins(c, s)
  OBVIOUS
<1> HIDE DEF c
<1>3. \A n \in LineEnds(c) : ~ (n <= Len(a)) /\ n \in Nat
  <2>1. {n \in LineEnds(c) : n <= Len(a)} = {}
    BY <1>1, LineEndsOfBeginning
  <2>2. LineEnds(c) \subseteq Nat
    BY <1>1 DEF LineEnds
  <2> QED
    BY <2>1, <2>2
<1>4. FindLine(a, c) = LineEnds(c)
  BY <1>1, <1>3 DEF FindLine
<1>5. ASSUME LineEnds(c) # {}
      PROVE  /\ LineEnds(s) # {}
             /\ Min(LineEnds(c)) = Min(LineEnds(s))
             /\ Min(LineEnds(s)) \in 2 .. Len(c)
             /\ SubSeq(c, 1, Min(LineEnds(s)) - 2) = SubSeq(s, 1, Min(LineEnds(s)) - 2)
  <2>1. LineEnds(c) = {n \in LineEnds(s) : n <= Len(c)}
    BY <1>1, <1>2, LineEndsOfBeginning
  <2>2. LineEnds(c) \subseteq Nat /\ LineEnds(s) \subseteq Nat /\ LineEnds(s) # {}
    BY <1>1, <1>5, <2>1 DEF LineEnds
  <2>3. PICK m \in LineEnds(s) : m = Min(LineEnds(s)) /\ \A n \in LineEnds(s) : m <= n
    BY <2>2, MinProperty
  <2>4. PICK l \in LineEnds(c) : l = Min(LineEnds(c)) /\ \A n \in LineEnds(c) : l <= n
    BY <1>5, <2>2, MinProperty
  <2>5. m = l
    <3>1. l \in LineEnds(s) /\ l <= Len(c) /\ l \in Nat /\ m \in Nat /\ Len(c) \in Nat
      BY <1>1, <2>1, <2>2
    <3>2. m <= l
      BY <2>3, <3>1
    <3>3. m \in LineEnds(c)
      BY <2>1, <3>1, <3>2
    <3> QED
      BY <2>4, <3>1, <3>2, <3>3
  <2>6. m \in 2 .. Len(c)
    BY <2>5 DEF LineEnds
  <2>7. SubSeq(c, 1, m - 2) = SubSeq(s, 1, m - 2)
    <3>1. m - 2 \in Int /\ 1 .. m - 2 \subseteq 1 .. Len(c) /\ 1 .. m - 2 \subseteq 1 .. Len(s)
      BY <1>1, <1>2, <2>6 DEF Begins
    <3>2. \A k \in 1 .. m - 2 : c[k] \in Byte /\ s[k] \in Byte /\ c[k] = s[k]
      BY <1>1, <1>2, <3>1, ElementOfSeq DEF Begins
    <3>3. /\ SubSeq(c, 1, m - 2) \in Seq(Byte)
          /\ Len(SubSeq(c, 1, m - 2)) = IF 1 <= m - 2 THEN (m - 2) - 1 + 1 ELSE 0
          /\ \A k \in 1 .. (m - 2) - 1 + 1 : SubSeq(c, 1, m - 2)[k] = c[1 + k - 1]
      BY <3>1, <3>2, SubSeqProperties
    <3>4. /\ SubSeq(s, 1, m - 2) \in Seq(Byte)
          /\ Len(SubSeq(s, 1, m - 2)) = IF 1 <= m - 2 THEN (m - 2) - 1 + 1 ELSE 0
          /\ \A k \in 1 .. (m - 2) - 1 + 1 : SubSeq(s, 1, m - 2)[k] = s[1 + k - 1]
      BY <3>1, <3>2, SubSeqProperties
    <3> DEFINE u == SubSeq(c, 1, m - 2)
               v == SubSeq(s, 1, m - 2)
    <3> HIDE DEF u, v
    <3>5. /\ u \in Seq(Byte) /\ v \in Seq(Byte) /\ Len(u) = Len(v)
          /\ Len(u) = IF 1 <= m - 2 THEN m - 2 ELSE 0
      BY <3>1, <3>3, <3>4 DEF u, v
    <3>6. \A k \in 1 .. m - 2 : u[k] = c[k] /\ v[k] = s[k]
      BY <3>1, <3>3, <3>4 DEF u, v
    <3>7. \A k \in 1 .. Len(u) : u[k] = v[k]
      <4>1. 1 .. Len(u) \subseteq 1 .. m - 2
        BY <3>1, <3>5
      <4> QED
        BY <3>2, <3>6, <4>1
    <3>8. u = v
      BY <3>5, <3>7, SeqEqual
    <3> QED
      BY <3>8 DEF u, v
  <2> QED
    BY <2>2, <2>3, <2>4, <2>5, <2>6, <2>7
<1> QED
  BY <1>4, <1>5 DEF c

-----------------------------------------------------------------------------
(***************************************************************************)
(* The invariant: what was received, what waits in the socket and what is  *)
(* under way are together the beginning of the stream, for Leave takes     *)
(* away its end; and a connection that is open has no line in its buffer.  *)
(***************************************************************************)
Received == IF conn = "open" THEN buf ELSE <<>>

InOrder == /\ conn = "none" => rest = <<>>
           /\ conn \in {"queued", "open"} =>
                verdict = "none" /\ Begins(Received \o (unread \o rest), stream)

Undecided == /\ busy => conn = "open"
             /\ conn = "open" => LineEnds(buf) = {}

IInv == TypeOK /\ InOrder /\ Undecided /\ FindsRequest /\ DropsOnlyLineless /\ SleepsOnNothing

(* The sequences of the state, each with its type. *)
Bounded(s) == s \in Seq(Byte) /\ Len(s) \in Nat /\ Len(s) <= MaxStream

LEMMA TypesOfSequences ==
  ASSUME TypeOK
  PROVE  Bounded(stream) /\ Bounded(rest) /\ Bounded(unread) /\ Bounded(buf) /\ Bounded(name)
BY LenProperties DEF TypeOK, Bounded

LEMMA EmptyIsBounded == Bounded(<<>>) /\ Len(<<>>) = 0
BY EmptySeq, CgiConnAssumption DEF Bounded

LEMMA BeginningBounded ==
  ASSUME NEW s, Bounded(s), NEW m \in 2 .. Len(s)
  PROVE  Bounded(SubSeq(s, 1, m - 2))
<1>1. Len(s) \in Nat /\ MaxStream \in Nat /\ m - 2 \in Int /\ \A k \in 1 .. m - 2 : s[k] \in Byte
  BY CgiConnAssumption, ElementOfSeq DEF Bounded
<1>2. /\ SubSeq(s, 1, m - 2) \in Seq(Byte)
      /\ Len(SubSeq(s, 1, m - 2)) = IF 1 <= m - 2 THEN (m - 2) - 1 + 1 ELSE 0
  BY <1>1, SubSeqProperties
<1> QED
  BY <1>1, <1>2 DEF Bounded

(* A stream is one of Byte. *)
LEMMA StreamsBounded == \A s \in Streams \cup TestStreams : Bounded(s)
<1>1. ASSUME NEW s \in Streams
      PROVE  Bounded(s)
  <2>1. PICK m \in 0 .. MaxStream : s \in [1 .. m -> Byte]
    BY DEF Streams, BoundedSeq, SeqOf
  <2>2. m \in Nat /\ MaxStream \in Nat /\ m <= MaxStream
    BY CgiConnAssumption
  <2>3. s \in Seq(Byte) /\ Len(s) = m
    BY <2>1, <2>2
  <2> QED
    BY <2>2, <2>3 DEF Bounded
<1>2. ASSUME NEW s \in TestStreams
      PROVE  Bounded(s)
  <2>1. PICK w \in BoundedSeq({"x"}, MaxStream - 2) : s = w \o <<"CR", "LF">>
    BY DEF TestStreams
  <2>2. PICK m \in 0 .. MaxStream - 2 : w \in [1 .. m -> {"x"}]
    BY DEF BoundedSeq, SeqOf
  <2>3. m \in Nat /\ MaxStream \in Nat /\ m + 2 <= MaxStream
    BY CgiConnAssumption
  <2>4. w \in Seq(Byte) /\ Len(w) = m
    <3>1. w \in [1 .. m -> Byte]
      BY <2>2 DEF Byte
    <3> QED
      BY <2>3, <3>1
  <2>5. <<"CR", "LF">> \in Seq(Byte) /\ Len(<<"CR", "LF">>) = 2
    BY DEF Byte
  <2>6. s \in Seq(Byte) /\ Len(s) = m + 2
    BY <2>1, <2>4, <2>5, ConcatProperties
  <2> QED
    BY <2>3, <2>6 DEF Bounded
<1> QED
  BY <1>1, <1>2

(* With nothing received, the whole stream is under way. *)
LEMMA BeginsItself ==
  ASSUME NEW s \in Seq(Byte)
  PROVE  Begins(<<>> \o (<<>> \o s), s)
<1>1. <<>> \o (<<>> \o s) = s
  BY ConcatEmptySeq
<1>2. Len(s) \in Nat
  BY LenProperties
<1> QED
  BY <1>1, <1>2 DEF Begins

LEMMA NoLineInNothing == LineEnds(<<>>) = {}
BY EmptySeq DEF LineEnds

-----------------------------------------------------------------------------
(***************************************************************************)
(* One step.                                                               *)
(***************************************************************************)
LEMMA Initially == Init => IInv
<1> SUFFICES ASSUME Init PROVE IInv
  OBVIOUS
<1>1. <<>> \in Seq(Byte) /\ Len(<<>>) <= MaxStream /\ Len(<<>>) < BUFFER_SIZE
  BY EmptyIsBounded, CgiConnAssumption DEF Bounded
<1>2. TypeOK
  BY <1>1 DEF Init, TypeOK
<1> QED
  BY <1>2 DEF Init, IInv, InOrder, Undecided, FindsRequest, DropsOnlyLineless, SleepsOnNothing

LEMMA ConnectKeeps == IInv /\ Connect => IInv'
<1> SUFFICES ASSUME IInv, Connect PROVE IInv'
  OBVIOUS
<1>1. TypeOK /\ Bounded(buf)
  BY TypesOfSequences DEF IInv
<1>2. Bounded(stream') /\ client' \in {"test", "other"}
  BY StreamsBounded DEF Connect
<1>3. Bounded(<<>>)
  BY EmptyIsBounded
<1>4. TypeOK'
  BY <1>1, <1>2, <1>3 DEF Connect, TypeOK, Bounded
<1>5. Begins(<<>> \o (<<>> \o stream'), stream')
  BY <1>2, BeginsItself DEF Bounded
<1>6. ~busy
  BY DEF IInv, Undecided, Connect
<1> QED
  BY <1>4, <1>5, <1>6 DEF Connect, IInv, InOrder, Received, Undecided, FindsRequest,
                          DropsOnlyLineless, SleepsOnNothing

LEMMA ArriveKeeps == IInv /\ Arrive => IInv'
<1> SUFFICES ASSUME IInv, Arrive PROVE IInv'
  OBVIOUS
<1>1. TypeOK /\ Bounded(stream) /\ Bounded(rest) /\ Bounded(unread) /\ Bounded(buf) /\ Bounded(name)
  BY TypesOfSequences DEF IInv
<1>2. PICK n \in 1 .. Len(rest) :
        /\ rest' = SubSeq(rest, n + 1, Len(rest))
        /\ unread' = IF conn = "closed" THEN unread ELSE unread \o SubSeq(rest, 1, n)
  BY DEF Arrive
<1>3. /\ rest' \in Seq(Byte) /\ Len(rest') = Len(rest) - n
      /\ unread \o SubSeq(rest, 1, n) \in Seq(Byte)
      /\ Len(unread \o SubSeq(rest, 1, n)) = Len(unread) + n
      /\ (unread \o SubSeq(rest, 1, n)) \o rest' = unread \o rest
  BY <1>1, <1>2, Moved DEF Bounded
<1>4. Bounded(rest')
  <2>1. Len(rest) \in Nat /\ Len(rest) <= MaxStream /\ MaxStream \in Nat /\ n \in 1 .. Len(rest)
    BY <1>1, CgiConnAssumption DEF Bounded
  <2>2. Len(rest) - n \in Nat /\ Len(rest) - n <= MaxStream
    BY <2>1
  <2> QED
    BY <1>3, <2>2 DEF Bounded
<1>5. conn # "none"
  BY DEF IInv, InOrder, Arrive
<1>6. CASE conn = "closed"
  <2>1. unread' = unread
    BY <1>2, <1>6
  <2>2. TypeOK'
    BY <1>1, <1>4, <2>1 DEF Arrive, TypeOK, Bounded, slotVars
  <2> QED
    BY <1>6, <2>1, <2>2 DEF Arrive, IInv, InOrder, Undecided, FindsRequest, DropsOnlyLineless,
                            SleepsOnNothing, slotVars
<1>7. CASE conn # "closed"
  <2>1. unread' = unread \o SubSeq(rest, 1, n)
    BY <1>2, <1>7
  <2>2. conn \in {"queued", "open"} /\ Begins(Received \o (unread \o rest), stream) /\ verdict = "none"
    BY <1>1, <1>5, <1>7 DEF IInv, InOrder, TypeOK
  <2>3. unread' \o rest' = unread \o rest
    BY <1>3, <2>1
  <2>4. Bounded(unread')
    <3>1. Received \in Seq(Byte)
      BY <1>1, EmptyIsBounded DEF Received, Bounded
    <3>2. unread \o rest \in Seq(Byte) /\ Len(unread \o rest) = Len(unread) + Len(rest)
      BY <1>1, ConcatProperties DEF Bounded
    <3>3. /\ Len(Received \o (unread \o rest)) = Len(Received) + Len(unread \o rest)
          /\ Len(Received) \in Nat
      BY <3>1, <3>2, ConcatProperties, LenProperties
    <3>4. Len(Received \o (unread \o rest)) <= Len(stream)
      BY <2>2 DEF Begins
    <3>5. /\ Len(unread) \in Nat /\ Len(rest) \in Nat /\ Len(stream) <= MaxStream
          /\ Len(stream) \in Nat /\ MaxStream \in Nat
      BY <1>1, CgiConnAssumption DEF Bounded
    <3>6. Len(unread) + n \in Nat /\ Len(unread) + n <= MaxStream
      BY <3>2, <3>3, <3>4, <3>5
    <3> QED
      BY <1>3, <2>1, <3>6 DEF Bounded
  <2>5. TypeOK'
    BY <1>1, <1>4, <2>4 DEF Arrive, TypeOK, Bounded, slotVars
  <2>6. Begins(Received \o (unread' \o rest'), stream) /\ Received' = Received
    BY <2>2, <2>3 DEF Arrive, Received, slotVars
  <2> QED
    BY <2>2, <2>5, <2>6 DEF Arrive, IInv, InOrder, Undecided, FindsRequest, DropsOnlyLineless,
                            SleepsOnNothing, slotVars
<1> QED
  BY <1>6, <1>7

LEMMA LeaveKeeps == IInv /\ Leave => IInv'
<1> SUFFICES ASSUME IInv, Leave PROVE IInv'
  OBVIOUS
<1>1. TypeOK /\ Bounded(stream) /\ Bounded(rest) /\ Bounded(unread) /\ Bounded(buf) /\ Bounded(name)
  BY TypesOfSequences DEF IInv
<1>2. Bounded(<<>>)
  BY EmptyIsBounded
<1>3. TypeOK'
  BY <1>1, <1>2 DEF Leave, TypeOK, Bounded, slotVars
<1>4. ASSUME Begins(Received \o (unread \o rest), stream)
      PROVE  Begins(Received \o (unread \o <<>>), stream)
  <2>1. Received \in Seq(Byte) /\ unread \in Seq(Byte) /\ rest \in Seq(Byte) /\ stream \in Seq(Byte)
    BY <1>1, <1>2 DEF Received, Bounded
  <2>2. Received \o (unread \o rest) = (Received \o unread) \o rest
    <3> DEFINE a == Received
    <3>1. a \in Seq(Byte) /\ unread \in Seq(Byte) /\ rest \in Seq(Byte)
      BY <2>1
    <3> HIDE DEF a
    <3>2. (a \o unread) \o rest = a \o (unread \o rest)
      BY <3>1, ConcatAssociative
    <3> QED
      BY <3>2 DEF a
  <2>3. Received \o unread \in Seq(Byte) /\ unread \o <<>> = unread
    BY <2>1, ConcatProperties, ConcatEmptySeq
  <2>4. Begins((Received \o unread) \o rest, stream)
    BY <1>4, <2>2
  <2>5. Begins(Received \o unread, stream)
    BY <2>1, <2>3, <2>4, BeginsShorter
  <2> QED
    BY <2>3, <2>5
<1>5. Received' = Received
  BY DEF Leave, Received, slotVars
<1>6. InOrder'
  BY <1>4, <1>5 DEF IInv, InOrder, Leave, slotVars
<1> QED
  BY <1>3, <1>6 DEF Leave, IInv, Undecided, FindsRequest, DropsOnlyLineless, SleepsOnNothing, slotVars

LEMMA AcceptKeeps == IInv /\ Accept => IInv'
<1> SUFFICES ASSUME IInv, Accept PROVE IInv'
  OBVIOUS
<1>1. TypeOK /\ Bounded(stream) /\ Bounded(rest) /\ Bounded(unread) /\ Bounded(buf) /\ Bounded(name)
  BY TypesOfSequences DEF IInv
<1>2. Bounded(<<>>) /\ Len(<<>>) < BUFFER_SIZE /\ LineEnds(<<>>) = {}
  BY EmptyIsBounded, NoLineInNothing, CgiConnAssumption
<1>3. TypeOK'
  BY <1>1, <1>2 DEF Accept, TypeOK, Bounded, clientVars
<1>4. verdict = "none" /\ Begins(<<>> \o (unread \o rest), stream) /\ ~busy
  BY DEF IInv, InOrder, Undecided, Received, Accept
<1>5. InOrder'
  BY <1>4 DEF InOrder, Received, Accept, clientVars
<1> QED
  BY <1>1, <1>2, <1>3, <1>4, <1>5 DEF Accept, IInv, TypeOK, Undecided, FindsRequest,
                                      DropsOnlyLineless, SleepsOnNothing, clientVars

LEMMA ReceiveKeeps == IInv /\ Receive => IInv'
<1> SUFFICES ASSUME IInv, Receive PROVE IInv'
  OBVIOUS
<1>1. TypeOK /\ Bounded(stream) /\ Bounded(rest) /\ Bounded(unread) /\ Bounded(buf) /\ Bounded(name)
  BY TypesOfSequences DEF IInv
<1>2. /\ conn = "open" /\ busy /\ verdict = "none" /\ LineEnds(buf) = {}
      /\ Begins(buf \o (unread \o rest), stream)
  BY DEF IInv, InOrder, Undecided, Received, Receive
<1> DEFINE n == Min({Space, Len(unread)})
           c == SubSeq(unread, 1, n)
           ends == FindLine(buf, buf \o c)
<1>3. /\ buf' = buf \o c
      /\ unread' = SubSeq(unread, n + 1, Len(unread))
      /\ \/ ends = {} /\ UNCHANGED <<conn, edge, busy, verdict, name, cgi>>
         \/ ends # {} /\ Start(SubSeq(buf', 1, Min(ends) - 2))
         \/ ends # {} /\ Refuse
      /\ UNCHANGED <<client, stream, rest, answer, peer, spins>>
  BY DEF Receive, clientVars
<1>4. n \in 1 .. Len(unread) /\ n <= Space
  <2>1. Space \in Nat /\ Space > 0
    BY <1>1, CgiConnAssumption DEF Receive, Space, TypeOK, Bounded
  <2>2. Len(unread) \in Nat /\ Len(unread) > 0
    BY <1>1, EmptySeq DEF Receive, Bounded
  <2> QED
    BY <2>1, <2>2, MinOfTwo
<1>5. /\ c \in Seq(Byte) /\ unread' \in Seq(Byte) /\ Len(unread') = Len(unread) - n
      /\ buf' \in Seq(Byte) /\ Len(buf') = Len(buf) + n
      /\ buf' \o unread' = buf \o unread
  <2> HIDE DEF n
  <2> QED
    BY <1>1, <1>3, <1>4, Moved DEF Bounded
<1> HIDE DEF n, c
<1>6. Begins(buf' \o (unread' \o rest), stream)
  <2>1. /\ buf \in Seq(Byte) /\ unread \in Seq(Byte) /\ rest \in Seq(Byte)
    BY <1>1 DEF Bounded
  <2>2. (buf \o unread) \o rest = buf \o (unread \o rest)
    BY <2>1, ConcatAssociative
  <2>3. ASSUME NEW b \in Seq(Byte), NEW u \in Seq(Byte), b \o u = buf \o unread
        PROVE  b \o (u \o rest) = buf \o (unread \o rest)
    <3>1. (b \o u) \o rest = b \o (u \o rest)
      BY <2>1, ConcatAssociative
    <3> QED
      BY <2>2, <2>3, <3>1
  <2>4. buf' \o (unread' \o rest) = buf \o (unread \o rest)
    BY <1>5, <2>3
  <2> QED
    BY <1>2, <2>4
<1>7. Begins(buf', stream)
  <2>1. ASSUME NEW b \in Seq(Byte), NEW u \in Seq(Byte), Begins(b \o (u \o rest), stream)
        PROVE  Begins(b, stream)
    <3>1. u \o rest \in Seq(Byte) /\ stream \in Seq(Byte)
      BY <1>1, ConcatProperties DEF Bounded
    <3> QED
      BY <2>1, <3>1, BeginsShorter
  <2> QED
    BY <1>5, <1>6, <2>1
<1>8. Bounded(unread') /\ Bounded(buf') /\ Len(buf') < BUFFER_SIZE
  <2>1. /\ Len(unread) \in Nat /\ Len(unread) <= MaxStream /\ MaxStream \in Nat /\ Len(buf) \in Nat
        /\ Len(stream) \in Nat /\ Len(stream) <= MaxStream /\ BUFFER_SIZE \in Nat
    BY <1>1, CgiConnAssumption DEF Bounded
  <2>2. Len(unread) - n \in Nat /\ Len(unread) - n <= MaxStream
    BY <1>4, <2>1
  <2>3. Len(buf) + n \in Nat /\ Len(buf) + n < BUFFER_SIZE
    BY <1>4, <2>1 DEF Space
  <2>4. Len(buf') <= MaxStream
    BY <1>5, <1>7, <2>1, <2>3 DEF Begins
  <2> QED
    BY <1>5, <2>2, <2>3, <2>4 DEF Bounded
<1>9. /\ ends = LineEnds(buf')
      /\ ends # {} => /\ LineEnds(stream) # {} /\ Min(ends) = Min(LineEnds(stream))
                      /\ Min(ends) \in 2 .. Len(buf')
                      /\ SubSeq(buf', 1, Min(ends) - 2) = SubSeq(stream, 1, Min(LineEnds(stream)) - 2)
  <2>1. buf \in Seq(Byte) /\ stream \in Seq(Byte) /\ Begins(buf \o c, stream)
    BY <1>1, <1>3, <1>7 DEF Bounded
  <2>2. /\ ends = LineEnds(buf \o c)
        /\ LineEnds(buf \o c) # {} =>
             /\ LineEnds(stream) # {}
             /\ Min(LineEnds(buf \o c)) = Min(LineEnds(stream))
             /\ Min(LineEnds(stream)) \in 2 .. Len(buf \o c)
             /\ SubSeq(buf \o c, 1, Min(LineEnds(stream)) - 2)
                  = SubSeq(stream, 1, Min(LineEnds(stream)) - 2)
    BY <1>2, <1>5, <2>1, FirstLine
  <2> HIDE DEF ends
  <2> QED
    BY <1>3, <2>2
<1> HIDE DEF ends
<1>10. CASE ends = {} /\ UNCHANGED <<conn, edge, busy, verdict, name, cgi>>
  <2>1. TypeOK'
    BY <1>1, <1>3, <1>8, <1>10 DEF TypeOK, Bounded
  <2> QED
    BY <1>2, <1>3, <1>6, <1>9, <1>10, <2>1 DEF IInv, InOrder, Received, Undecided, FindsRequest,
                                               DropsOnlyLineless, SleepsOnNothing
<1>11. CASE ends # {} /\ Start(SubSeq(buf', 1, Min(ends) - 2))
  <2>1. Bounded(name') /\ name' = SubSeq(stream, 1, Min(LineEnds(stream)) - 2)
    <3>1. name' = SubSeq(buf', 1, Min(ends) - 2) /\ Min(ends) \in 2 .. Len(buf')
      BY <1>9, <1>11 DEF Start
    <3>2. Bounded(name')
      BY <1>8, <3>1, BeginningBounded
    <3> QED
      BY <1>9, <1>11, <3>1, <3>2
  <2>2. TypeOK'
    BY <1>1, <1>3, <1>8, <1>11, <2>1 DEF TypeOK, Bounded, Start, Finish
  <2> QED
    BY <1>3, <1>9, <1>11, <2>1, <2>2 DEF Start, Finish, IInv, InOrder, Undecided, FindsRequest,
                                         DropsOnlyLineless, SleepsOnNothing
<1>12. CASE ends # {} /\ Refuse
  <2>1. TypeOK'
    BY <1>1, <1>3, <1>8, <1>12 DEF TypeOK, Bounded, Refuse, Finish
  <2> QED
    BY <1>3, <1>12, <2>1 DEF Refuse, Finish, IInv, InOrder, Undecided, FindsRequest,
                             DropsOnlyLineless, SleepsOnNothing
<1> QED
  BY <1>3, <1>10, <1>11, <1>12

LEMMA StepKeeps == IInv /\ [Next]_vars => IInv'
<1> SUFFICES ASSUME IInv, [Next]_vars PROVE IInv'
  OBVIOUS
<1>1. TypeOK /\ Bounded(stream) /\ Bounded(rest) /\ Bounded(unread) /\ Bounded(buf) /\ Bounded(name)
  BY TypesOfSequences DEF IInv
<1>2. CASE Connect
  BY <1>2, ConnectKeeps
<1>3. CASE Arrive
  BY <1>3, ArriveKeeps
<1>4. CASE Leave
  BY <1>4, LeaveKeeps
<1>5. CASE TestClientReads
  BY <1>5 DEF TestClientReads, IInv, TypeOK, InOrder, Received, Undecided, FindsRequest,
              DropsOnlyLineless, SleepsOnNothing, slotVars
<1>6. CASE Accept
  BY <1>6, AcceptKeeps
<1>7. CASE Wake
  BY <1>7 DEF Wake, IInv, TypeOK, InOrder, Received, Undecided, FindsRequest,
              DropsOnlyLineless, SleepsOnNothing, clientVars
<1>8. CASE NothingYet
  BY <1>8 DEF NothingYet, IInv, TypeOK, InOrder, Received, Undecided, FindsRequest,
              DropsOnlyLineless, SleepsOnNothing, clientVars, socketVars
<1>9. CASE ClientGone
  <2>1. Len(buf) \in Nat /\ BUFFER_SIZE \in Nat
    BY <1>1, CgiConnAssumption DEF Bounded
  <2>2. Space = 0 => Len(buf) = BUFFER_SIZE - 1
    BY <2>1 DEF Space
  <2>3. TypeOK'
    BY <1>1, <1>9 DEF ClientGone, Finish, TypeOK, clientVars
  <2> QED
    BY <1>9, <2>2, <2>3 DEF ClientGone, Finish, IInv, InOrder, Undecided, FindsRequest,
                            DropsOnlyLineless, SleepsOnNothing, clientVars
<1>10. CASE Receive
  BY <1>10, ReceiveKeeps
<1>11. CASE CgiWrites
  BY <1>11 DEF CgiWrites, IInv, TypeOK, InOrder, Received, Undecided, FindsRequest,
               DropsOnlyLineless, SleepsOnNothing, socketVars, slotVars
<1>12. CASE CgiEnds
  <2>1. TypeOK'
    BY <1>1, <1>12 DEF CgiEnds, TypeOK, clientVars, socketVars
  <2> QED
    BY <1>12, <2>1 DEF CgiEnds, IInv, InOrder, Received, Undecided, FindsRequest,
                       DropsOnlyLineless, SleepsOnNothing, clientVars, socketVars
<1>14. CASE Spin
  BY <1>14 DEF Spin, IInv, TypeOK, InOrder, Received, Undecided, FindsRequest,
               DropsOnlyLineless, SleepsOnNothing, clientVars, socketVars, slotVars
<1>13. CASE UNCHANGED vars
  BY <1>13 DEF vars, clientVars, socketVars, slotVars, IInv, TypeOK, InOrder, Received, Undecided,
               FindsRequest, DropsOnlyLineless, SleepsOnNothing
<1> QED
  BY <1>2, <1>3, <1>4, <1>5, <1>6, <1>7, <1>8, <1>9, <1>10, <1>11, <1>12, <1>13, <1>14 DEF Next, Process

LEMMA Invariant == Spec => []IInv
BY Initially, StepKeeps, PTL DEF Spec

-----------------------------------------------------------------------------
(***************************************************************************)
(* The theorems.                                                           *)
(***************************************************************************)

\* m_read_idx stays below BUFFER_SIZE, so that the 0 behind the last byte, which
\* recv() was not allowed to overwrite, is always there.
THEOREM TypeCorrect == Spec => []TypeOK
<1>1. IInv => TypeOK
  BY DEF IInv
<1> QED
  BY <1>1, Invariant, PTL

\* Whatever the pieces the stream comes in and whatever the slot held before,
\* the program process() starts is named by the first line of the stream.
THEOREM RequestFound == Spec => []FindsRequest
<1>1. IInv => FindsRequest
  BY DEF IInv
<1> QED
  BY <1>1, Invariant, PTL

\* process() gives a connection up only when its buffer is full without a line,
\* or when all that arrived is received and the client is gone.
THEOREM OnlyLinelessDropped == Spec => []DropsOnlyLineless
<1>1. IInv => DropsOnlyLineless
  BY DEF IInv
<1> QED
  BY <1>1, Invariant, PTL

\* Between two events nothing is left unread: the loop around recv() empties the
\* socket before process() ends, as an edge-triggered descriptor needs.
THEOREM NothingSleptOn == Spec => []SleepsOnNothing
<1>1. IInv => SleepsOnNothing
  BY DEF IInv
<1> QED
  BY <1>1, Invariant, PTL
=============================================================================
