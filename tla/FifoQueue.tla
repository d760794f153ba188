------------------------------ MODULE FifoQueue ------------------------------
(***************************************************************************)
(* What a queue promises to the threads that use it: elements leave in the *)
(* order they came in, each of them once, and a consumer is told that the  *)
(* queue is empty only when it is.                                         *)
(***************************************************************************)
EXTENDS Sequences, Integers

CONSTANTS Elements, Consumers, Nothing

VARIABLES
  queue,  \* the elements, the oldest first
  result  \* what the latest call of each consumer has got

vars == <<queue, result>>

Init ==
  /\ queue = <<>>
  /\ result = [c \in Consumers |-> Nothing]

Push(e) ==
  /\ queue' = Append(queue, e)
  /\ UNCHANGED result

Pop(c) ==
  /\ queue # <<>>
  /\ queue' = Tail(queue)
  /\ result' = [result EXCEPT ![c] = Head(queue)]

Empty(c) ==
  /\ queue = <<>>
  /\ result' = [result EXCEPT ![c] = Nothing]
  /\ UNCHANGED queue

Next ==
  \/ \E e \in Elements : Push(e)
  \/ \E c \in Consumers : Pop(c) \/ Empty(c)

Spec == Init /\ [][Next]_vars
=============================================================================
