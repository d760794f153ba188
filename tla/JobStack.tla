------------------------------- MODULE JobStack -------------------------------
(***************************************************************************)
(* What a thread pool promises to its caller: a job that was submitted     *)
(* waits, is started once, the newest waiting job first, and is finished   *)
(* once; closing the pool discards the jobs that wait, and none is started *)
(* afterwards.                                                             *)
(***************************************************************************)
EXTENDS Sequences, Integers

CONSTANT Jobs

VARIABLES
  stack,    \* the jobs that wait, the newest first
  running,  \* the jobs that were started and have not finished
  finished, \* the jobs that finished
  open      \* the pool accepts jobs

vars == <<stack, running, finished, open>>

Waiting == {stack[k] : k \in 1 .. Len(stack)}

Init ==
  /\ stack = <<>>
  /\ running = {}
  /\ finished = {}
  /\ open = TRUE

Submit(j) ==
  /\ open
  /\ j \notin Waiting \cup running \cup finished
  /\ stack' = <<j>> \o stack
  /\ UNCHANGED <<running, finished, open>>

Start ==
  /\ stack # <<>>
  /\ Head(stack) \notin running \cup finished
  /\ running' = running \cup {Head(stack)}
  /\ stack' = Tail(stack)
  /\ UNCHANGED <<finished, open>>

Finish(j) ==
  /\ j \in running
  /\ j \notin finished
  /\ running' = running \ {j}
  /\ finished' = finished \cup {j}
  /\ UNCHANGED <<stack, open>>

Close ==
  /\ open
  /\ open' = FALSE
  /\ stack' = <<>>
  /\ UNCHANGED <<running, finished>>

Next ==
  \/ \E j \in Jobs : Submit(j) \/ Finish(j)
  \/ Start
  \/ Close

Spec == Init /\ [][Next]_vars
=============================================================================
