--------------------------- MODULE AtomicCounter ---------------------------
(* What the tests of src/04 promise of a shared counter: every increment is *)
(* one indivisible step, whatever lock or instruction is behind it.         *)
EXTENDS Naturals

CONSTANTS Threads,  \* the threads of a test
          Total     \* increments per thread and test

VARIABLES tests,    \* the tests that are still to be run
          value,    \* the counter
          left      \* left[t]: increments thread t still has to make

vars == <<tests, value, left>>

Fresh == [t \in Threads |-> Total]

Init == tests \in Nat /\ value = 0 /\ left = Fresh

Increment(t) ==
    /\ tests > 0 /\ left[t] > 0
    /\ value' = value + 1
    /\ left' = [left EXCEPT ![t] = @ - 1]
    /\ UNCHANGED tests

\* The next test starts only when every thread has made all its increments.
NextTest ==
    /\ tests > 0 /\ \A t \in Threads : left[t] = 0
    /\ tests' = tests - 1 /\ value' = 0 /\ left' = Fresh

Next == NextTest \/ \E t \in Threads : Increment(t)

Spec == Init /\ [][Next]_vars
=============================================================================
