-------------------------- MODULE MCCircuitBreaker --------------------------
(* Instances of CircuitBreaker for TLC. *)
EXTENDS CircuitBreaker

CONSTANTS c1, c2, c3

MCCallers == {c1, c2, c3}

\* A fresh process, one restored below its limits, and one whose counters
\* already passed the order limit.
MCRestored == {[orders |-> 0, cents |-> 0],
               [orders |-> 2, cents |-> 29],
               [orders |-> 5, cents |-> 10]}
=============================================================================
