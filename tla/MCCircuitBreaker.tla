-------------------------- MODULE MCCircuitBreaker --------------------------
(* Instances of CircuitBreaker: callers of one replica and of another.     *)
EXTENDS CircuitBreaker

CONSTANTS r1, r2, c1, c2, c3

MCOneEach == [c \in Caller |-> IF c = c1 THEN r1 ELSE r2]
MCTwoAndOne == [c \in Caller |-> IF c = c3 THEN r2 ELSE r1]
=============================================================================
