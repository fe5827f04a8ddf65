------------------------------ MODULE MCFactLake -------------------------------
(***************************************************************************)
(* A small instance of FactLake for TLC.                                   *)
(***************************************************************************)
EXTENDS FactLake

CONSTANTS r1, r2, p1, p2, o1, o2, v1, v2, q1, q2, k1

\* One request in each of two processes.
OneEach == [r \in {r1, r2} |-> IF r = r1 THEN p1 ELSE p2]

\* Each payload is a canonical state of its own, both of one key; two observations
\* of one payload are two sources of one publication.
StateOfPayload == [v \in {v1, v2} |-> IF v = v1 THEN q1 ELSE q2]
OneKey == [q \in {q1, q2} |-> k1]
================================================================================
