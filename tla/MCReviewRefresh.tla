---------------------------- MODULE MCReviewRefresh ----------------------------
(***************************************************************************)
(* A small instance of ReviewRefresh for TLC.                              *)
(***************************************************************************)
EXTENDS ReviewRefresh, TLC

CONSTANTS r1, r2, r3, w1

\* Requests are interchangeable, and so are workers.
Interchangeable == Permutations(Requests) \cup Permutations(Workers)
================================================================================
