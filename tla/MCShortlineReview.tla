--------------------------- MODULE MCShortlineReview ---------------------------
(***************************************************************************)
(* Instances of ShortlineReview for TLC.                                    *)
(***************************************************************************)
EXTENDS ShortlineReview, TLC

CONSTANTS r1, r2, r3, g1, b1, b2

\* Both states of the materials have evidence for the one section.
BothPopulated == b1 :> {1} @@ b2 :> {1}
===============================================================================
