----------------------------- MODULE MCTaskStream -----------------------------
(***************************************************************************)
(* An instance of TaskStream for TLC.                                       *)
(***************************************************************************)
EXTENDS TaskStream, TLC

CONSTANTS s1, a1
===============================================================================
