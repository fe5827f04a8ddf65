---------------------------- MODULE MCPositionLedger ---------------------------
(* One stock code of one account, one reader and a clock of two instants with  *)
(* one more tolerated ahead of it.                                             *)
EXTENDS PositionLedger
================================================================================
