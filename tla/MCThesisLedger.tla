---------------------------- MODULE MCThesisLedger ----------------------------
(***************************************************************************)
(* Small instances of ThesisLedger for TLC.                                *)
(***************************************************************************)
EXTENDS ThesisLedger

\* All Evidence is about the subject of every Thesis.
OneSubject == Theses \X Evidence
================================================================================
