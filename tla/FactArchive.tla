------------------------------ MODULE FactArchive ------------------------------
(***************************************************************************)
(* What the Fact Lake promises of everything it calls COMMITTED: an item   *)
(* is archived once, and what is read of it is the same for ever, whatever *)
(* process dies and even when the machine does.  FactLake implements it.   *)
(***************************************************************************)
CONSTANTS Items, Contents, Nothing

VARIABLE archived   \* what a verified read of each item returns

Init == archived = [i \in Items |-> Nothing]

\* Item i gets its content; every other item keeps what it has.
Archive(i) ==
  /\ archived[i] = Nothing
  /\ archived'[i] \in Contents
  /\ archived' = [archived EXCEPT ![i] = archived'[i]]

Next == \E i \in Items : Archive(i)

Spec == Init /\ [][Next]_archived
================================================================================
