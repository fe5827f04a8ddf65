---------------------------- MODULE VersionArchive ----------------------------
(***************************************************************************)
(* What the segmented reviews promise of their table: a generation holds    *)
(* nothing or one version, complete when it appears and never replaced.     *)
(***************************************************************************)
CONSTANTS Generations, Complete, None

VARIABLE versions

Init == versions = [g \in Generations |-> None]

Append(g) == /\ versions[g] = None
             /\ \E v \in Complete : versions' = [versions EXCEPT ![g] = v]

Next == \E g \in Generations : Append(g)

Spec == Init /\ [][Next]_versions
===============================================================================
