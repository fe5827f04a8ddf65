--------------------------- MODULE MCDecisionCommit ---------------------------
(***************************************************************************)
(* Instances of DecisionCommit for TLC.                                    *)
(***************************************************************************)
EXTENDS DecisionCommit, TLC

CONSTANTS r1, r2, b1, b2, c1, d1

\* Two handlers in two processes: only the Campaign reservation orders them.
TwoBackends == r1 :> b1 @@ r2 :> b2
\* Two handlers of one process, which also share _COMMIT_LOCK.
OneBackend == r1 :> b1 @@ r2 :> b1

\* The second handler only commits; without a challenge there is no BUY row.
ServeRace == r1 :> Kinds @@ r2 :> {"commit"}
ServePair == r1 :> {"preview", "commit"} @@ r2 :> {"commit"}

ReviewAtTwo   == d1 :> 2
ReviewAtThree == d1 :> 3
===============================================================================
