--------------------------- MODULE CampaignLifecycle ---------------------------
(***************************************************************************)
(* The lifecycle graph of a Campaign, the one authority every other part   *)
(* of the decision path consults (campaign_store._TRANSITION_GRAPH).       *)
(***************************************************************************)

Statuses == {"DRAFT", "RESEARCHING", "PRE-ENTRY", "ACTIVE", "REDUCING",
             "CLOSED", "REJECTED", "EXPIRED"}

\* Statuses without an outgoing edge; a terminal Campaign takes no new decision.
Terminal == {"CLOSED", "REJECTED", "EXPIRED"}

\* Edges out of each status. Reverse edges and self loops do not exist.
TransitionGraph ==
  [s \in Statuses |->
     CASE s = "DRAFT"       -> {"RESEARCHING", "REJECTED", "EXPIRED"}
       [] s = "RESEARCHING" -> {"PRE-ENTRY", "REJECTED", "EXPIRED"}
       [] s = "PRE-ENTRY"   -> {"ACTIVE", "REJECTED", "EXPIRED"}
       [] s = "ACTIVE"      -> {"REDUCING", "CLOSED"}
       [] s = "REDUCING"    -> {"CLOSED"}
       [] OTHER             -> {}]

\* The edge only the activation command may take: campaign_service refuses it
\* to the generic transition command.
NeedsActivation(from, to) == from = "PRE-ENTRY" /\ to = "ACTIVE"
================================================================================
