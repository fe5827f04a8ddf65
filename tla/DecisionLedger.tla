---------------------------- MODULE DecisionLedger -----------------------------
(***************************************************************************)
(* What the Frozen Decision ledger promises, whatever process writes it:   *)
(* an append-only history in commit order, with one row per proposal, that *)
(* never grows for a Campaign which has reached a terminal status.         *)
(* DecisionCommit implements it.                                           *)
(***************************************************************************)
EXTENDS Naturals, Sequences

CONSTANT Campaigns

VARIABLES
  rows,   \* sequence of [marker, committedAt, ...]; marker names the proposal
  open,   \* Campaigns that may still receive a decision
  now     \* the clock decisions are stamped with

vars == <<rows, open, now>>

Init ==
  /\ rows = <<>>
  /\ open = Campaigns
  /\ now \in Nat

\* The row that would be added by this step.
NewRow == rows'[Len(rows) + 1]

Record ==
  /\ Len(rows') = Len(rows) + 1
  /\ rows' = Append(rows, NewRow)
  /\ NewRow.marker.campaign \in open
  /\ \A i \in 1 .. Len(rows) :
       /\ rows[i].marker # NewRow.marker
       /\ rows[i].committedAt <= NewRow.committedAt
  /\ NewRow.committedAt <= now
  /\ UNCHANGED <<open, now>>

\* A terminal status is never left, so a closed Campaign stays closed.
Close ==
  /\ open' \subseteq open
  /\ UNCHANGED <<rows, now>>

Tick ==
  /\ now' > now
  /\ UNCHANGED <<rows, open>>

Next == Record \/ Close \/ Tick

Spec == Init /\ [][Next]_vars
================================================================================
