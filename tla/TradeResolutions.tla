--------------------------- MODULE TradeResolutions ----------------------------
(***************************************************************************)
(* What the resolution of trades promises, whatever process writes it: a   *)
(* trade is resolved once, while it stands, and for ever.  TradeResolution *)
(* implements it.                                                          *)
(***************************************************************************)
CONSTANTS Trades, Decisions, Unresolved

VARIABLES
  resolution,   \* a decision, "UNPLANNED", or Unresolved
  standing      \* executed trades that are not voided

vars == <<resolution, standing>>

Init ==
  /\ resolution = [t \in Trades |-> Unresolved]
  /\ standing = {}

Execute(t) ==
  /\ standing' = standing \union {t}
  /\ UNCHANGED resolution

Void(t) ==
  /\ standing' = standing \ {t}
  /\ UNCHANGED resolution

Resolve(t) ==
  /\ t \in standing
  /\ resolution[t] = Unresolved
  /\ \E v \in Decisions \union {"UNPLANNED"} :
       resolution' = [resolution EXCEPT ![t] = v]
  /\ UNCHANGED standing

Next == \E t \in Trades : Execute(t) \/ Void(t) \/ Resolve(t)

Spec == Init /\ [][Next]_vars
================================================================================
