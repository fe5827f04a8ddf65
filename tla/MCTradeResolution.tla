-------------------------- MODULE MCTradeResolution ---------------------------
(***************************************************************************)
(* Instances of TradeResolution for TLC.                                   *)
(***************************************************************************)
EXTENDS TradeResolution

CONSTANTS r1, r2, p1, p2, t1, d1, d2

\* One request in each of two processes.
OneEach == [r \in {r1, r2} |-> IF r = r1 THEN p1 ELSE p2]

\* Both decisions concern the one trade.
AllMatch == {<<t1, d1>>, <<t1, d2>>}

OneInstant == {1}
TwoInstants == {1, 2}
===============================================================================
