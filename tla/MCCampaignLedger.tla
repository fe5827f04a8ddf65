--------------------------- MODULE MCCampaignLedger ---------------------------
(***************************************************************************)
(* Instances of CampaignLedger for TLC.                                    *)
(***************************************************************************)
EXTENDS CampaignLedger, TLC

CONSTANTS r1, r2, c1, h1, t1

\* The path to CLOSED, and an edge the graph does not have.
ClosingCommands ==
  {<<"DRAFT", "RESEARCHING">>, <<"RESEARCHING", "PRE-ENTRY">>,
   <<"PRE-ENTRY", "ACTIVE">>, <<"ACTIVE", "CLOSED">>, <<"CLOSED", "RESEARCHING">>}

\* The trade buys the security of the one Campaign.
BuysOfOne == {<<t1, c1>>}

\* The Thesis has the Campaign's security and strategy.
OneFit == {<<h1, c1>>}

FourIds == 1 .. 4

\* The two handlers run the same commands.
Handlers == Permutations({r1, r2})
===============================================================================
