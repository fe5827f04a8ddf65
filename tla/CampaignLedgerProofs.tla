-------------------------- MODULE CampaignLedgerProofs -------------------------
(***************************************************************************)
(* Proofs about CampaignLedger for every set of handlers, Campaigns,       *)
(* Theses and trades and every bound.                                      *)
(***************************************************************************)
EXTENDS CampaignLedger, SequenceTheorems, FiniteSetTheorems, TLAPS

(***************************************************************************)
(* The types.                                                              *)
(***************************************************************************)
LEMMA IdleType == IdleRequest \in RequestStates /\ IdleRequest.pc = "idle"
BY DEF IdleRequest, RequestStates, Statuses

\* A handler's update keeps the type of req.
LEMMA ReqType ==
  ASSUME TypeOK, NEW r \in Requests, NEW q \in RequestStates,
         q.pc # "idle" => q.campaign \in Campaigns,
         req' = [req EXCEPT ![r] = q]
  PROVE  /\ req' \in [Requests -> RequestStates]
         /\ \A s \in Requests : ~At(s, "idle")' => req'[s].campaign \in Campaigns
BY DEF TypeOK, At

HandlersTyped ==
  /\ req \in [Requests -> RequestStates]
  /\ \A r \in Requests : ~At(r, "idle") => req[r].campaign \in Campaigns

LEMMA DoneType ==
  ASSUME TypeOK, NEW r \in Requests, Done(r)
  PROVE  HandlersTyped'
<1>1. req' = [req EXCEPT ![r] = IdleRequest]
  BY DEF Done
<1> QED BY <1>1, IdleType, ReqType DEF HandlersTyped

LEMMA GotoType ==
  ASSUME TypeOK, NEW r \in Requests, ~At(r, "idle"),
         NEW pc \in {"attribution", "position", "stamp"}, Goto(r, pc)
  PROVE  HandlersTyped'
<1> DEFINE q == [req[r] EXCEPT !.pc = pc]
<1>1. req[r] \in RequestStates /\ req[r].campaign \in Campaigns
  BY DEF TypeOK
<1>2. q \in RequestStates /\ q.campaign \in Campaigns
  BY <1>1 DEF RequestStates
<1>3. req' = [req EXCEPT ![r] = q]
  BY DEF Goto
<1> HIDE DEF q
<1> QED BY <1>2, <1>3, ReqType DEF HandlersTyped

\* The request a stamped transition leaves behind.
Stamped(c, from, to, id) ==
  [IdleRequest EXCEPT !.pc = "persist", !.campaign = c, !.from = from,
                      !.to = to, !.at = clock, !.id = id]

LEMMA StampShape ==
  ASSUME NEW r \in Requests, NEW c, NEW from, NEW to, Stamp(r, c, from, to)
  PROVE  \E id \in Ids : req' = [req EXCEPT ![r] = Stamped(c, from, to, id)]
BY DEF Stamp, Stamped

LEMMA StampedFields ==
  ASSUME NEW c, NEW from, NEW to, NEW id
  PROVE  LET q == Stamped(c, from, to, id) IN
         /\ q.pc = "persist" /\ q.campaign = c /\ q.from = from /\ q.to = to
         /\ q.at = clock /\ q.id = id
BY DEF Stamped, IdleRequest

LEMMA StampType ==
  ASSUME TypeOK, NEW r \in Requests, NEW c \in Campaigns, NEW from \in Statuses,
         NEW to \in Statuses, Stamp(r, c, from, to)
  PROVE  HandlersTyped'
<1>1. PICK id \in Ids : req' = [req EXCEPT ![r] = Stamped(c, from, to, id)]
  BY StampShape
<1>2. Stamped(c, from, to, id) \in RequestStates
  BY IdleType, IdsAssumption DEF Stamped, RequestStates, IdleRequest, TypeOK
<1>3. Stamped(c, from, to, id).campaign \in Campaigns
  BY StampedFields
<1> QED BY <1>1, <1>2, <1>3, ReqType DEF HandlersTyped

\* The shared state is well typed.
SharedTyped ==
  /\ clock \in Nat
  /\ status \in [Campaigns -> Statuses \union {"ABSENT"}]
  /\ audit \in [Campaigns -> Seq(Rows)]
  /\ binding \in [Campaigns -> [thesis : Theses, revision : Nat] \union {None}]
  /\ thesis \in [Theses -> [formal : {"draft", "confirmed", "frozen"}, archived : BOOLEAN,
                            revision : Nat, frozenAt : Nat]]
  /\ trade \in [Trades -> [state : {"absent", "executed", "voided"},
                           campaign : Campaigns \union {None}, addsRisk : BOOLEAN]]
  /\ held \subseteq Campaigns

LEMMA TypeSplit == TypeOK <=> SharedTyped /\ HandlersTyped
BY DEF TypeOK, SharedTyped, HandlersTyped

LEMMA InitType == Init => TypeOK
<1> SUFFICES ASSUME Init PROVE TypeOK
  OBVIOUS
<1>1. audit \in [Campaigns -> Seq(Rows)]
  BY EmptySeq DEF Init
<1>2. HandlersTyped
  BY IdleType DEF Init, HandlersTyped, At
<1> QED BY <1>1, <1>2, TypeSplit DEF Init, SharedTyped

\* The steps of a handler, whatever they write elsewhere.
LEMMA BeginType ==
  ASSUME TypeOK, NEW r \in Requests, Begin(r)
  PROVE  HandlersTyped' /\ UNCHANGED <<clock, status, audit, binding, authorities>>
<1>1. PICK c \in Campaigns :
        \/ \E m \in Commands : RequestTransition(r, c, m[1], m[2])
        \/ \E t \in Trades : RequestActivation(r, c, t)
        \/ \E t \in Theses : RequestBinding(r, c, t)
  BY DEF Begin
<1>2. CASE \E m \in Commands : RequestTransition(r, c, m[1], m[2])
  <2>1. PICK m \in Commands : RequestTransition(r, c, m[1], m[2])
    BY <1>2
  <2>2. m[1] \in Statuses /\ m[2] \in Statuses
    BY CommandsAssumption
  <2> QED BY <2>1, <2>2, StampType DEF RequestTransition
<1>3. CASE \E t \in Trades : RequestActivation(r, c, t)
  <2>1. PICK t \in Trades : RequestActivation(r, c, t)
    BY <1>3
  <2> DEFINE q == [IdleRequest EXCEPT !.pc = "trade", !.campaign = c, !.trade = t]
  <2>2. q \in RequestStates /\ q.campaign \in Campaigns
    BY IdleType DEF IdleRequest, RequestStates
  <2>3. req' = [req EXCEPT ![r] = q]
    BY <2>1 DEF RequestActivation
  <2> HIDE DEF q
  <2> QED BY <2>1, <2>2, <2>3, ReqType DEF HandlersTyped, RequestActivation
<1>4. CASE \E t \in Theses : RequestBinding(r, c, t)
  <2>1. PICK t \in Theses : RequestBinding(r, c, t)
    BY <1>4
  <2> DEFINE q == [IdleRequest EXCEPT !.pc = "thesis", !.campaign = c, !.thesis = t]
  <2>2. q \in RequestStates /\ q.campaign \in Campaigns
    BY IdleType DEF IdleRequest, RequestStates
  <2>3. req' = [req EXCEPT ![r] = q]
    BY <2>1 DEF RequestBinding
  <2> HIDE DEF q
  <2> QED BY <2>1, <2>2, <2>3, ReqType DEF HandlersTyped, RequestBinding
<1> QED BY <1>1, <1>2, <1>3, <1>4

\* What a Check may do.
LEMMA CheckType ==
  ASSUME TypeOK, NEW r \in Requests, NEW pc \in {"trade", "attribution", "position"},
         NEW passed, NEW next \in {"attribution", "position", "stamp"},
         Check(r, pc, passed, next)
  PROVE  HandlersTyped' /\ UNCHANGED <<clock, status, audit, binding, authorities>>
<1>1. ~At(r, "idle")
  BY DEF Check, At
<1>2. Goto(r, next) \/ Done(r)
  BY DEF Check
<1> QED BY <1>1, <1>2, GotoType, DoneType DEF Check

LEMMA ThesisRevisionType ==
  ASSUME TypeOK, NEW t \in Theses
  PROVE  thesis[t].revision \in Nat
BY DEF TypeOK

LEMMA ReadThesisType ==
  ASSUME TypeOK, BindingChecked, NEW r \in Requests, ReadThesis(r)
  PROVE  HandlersTyped' /\ UNCHANGED <<clock, status, audit, binding, authorities>>
<1>1. UNCHANGED <<clock, status, audit, binding, authorities>>
  BY DEF ReadThesis
<1>2. CASE Done(r)
  BY <1>1, <1>2, DoneType
<1>3. CASE ~Done(r)
  <2> DEFINE q == [req[r] EXCEPT !.pc = "bind", !.revision = thesis[req[r].thesis].revision]
  <2>1. req' = [req EXCEPT ![r] = q]
    BY <1>3 DEF ReadThesis
  <2>2. req[r] \in RequestStates /\ req[r].campaign \in Campaigns
    BY DEF TypeOK, ReadThesis, At
  <2>3. req[r].thesis \in Theses
    BY DEF ReadThesis, BindingChecked
  <2>4. thesis[req[r].thesis].revision \in Nat
    BY <2>3, ThesisRevisionType
  <2>5. q \in RequestStates /\ q.campaign \in Campaigns
    BY <2>2, <2>4 DEF RequestStates
  <2> HIDE DEF q
  <2> QED BY <1>1, <2>1, <2>5, ReqType DEF HandlersTyped
<1> QED BY <1>2, <1>3

\* The row a transition appends.
NewRow(r) == [from |-> status[req[r].campaign], to |-> req[r].to, at |-> req[r].at,
              id |-> req[r].id]

LEMMA PersistType ==
  ASSUME TypeOK, NEW r \in Requests, PersistTransition(r)
  PROVE  SharedTyped' /\ HandlersTyped'
<1>1. req[r].campaign \in Campaigns /\ req[r] \in RequestStates
  BY DEF TypeOK, PersistTransition, At
<1>2. NewRow(r) \in Rows
  BY <1>1 DEF NewRow, Rows, RequestStates, PersistTransition, Allowed
<1>3. audit' = [audit EXCEPT ![req[r].campaign] = Append(@, NewRow(r))]
  BY DEF PersistTransition, NewRow
<1>4. Append(audit[req[r].campaign], NewRow(r)) \in Seq(Rows)
  BY <1>1, <1>2, AppendProperties DEF TypeOK
<1>5. audit' \in [Campaigns -> Seq(Rows)]
  BY <1>3, <1>4 DEF TypeOK
<1>6. status' \in [Campaigns -> Statuses \union {"ABSENT"}]
  BY <1>1 DEF TypeOK, PersistTransition, RequestStates
<1>7. HandlersTyped'
  BY DoneType DEF PersistTransition
<1> QED BY <1>5, <1>6, <1>7 DEF TypeOK, SharedTyped, PersistTransition, authorities

LEMMA InsertBindingType ==
  ASSUME TypeOK, BindingChecked, NEW r \in Requests, InsertBinding(r)
  PROVE  SharedTyped' /\ HandlersTyped'
<1>1. req[r].campaign \in Campaigns /\ req[r].revision \in Nat
  BY DEF TypeOK, InsertBinding, At, RequestStates
<1>2. req[r].thesis \in Theses
  BY FitsAssumption DEF InsertBinding, BindingChecked
<1>3. binding' \in [Campaigns -> [thesis : Theses, revision : Nat] \union {None}]
  BY <1>1, <1>2 DEF TypeOK, InsertBinding
<1>4. HandlersTyped'
  BY DoneType DEF InsertBinding
<1> QED BY <1>3, <1>4 DEF TypeOK, SharedTyped, InsertBinding, authorities

LEMMA StepType ==
  ASSUME TypeOK, BindingChecked, NEW r \in Requests, Step(r)
  PROVE  SharedTyped' /\ HandlersTyped'
<1>1. CASE PersistTransition(r)
  BY <1>1, PersistType
<1>2. CASE InsertBinding(r)
  BY <1>2, InsertBindingType
<1>3. ASSUME ~PersistTransition(r), ~InsertBinding(r)
      PROVE  HandlersTyped' /\ UNCHANGED <<clock, status, audit, binding, authorities>>
  <2>1. CASE TransitionConflicts(r)
    BY <2>1, DoneType DEF TransitionConflicts
  <2>2. CASE ReadTrade(r)
    BY <2>2, CheckType DEF ReadTrade
  <2>3. CASE ReadAttribution(r)
    BY <2>3, CheckType DEF ReadAttribution
  <2>4. CASE ReadPosition(r)
    BY <2>4, CheckType DEF ReadPosition
  <2>5. CASE StampActivation(r)
    <3>1. req[r].campaign \in Campaigns
      BY <2>5 DEF StampActivation, TypeOK, At
    <3> QED BY <2>5, <3>1, StampType DEF StampActivation, Statuses
  <2>6. CASE ReadThesis(r)
    BY <2>6, ReadThesisType
  <2>7. CASE HandlerDies(r)
    BY <2>7, DoneType DEF HandlerDies
  <2> QED BY <1>3, <2>1, <2>2, <2>3, <2>4, <2>5, <2>6, <2>7 DEF Step
<1> QED BY <1>1, <1>2, <1>3, TypeSplit DEF SharedTyped, authorities

ThesisRecords ==
  [formal : {"draft", "confirmed", "frozen"}, archived : BOOLEAN, revision : Nat,
   frozenAt : Nat]

TradeRecords ==
  [state : {"absent", "executed", "voided"}, campaign : Campaigns \union {None},
   addsRisk : BOOLEAN]

LEMMA EnvironmentType ==
  ASSUME TypeOK, Environment
  PROVE  SharedTyped' /\ HandlersTyped'
<1>1. CASE \E t \in Theses :
             EditThesis(t) \/ ConfirmThesis(t) \/ FreezeThesis(t) \/ ArchiveThesis(t)
  <2>1. PICK t \in Theses :
          EditThesis(t) \/ ConfirmThesis(t) \/ FreezeThesis(t) \/ ArchiveThesis(t)
    BY <1>1
  <2>2. UNCHANGED <<clock, status, audit, binding, trade, held, req>>
    BY <2>1 DEF EditThesis, ConfirmThesis, FreezeThesis, ArchiveThesis
  <2>3. thesis[t] \in ThesisRecords
    BY DEF TypeOK, ThesisRecords
  <2>4. \E x \in ThesisRecords : thesis' = [thesis EXCEPT ![t] = x]
    <3>0. PICK n \in Nat : n = thesis[t].revision + 1
      BY <2>3 DEF ThesisRecords
    <3>1. CASE EditThesis(t)
      <4> DEFINE x == [thesis[t] EXCEPT !.revision = @ + 1]
      <4>1. x \in ThesisRecords
        BY <2>3 DEF ThesisRecords
      <4> QED BY <3>1, <4>1 DEF EditThesis
    <3>2. CASE ConfirmThesis(t)
      <4> DEFINE x == [thesis[t] EXCEPT !.formal = "confirmed"]
      <4>1. x \in ThesisRecords
        BY <2>3 DEF ThesisRecords
      <4> QED BY <3>2, <4>1 DEF ConfirmThesis
    <3>3. CASE FreezeThesis(t)
      <4> DEFINE x == [thesis[t] EXCEPT !.formal = "frozen", !.revision = n,
                                        !.frozenAt = n]
      <4>1. x \in ThesisRecords
        BY <2>3, <3>0 DEF ThesisRecords
      <4>2. thesis' = [thesis EXCEPT ![t] = x]
        BY <3>3, <3>0 DEF FreezeThesis, NextRevision
      <4> QED BY <4>1, <4>2
    <3>4. CASE ArchiveThesis(t)
      <4> DEFINE x == [thesis[t] EXCEPT !.archived = TRUE, !.revision = n]
      <4>1. x \in ThesisRecords
        BY <2>3, <3>0 DEF ThesisRecords
      <4>2. thesis' = [thesis EXCEPT ![t] = x]
        BY <3>4, <3>0 DEF ArchiveThesis, NextRevision
      <4> QED BY <4>1, <4>2
    <3> QED BY <2>1, <3>1, <3>2, <3>3, <3>4
  <2>5. thesis' \in [Theses -> ThesisRecords]
    BY <2>4 DEF TypeOK, ThesisRecords
  <2> QED BY <2>2, <2>5 DEF TypeOK, SharedTyped, HandlersTyped, At, ThesisRecords
<1>2. CASE \E t \in Trades :
             \/ ExecuteTrade(t) \/ VoidTrade(t)
             \/ \E c \in Campaigns, addsRisk \in BOOLEAN : AttributeTrade(t, c, addsRisk)
  <2>1. PICK t \in Trades :
             \/ ExecuteTrade(t) \/ VoidTrade(t)
             \/ \E c \in Campaigns, addsRisk \in BOOLEAN : AttributeTrade(t, c, addsRisk)
    BY <1>2
  <2>2. UNCHANGED <<clock, status, audit, binding, thesis, held, req>>
    BY <2>1 DEF ExecuteTrade, VoidTrade, AttributeTrade
  <2>3. trade[t] \in TradeRecords
    BY DEF TypeOK, TradeRecords
  <2>4. \E x \in TradeRecords : trade' = [trade EXCEPT ![t] = x]
    <3>1. CASE ExecuteTrade(t)
      <4> DEFINE x == [trade[t] EXCEPT !.state = "executed"]
      <4>1. x \in TradeRecords
        BY <2>3 DEF TradeRecords
      <4> QED BY <3>1, <4>1 DEF ExecuteTrade
    <3>2. CASE VoidTrade(t)
      <4> DEFINE x == [trade[t] EXCEPT !.state = "voided"]
      <4>1. x \in TradeRecords
        BY <2>3 DEF TradeRecords
      <4> QED BY <3>2, <4>1 DEF VoidTrade
    <3>3. ASSUME NEW c \in Campaigns, NEW addsRisk \in BOOLEAN, AttributeTrade(t, c, addsRisk)
          PROVE  \E x \in TradeRecords : trade' = [trade EXCEPT ![t] = x]
      <4> DEFINE x == [trade[t] EXCEPT !.campaign = c, !.addsRisk = addsRisk]
      <4>1. x \in TradeRecords
        BY <2>3 DEF TradeRecords
      <4> QED BY <3>3, <4>1 DEF AttributeTrade
    <3> QED BY <2>1, <3>1, <3>2, <3>3
  <2>5. trade' \in [Trades -> TradeRecords]
    BY <2>4 DEF TypeOK, TradeRecords
  <2> QED BY <2>2, <2>5 DEF TypeOK, SharedTyped, HandlersTyped, At, TradeRecords
<1>3. CASE \E c \in Campaigns : PositionMoves(c)
  BY <1>3 DEF PositionMoves, TypeOK, SharedTyped, HandlersTyped, At
<1>4. CASE Tick
  BY <1>4 DEF Tick, TypeOK, SharedTyped, HandlersTyped, At, authorities
<1> QED BY <1>1, <1>2, <1>3, <1>4 DEF Environment

LEMMA CreateType ==
  ASSUME TypeOK, NEW c \in Campaigns, CreateCampaign(c)
  PROVE  SharedTyped' /\ HandlersTyped'
<1>1. status' \in [Campaigns -> Statuses \union {"ABSENT"}]
  BY DEF CreateCampaign, TypeOK, Statuses
<1> QED BY <1>1 DEF CreateCampaign, TypeOK, SharedTyped, HandlersTyped, At, authorities

LEMMA TypeNext == TypeOK /\ BindingChecked /\ [Next]_vars => TypeOK'
<1> SUFFICES ASSUME TypeOK, BindingChecked, [Next]_vars PROVE SharedTyped' /\ HandlersTyped'
  BY TypeSplit DEF TypeOK, SharedTyped, HandlersTyped, At
<1>1. CASE \E c \in Campaigns : CreateCampaign(c)
  BY <1>1, CreateType
<1>2. CASE \E r \in Requests : Begin(r)
  <2>1. HandlersTyped' /\ UNCHANGED <<clock, status, audit, binding, authorities>>
    BY <1>2, BeginType
  <2> QED BY <2>1, TypeSplit DEF SharedTyped, authorities
<1>3. CASE \E r \in Requests : Step(r)
  BY <1>3, StepType
<1>4. CASE Environment
  BY <1>4, EnvironmentType
<1>5. CASE UNCHANGED vars
  BY <1>5 DEF vars, authorities, TypeOK, SharedTyped, HandlersTyped, At
<1> QED BY <1>1, <1>2, <1>3, <1>4, <1>5 DEF Next

(***************************************************************************)
(* What other ledgers cannot take back.                                    *)
(***************************************************************************)
\* Only the environment moves the other ledgers.
LEMMA CommandsLeaveAuthorities ==
  ASSUME NEW r \in Requests, Begin(r) \/ Step(r)
  PROVE  UNCHANGED authorities
BY DEF Begin, RequestTransition, RequestActivation, RequestBinding, Step, PersistTransition,
   TransitionConflicts, ReadTrade, ReadAttribution, ReadPosition, Check, StampActivation,
   ReadThesis, InsertBinding, HandlerDies

\* An executed trade stays executed or is voided, and keeps its attribution.
LEMMA TradeHistory ==
  ASSUME TypeOK, [Next]_vars, NEW t \in Trades
  PROVE  /\ trade[t].state # "absent" => trade'[t].state \in {"executed", "voided"}
         /\ trade[t].campaign # None =>
              /\ trade'[t].campaign = trade[t].campaign
              /\ trade'[t].addsRisk = trade[t].addsRisk
         /\ trade'[t].campaign # None /\ trade[t].campaign = None =>
              trade'[t].state = "executed"
<1>0. trade[t] \in TradeRecords
  BY DEF TypeOK, TradeRecords
<1>1. CASE trade' = trade
  BY <1>0, <1>1 DEF TradeRecords
<1>2. CASE \E u \in Trades : ExecuteTrade(u)
  BY <1>0, <1>2 DEF ExecuteTrade, TypeOK, TradeRecords
<1>3. CASE \E u \in Trades : VoidTrade(u)
  BY <1>0, <1>3 DEF VoidTrade, Executed, TypeOK, TradeRecords
<1>4. CASE \E u \in Trades, c \in Campaigns, b \in BOOLEAN : AttributeTrade(u, c, b)
  BY <1>0, <1>4 DEF AttributeTrade, Executed, TypeOK, TradeRecords
<1>5. Environment \/ trade' = trade
  BY CommandsLeaveAuthorities DEF Next, vars, authorities, CreateCampaign
<1>6. CASE Environment
  BY <1>1, <1>2, <1>3, <1>4, <1>6
  DEF Environment, EditThesis, ConfirmThesis, FreezeThesis, ArchiveThesis, PositionMoves,
      Tick, authorities
<1> QED BY <1>1, <1>5, <1>6

LEMMA EntitledStays ==
  ASSUME TypeOK, [Next]_vars, NEW t, NEW c \in Campaigns, Entitles(t, c)
  PROVE  Entitles(t, c)'
<1>1. t \in Trades
  BY BuysForAssumption DEF Entitles
<1>2. trade[t].campaign # None
  BY NoneAssumption DEF Entitles
<1> QED BY <1>1, <1>2, TradeHistory DEF Entitles

LEMMA HadBuyStays ==
  ASSUME TypeOK, [Next]_vars, NEW c \in Campaigns, HadBuy(c)
  PROVE  HadBuy(c)'
BY EntitledStays DEF HadBuy

\* A frozen Thesis stays frozen at the same revision.
LEMMA FrozenHistory ==
  ASSUME TypeOK, ThesisFrozen, [Next]_vars, NEW t \in Theses
  PROVE  /\ thesis[t].formal = "frozen" =>
              thesis'[t].formal = "frozen" /\ thesis'[t].frozenAt = thesis[t].frozenAt
         /\ thesis'[t].archived => thesis'[t].formal = "frozen"
         /\ thesis'[t].formal = "frozen" /\ ~thesis'[t].archived =>
              thesis'[t].revision = thesis'[t].frozenAt
<1>0. /\ thesis[t] \in ThesisRecords
      /\ thesis[t].archived => thesis[t].formal = "frozen"
      /\ thesis[t].formal = "frozen" /\ ~thesis[t].archived =>
           thesis[t].revision = thesis[t].frozenAt
  BY DEF TypeOK, ThesisRecords, ThesisFrozen
<1>1. CASE thesis' = thesis
  BY <1>0, <1>1
<1>2. CASE \E u \in Theses : EditThesis(u)
  BY <1>0, <1>2 DEF EditThesis, TypeOK, ThesisRecords
<1>3. CASE \E u \in Theses : ConfirmThesis(u)
  BY <1>0, <1>3 DEF ConfirmThesis, TypeOK, ThesisRecords
<1>4. CASE \E u \in Theses : FreezeThesis(u)
  BY <1>0, <1>4 DEF FreezeThesis, TypeOK, ThesisRecords
<1>5. CASE \E u \in Theses : ArchiveThesis(u)
  BY <1>0, <1>5 DEF ArchiveThesis, TypeOK, ThesisRecords
<1>6. Environment \/ thesis' = thesis
  BY CommandsLeaveAuthorities DEF Next, vars, authorities, CreateCampaign
<1>7. CASE Environment
  BY <1>1, <1>2, <1>3, <1>4, <1>5, <1>7
  DEF Environment, ExecuteTrade, VoidTrade, AttributeTrade, PositionMoves, Tick, authorities
<1> QED BY <1>1, <1>6, <1>7

(***************************************************************************)
(* What a handler has checked.                                             *)
(***************************************************************************)
ActivationOK(r) ==
  /\ At(r, "trade") => req[r].trade \in Trades
  /\ At(r, "attribution") => <<req[r].trade, req[r].campaign>> \in BuysFor
  /\ req[r].pc \in {"position", "stamp"} => Entitles(req[r].trade, req[r].campaign)
  /\ At(r, "persist") /\ NeedsActivation(req[r].from, req[r].to) =>
       HadBuy(req[r].campaign)

BindingOK(r) ==
  /\ At(r, "thesis") => req[r].thesis \in Theses
  /\ At(r, "bind") =>
       /\ <<req[r].thesis, req[r].campaign>> \in Fits
       /\ thesis[req[r].thesis].formal = "frozen"
       /\ req[r].revision = thesis[req[r].thesis].frozenAt

LEMMA ChecksByHandler ==
  /\ ActivationChecked <=> \A r \in Requests : ActivationOK(r)
  /\ BindingChecked <=> \A r \in Requests : BindingOK(r)
BY DEF ActivationChecked, BindingChecked, ActivationOK, BindingOK

\* A handler that does not move keeps what it has checked.
LEMMA ChecksKept ==
  ASSUME TypeOK, ThesisFrozen, [Next]_vars, NEW s \in Requests,
         ActivationOK(s), BindingOK(s), req'[s] = req[s]
  PROVE  ActivationOK(s)' /\ BindingOK(s)'
<1>1. ~At(s, "idle") => req[s].campaign \in Campaigns
  BY DEF TypeOK
<1>2. ActivationOK(s)'
  BY <1>1, EntitledStays, HadBuyStays DEF ActivationOK, At
<1>3. At(s, "bind") => req[s].thesis \in Theses
  BY FitsAssumption DEF BindingOK
<1>4. BindingOK(s)'
  BY <1>3, FrozenHistory DEF BindingOK, At
<1> QED BY <1>2, <1>4

LEMMA IdleChecks ==
  ASSUME TypeOK, NEW r \in Requests, Done(r)
  PROVE  ActivationOK(r)' /\ BindingOK(r)'
<1>1. req'[r].pc = "idle"
  BY IdleType DEF Done, TypeOK
<1> QED BY <1>1 DEF ActivationOK, BindingOK, At

LEMMA StampChecks ==
  ASSUME TypeOK, NEW r \in Requests, NEW c, NEW from, NEW to, Stamp(r, c, from, to),
         NeedsActivation(from, to) => HadBuy(c)'
  PROVE  ActivationOK(r)' /\ BindingOK(r)'
<1>1. PICK id \in Ids : req' = [req EXCEPT ![r] = Stamped(c, from, to, id)]
  BY StampShape
<1>2. req'[r] = Stamped(c, from, to, id)
  BY <1>1 DEF TypeOK
<1>3. req'[r].pc = "persist" /\ req'[r].campaign = c /\ req'[r].from = from /\ req'[r].to = to
  BY <1>2, StampedFields
<1> QED BY <1>3 DEF ActivationOK, BindingOK, At

LEMMA BeginChecks ==
  ASSUME TypeOK, NEW r \in Requests, Begin(r)
  PROVE  ActivationOK(r)' /\ BindingOK(r)'
<1>1. PICK c \in Campaigns :
        \/ \E m \in Commands : RequestTransition(r, c, m[1], m[2])
        \/ \E t \in Trades : RequestActivation(r, c, t)
        \/ \E t \in Theses : RequestBinding(r, c, t)
  BY DEF Begin
<1>2. CASE \E m \in Commands : RequestTransition(r, c, m[1], m[2])
  BY <1>2, StampChecks DEF RequestTransition
<1>3. CASE \E t \in Trades : RequestActivation(r, c, t)
  <2>1. PICK t \in Trades : RequestActivation(r, c, t)
    BY <1>3
  <2>2. req'[r].pc = "trade" /\ req'[r].trade = t
    BY <2>1 DEF RequestActivation, TypeOK, IdleRequest
  <2> QED BY <2>2 DEF ActivationOK, BindingOK, At
<1>4. CASE \E t \in Theses : RequestBinding(r, c, t)
  <2>1. PICK t \in Theses : RequestBinding(r, c, t)
    BY <1>4
  <2>2. req'[r].pc = "thesis" /\ req'[r].thesis = t
    BY <2>1 DEF RequestBinding, TypeOK, IdleRequest
  <2> QED BY <2>2 DEF ActivationOK, BindingOK, At
<1> QED BY <1>1, <1>2, <1>3, <1>4

\* A handler's own step goes on only with what it has just read.
LEMMA StepChecks ==
  ASSUME TypeOK, ThesisFrozen, NEW r \in Requests, Step(r), [Next]_vars,
         ActivationOK(r), BindingOK(r)
  PROVE  ActivationOK(r)' /\ BindingOK(r)'
<1>1. CASE Done(r)
  BY <1>1, IdleChecks
<1>2. CASE ReadTrade(r) /\ ~Done(r)
  <2>1. Goto(r, "attribution") /\ <<req[r].trade, req[r].campaign>> \in BuysFor
    BY <1>2 DEF ReadTrade, Check
  <2>2. /\ req'[r].pc = "attribution" /\ req'[r].trade = req[r].trade
        /\ req'[r].campaign = req[r].campaign
    BY <2>1 DEF Goto, TypeOK, RequestStates
  <2> QED BY <2>1, <2>2 DEF ActivationOK, BindingOK, At
<1>3. CASE ReadAttribution(r) /\ ~Done(r)
  <2>1. Goto(r, "position") /\ Attributed(r) /\ At(r, "attribution")
    BY <1>3 DEF ReadAttribution, Check
  <2>2. /\ req'[r].pc = "position" /\ req'[r].trade = req[r].trade
        /\ req'[r].campaign = req[r].campaign
    BY <2>1 DEF Goto, TypeOK, RequestStates
  <2>3. Entitles(req[r].trade, req[r].campaign)
    BY <2>1 DEF Attributed, Entitles, ActivationOK, At
  <2>4. Entitles(req[r].trade, req[r].campaign)'
    BY <1>3, <2>2, <2>3, CommandsLeaveAuthorities DEF Entitles, authorities
  <2> QED BY <2>2, <2>4 DEF ActivationOK, BindingOK, At
<1>4. CASE ReadPosition(r) /\ ~Done(r)
  <2>1. Goto(r, "stamp") /\ At(r, "position")
    BY <1>4 DEF ReadPosition, Check
  <2>2. /\ req'[r].pc = "stamp" /\ req'[r].trade = req[r].trade
        /\ req'[r].campaign = req[r].campaign
    BY <2>1 DEF Goto, TypeOK, RequestStates
  <2>3. Entitles(req[r].trade, req[r].campaign)
    BY <2>1 DEF ActivationOK, At
  <2>4. Entitles(req[r].trade, req[r].campaign)'
    BY <1>4, <2>2, <2>3, CommandsLeaveAuthorities DEF Entitles, authorities
  <2> QED BY <2>2, <2>4 DEF ActivationOK, BindingOK, At
<1>5. CASE StampActivation(r)
  <2>1. PICK c \in Campaigns : c = req[r].campaign
    BY <1>5 DEF StampActivation, TypeOK, At
  <2>2. Stamp(r, c, "PRE-ENTRY", "ACTIVE") /\ At(r, "stamp")
    BY <1>5, <2>1 DEF StampActivation
  <2>3. Entitles(req[r].trade, c)
    BY <2>1, <2>2 DEF ActivationOK, At
  <2>4. HadBuy(c)
    BY <2>3, BuysForAssumption DEF HadBuy, Entitles
  <2>5. HadBuy(c)'
    BY <2>4, HadBuyStays
  <2> QED BY <2>2, <2>5, StampChecks
<1>6. CASE ReadThesis(r) /\ ~Done(r)
  <2> DEFINE t == req[r].thesis
  <2>1. /\ Bindable(req[r].campaign, t) /\ At(r, "thesis")
        /\ req' = [req EXCEPT ![r].pc = "bind", ![r].revision = thesis[t].revision]
    BY <1>6 DEF ReadThesis
  <2>2. /\ req'[r].pc = "bind" /\ req'[r].thesis = t
        /\ req'[r].campaign = req[r].campaign /\ req'[r].revision = thesis[t].revision
    BY <2>1 DEF TypeOK, RequestStates
  <2>3. t \in Theses /\ thesis' = thesis
    BY <1>6, <2>1, CommandsLeaveAuthorities DEF BindingOK, authorities
  <2>4. thesis[t].formal = "frozen" /\ thesis[t].revision = thesis[t].frozenAt
    BY <2>1, <2>3 DEF Bindable, ThesisFrozen
  <2> HIDE DEF t
  <2> QED BY <2>1, <2>2, <2>3, <2>4 DEF ActivationOK, BindingOK, At, Bindable
<1> QED BY <1>1, <1>2, <1>3, <1>4, <1>5, <1>6
  DEF Step, PersistTransition, TransitionConflicts, InsertBinding, HandlerDies

\* At most one handler moves in a step.
LEMMA OthersStay ==
  ASSUME TypeOK, NEW r \in Requests, Begin(r) \/ Step(r), NEW s \in Requests, s # r
  PROVE  req'[s] = req[s]
<1>1. CASE Begin(r)
  BY <1>1 DEF Begin, RequestTransition, Stamp, RequestActivation, RequestBinding, TypeOK
<1>2. CASE Step(r)
  BY <1>2 DEF Step, PersistTransition, TransitionConflicts, ReadTrade, ReadAttribution,
     ReadPosition, Check, Goto, Done, StampActivation, Stamp, ReadThesis, InsertBinding,
     HandlerDies, TypeOK
<1> QED BY <1>1, <1>2

LEMMA ChecksNext ==
  TypeOK /\ ThesisFrozen /\ ActivationChecked /\ BindingChecked /\ [Next]_vars
    => ActivationChecked' /\ BindingChecked'
<1> SUFFICES ASSUME TypeOK, ThesisFrozen, ActivationChecked, BindingChecked, [Next]_vars,
                    NEW s \in Requests
             PROVE  ActivationOK(s)' /\ BindingOK(s)'
  BY DEF ActivationChecked, BindingChecked, ActivationOK, BindingOK
<1>0. ActivationOK(s) /\ BindingOK(s)
  BY ChecksByHandler
<1>1. CASE req'[s] = req[s]
  BY <1>0, <1>1, ChecksKept
<1>2. CASE req'[s] # req[s]
  <2>1. \E r \in Requests : Begin(r) \/ Step(r)
    BY <1>2 DEF Next, vars, CreateCampaign, Environment, EditThesis, ConfirmThesis,
       FreezeThesis, ArchiveThesis, ExecuteTrade, VoidTrade, AttributeTrade, PositionMoves, Tick
  <2>2. Begin(s) \/ Step(s)
    BY <1>2, <2>1, OthersStay
  <2> QED BY <1>0, <2>2, BeginChecks, StepChecks
<1> QED BY <1>1, <1>2

(***************************************************************************)
(* The audit rows and the status move together.                            *)
(***************************************************************************)
AuditOK(c) ==
  LET h == audit[c] IN
  /\ \A i \in 1 .. Len(h) :
       /\ h[i].to \in TransitionGraph[h[i].from]
       /\ h[i].from = IF i = 1 THEN "DRAFT" ELSE h[i - 1].to
  /\ status[c] = "ABSENT" => h = <<>>
  /\ h = <<>> => status[c] \in {"ABSENT", "DRAFT"}
  /\ h # <<>> => status[c] = h[Len(h)].to

LEMMA OnlyTwoWriteStatus ==
  ASSUME [Next]_vars
  PROVE  \/ \E c \in Campaigns : CreateCampaign(c)
         \/ \E r \in Requests : PersistTransition(r)
         \/ status' = status /\ audit' = audit
<1>1. ASSUME NEW r \in Requests, Begin(r) PROVE status' = status /\ audit' = audit
  BY <1>1 DEF Begin, RequestTransition, RequestActivation, RequestBinding
<1>2. ASSUME NEW r \in Requests, Step(r), ~PersistTransition(r)
      PROVE  status' = status /\ audit' = audit
  BY <1>2 DEF Step, TransitionConflicts, ReadTrade, ReadAttribution, ReadPosition, Check,
     StampActivation, ReadThesis, InsertBinding, HandlerDies
<1>3. CASE Environment
  BY <1>3 DEF Environment, EditThesis, ConfirmThesis, FreezeThesis, ArchiveThesis,
     ExecuteTrade, VoidTrade, AttributeTrade, PositionMoves, Tick
<1> QED BY <1>1, <1>2, <1>3 DEF Next, vars

LEMMA AbsentIsNoStatus == "ABSENT" \notin Statuses
BY DEF Statuses

\* Appending the row of an allowed transition extends the walk.
LEMMA AppendWalk ==
  ASSUME NEW h \in Seq(Rows), NEW row \in Rows,
         \A i \in 1 .. Len(h) :
           /\ h[i].to \in TransitionGraph[h[i].from]
           /\ h[i].from = IF i = 1 THEN "DRAFT" ELSE h[i - 1].to,
         row.to \in TransitionGraph[row.from],
         row.from = IF h = <<>> THEN "DRAFT" ELSE h[Len(h)].to
  PROVE  LET k == Append(h, row) IN
         /\ \A i \in 1 .. Len(k) :
              /\ k[i].to \in TransitionGraph[k[i].from]
              /\ k[i].from = IF i = 1 THEN "DRAFT" ELSE k[i - 1].to
         /\ k # <<>>
         /\ k[Len(k)] = row
<1> DEFINE k == Append(h, row)
<1>1. /\ Len(k) = Len(h) + 1 /\ Len(h) \in Nat
      /\ \A i \in 1 .. Len(h) : k[i] = h[i]
      /\ k[Len(h) + 1] = row
  BY AppendProperties, LenProperties
<1>2. k # <<>>
  BY <1>1, EmptySeq
<1>3. h = <<>> <=> Len(h) = 0
  BY EmptySeq
<1> HIDE DEF k
<1>4. ASSUME NEW i \in 1 .. Len(k)
      PROVE  /\ k[i].to \in TransitionGraph[k[i].from]
             /\ k[i].from = IF i = 1 THEN "DRAFT" ELSE k[i - 1].to
  <2>1. CASE i \in 1 .. Len(h)
    <3>1. k[i] = h[i] /\ (i # 1 => k[i - 1] = h[i - 1])
      BY <1>1, <2>1
    <3> QED BY <2>1, <3>1
  <2>2. CASE i = Len(h) + 1
    <3>1. CASE i = 1
      <4>1. h = <<>> /\ k[i] = row
        BY <1>1, <1>3, <2>2, <3>1
      <4> QED BY <3>1, <4>1
    <3>2. CASE i # 1
      <4>1. h # <<>> /\ k[i] = row /\ i - 1 = Len(h) /\ Len(h) \in 1 .. Len(h)
        BY <1>1, <1>3, <2>2, <3>2
      <4>2. k[i - 1] = h[Len(h)]
        BY <1>1, <4>1
      <4> QED BY <3>2, <4>1, <4>2
    <3> QED BY <3>1, <3>2
  <2> QED BY <1>1, <1>4, <2>1, <2>2
<1> QED BY <1>1, <1>2, <1>4 DEF k

LEMMA AuditNext ==
  TypeOK /\ AuditMatchesStatus /\ [Next]_vars => AuditMatchesStatus'
<1> SUFFICES ASSUME TypeOK, AuditMatchesStatus, [Next]_vars, NEW d \in Campaigns
             PROVE  AuditOK(d)'
  BY DEF AuditMatchesStatus, AuditOK
<1>0. AuditOK(d)
  BY DEF AuditMatchesStatus, AuditOK
<1>1. CASE status'[d] = status[d] /\ audit'[d] = audit[d]
  BY <1>0, <1>1 DEF AuditOK
<1>2. ASSUME NEW c \in Campaigns, CreateCampaign(c) PROVE AuditOK(d)'
  <2>1. CASE c = d
    <3>1. status[d] = "ABSENT" /\ status'[d] = "DRAFT" /\ audit' = audit
      BY <1>2, <2>1 DEF CreateCampaign, TypeOK
    <3>2. audit'[d] = <<>>
      BY <1>0, <3>1 DEF AuditOK
    <3>3. Len(audit'[d]) = 0
      BY <3>2
    <3> QED BY <3>1, <3>2, <3>3 DEF AuditOK
  <2>2. CASE c # d
    BY <1>1, <1>2, <2>2 DEF CreateCampaign, TypeOK
  <2> QED BY <2>1, <2>2
<1>3. ASSUME NEW r \in Requests, PersistTransition(r) PROVE AuditOK(d)'
  <2>1. CASE req[r].campaign = d
    <3> DEFINE h == audit[d]
    <3> DEFINE row == NewRow(r)
    <3>1. req[r] \in RequestStates /\ status[d] = req[r].from /\ h \in Seq(Rows)
      BY <1>3, <2>1 DEF TypeOK, PersistTransition, Allowed
    <3>2. row \in Rows
      BY <2>1, <3>1 DEF NewRow, Rows, RequestStates
    <3>3. row.from = status[d] /\ row.to = req[r].to
      BY <2>1 DEF NewRow
    <3>4. status[d] # "ABSENT"
      BY <3>1, AbsentIsNoStatus DEF RequestStates
    <3>5. row.from = IF h = <<>> THEN "DRAFT" ELSE h[Len(h)].to
      BY <1>0, <3>3, <3>4 DEF AuditOK
    <3>6. row.to \in TransitionGraph[row.from]
      BY <1>3, <3>1, <3>3 DEF PersistTransition, Allowed
    <3>7. \A i \in 1 .. Len(h) :
            /\ h[i].to \in TransitionGraph[h[i].from]
            /\ h[i].from = IF i = 1 THEN "DRAFT" ELSE h[i - 1].to
      BY <1>0 DEF AuditOK
    <3>8. audit'[d] = Append(h, row) /\ status'[d] = row.to
      BY <1>3, <2>1, <3>3 DEF PersistTransition, NewRow, TypeOK
    <3>9. status'[d] # "ABSENT"
      BY <3>2, <3>8, AbsentIsNoStatus DEF Rows
    <3> HIDE DEF h, row
    <3>10. LET k == Append(h, row) IN
           /\ \A i \in 1 .. Len(k) :
                /\ k[i].to \in TransitionGraph[k[i].from]
                /\ k[i].from = IF i = 1 THEN "DRAFT" ELSE k[i - 1].to
           /\ k # <<>>
           /\ k[Len(k)] = row
      BY <3>1, <3>2, <3>5, <3>6, <3>7, AppendWalk
    <3> QED BY <3>8, <3>9, <3>10 DEF AuditOK
  <2>2. CASE req[r].campaign # d
    BY <1>1, <1>3, <2>2 DEF PersistTransition, TypeOK
  <2> QED BY <2>1, <2>2
<1> QED BY <1>1, <1>2, <1>3, OnlyTwoWriteStatus

(***************************************************************************)
(* Activation and binding.                                                 *)
(***************************************************************************)
PastEntry == {"ACTIVE", "REDUCING", "CLOSED"}

\* The activation edge is the only way past PRE-ENTRY.
LEMMA OnlyActivationEnters ==
  ASSUME NEW from \in Statuses, NEW to \in TransitionGraph[from], to \in PastEntry
  PROVE  from \in PastEntry \/ NeedsActivation(from, to)
BY DEF Statuses, TransitionGraph, PastEntry, NeedsActivation

LEMMA ActiveNext ==
  TypeOK /\ ActivationChecked /\ ActiveHadBuy /\ [Next]_vars => ActiveHadBuy'
<1> SUFFICES ASSUME TypeOK, ActivationChecked, ActiveHadBuy, [Next]_vars,
                    NEW d \in Campaigns, status'[d] \in PastEntry
             PROVE  HadBuy(d)'
  BY DEF ActiveHadBuy, PastEntry
<1>1. CASE status'[d] = status[d]
  BY <1>1, HadBuyStays DEF ActiveHadBuy, PastEntry
<1>2. ASSUME NEW c \in Campaigns, CreateCampaign(c) PROVE HadBuy(d)'
  BY <1>1, <1>2 DEF CreateCampaign, TypeOK, PastEntry
<1>3. ASSUME NEW r \in Requests, PersistTransition(r) PROVE HadBuy(d)'
  <2>1. CASE req[r].campaign = d
    <3>1. /\ req[r].from \in Statuses /\ status[d] = req[r].from
          /\ req[r].to \in TransitionGraph[req[r].from] /\ status'[d] = req[r].to
      BY <1>3, <2>1 DEF PersistTransition, Allowed, TypeOK, RequestStates
    <3>2. CASE req[r].from \in PastEntry
      BY <3>1, <3>2, HadBuyStays DEF ActiveHadBuy, PastEntry
    <3>3. CASE NeedsActivation(req[r].from, req[r].to)
      <4>1. HadBuy(d)
        BY <1>3, <2>1, <3>3 DEF ActivationChecked, PersistTransition
      <4> QED BY <4>1, HadBuyStays
    <3> QED BY <3>1, <3>2, <3>3, OnlyActivationEnters
  <2>2. CASE req[r].campaign # d
    BY <1>1, <1>3, <2>2 DEF PersistTransition, TypeOK
  <2> QED BY <2>1, <2>2
<1> QED BY <1>1, <1>2, <1>3, OnlyTwoWriteStatus

LEMMA AttributedNext ==
  TypeOK /\ AttributedWasExecuted /\ [Next]_vars => AttributedWasExecuted'
BY TradeHistory DEF AttributedWasExecuted

LEMMA FrozenNext == TypeOK /\ ThesisFrozen /\ [Next]_vars => ThesisFrozen'
BY FrozenHistory DEF ThesisFrozen

LEMMA OnlyOneWritesBinding ==
  ASSUME [Next]_vars
  PROVE  (\E r \in Requests : InsertBinding(r)) \/ binding' = binding
<1>1. ASSUME NEW r \in Requests, Begin(r) PROVE binding' = binding
  BY <1>1 DEF Begin, RequestTransition, RequestActivation, RequestBinding
<1>2. ASSUME NEW r \in Requests, Step(r), ~InsertBinding(r) PROVE binding' = binding
  BY <1>2 DEF Step, PersistTransition, TransitionConflicts, ReadTrade, ReadAttribution,
     ReadPosition, Check, StampActivation, ReadThesis, HandlerDies
<1>3. CASE Environment
  BY <1>3 DEF Environment, EditThesis, ConfirmThesis, FreezeThesis, ArchiveThesis,
     ExecuteTrade, VoidTrade, AttributeTrade, PositionMoves, Tick
<1> QED BY <1>1, <1>2, <1>3 DEF Next, vars, CreateCampaign

\* What an insert changes.
LEMMA InsertEffect ==
  ASSUME TypeOK, BindingChecked, NEW r \in Requests, InsertBinding(r)
  PROVE  \/ binding' = binding
         \/ /\ Unbound(req[r].campaign, req[r].thesis)
            /\ req[r].campaign \in Campaigns
            /\ req[r].thesis \in Theses
            /\ \A d \in Campaigns : d # req[r].campaign => binding'[d] = binding[d]
            /\ binding'[req[r].campaign] =
                 [thesis |-> req[r].thesis, revision |-> req[r].revision]
<1>1. req[r].campaign \in Campaigns /\ req[r].thesis \in Theses
  BY FitsAssumption DEF TypeOK, InsertBinding, At, BindingChecked
<1> QED BY <1>1 DEF InsertBinding, TypeOK

LEMMA AnchoredNext ==
  TypeOK /\ ThesisFrozen /\ BindingChecked /\ AnchoredToFrozenRevision /\ [Next]_vars
    => AnchoredToFrozenRevision'
<1> SUFFICES ASSUME TypeOK, ThesisFrozen, BindingChecked, AnchoredToFrozenRevision,
                    [Next]_vars, NEW c \in Campaigns, binding'[c] # None
             PROVE  /\ <<binding'[c].thesis, c>> \in Fits
                    /\ thesis'[binding'[c].thesis].formal = "frozen"
                    /\ binding'[c].revision = thesis'[binding'[c].thesis].frozenAt
  BY DEF AnchoredToFrozenRevision
<1>1. CASE binding'[c] = binding[c]
  <2>1. /\ binding[c].thesis \in Theses
        /\ <<binding[c].thesis, c>> \in Fits
        /\ thesis[binding[c].thesis].formal = "frozen"
        /\ binding[c].revision = thesis[binding[c].thesis].frozenAt
    BY <1>1, FitsAssumption DEF AnchoredToFrozenRevision
  <2> QED BY <1>1, <2>1, FrozenHistory
<1>2. CASE binding'[c] # binding[c]
  <2>1. PICK r \in Requests : InsertBinding(r)
    BY <1>2, OnlyOneWritesBinding
  <2>2. /\ req[r].campaign = c /\ req[r].thesis \in Theses
        /\ binding'[c] = [thesis |-> req[r].thesis, revision |-> req[r].revision]
    BY <1>2, <2>1, InsertEffect
  <2>3. thesis' = thesis
    BY <2>1 DEF InsertBinding, authorities
  <2>4. /\ <<req[r].thesis, c>> \in Fits
        /\ thesis[req[r].thesis].formal = "frozen"
        /\ req[r].revision = thesis[req[r].thesis].frozenAt
    BY <2>1, <2>2 DEF InsertBinding, BindingChecked
  <2> QED BY <2>2, <2>3, <2>4
<1> QED BY <1>1, <1>2

LEMMA OneThesisNext ==
  TypeOK /\ BindingChecked /\ OneThesisOneCampaign /\ [Next]_vars => OneThesisOneCampaign'
<1> SUFFICES ASSUME TypeOK, BindingChecked, OneThesisOneCampaign, [Next]_vars
             PROVE  OneThesisOneCampaign'
  OBVIOUS
<1>1. CASE binding' = binding
  BY <1>1 DEF OneThesisOneCampaign
<1>2. ASSUME NEW r \in Requests, InsertBinding(r), binding' # binding
      PROVE  OneThesisOneCampaign'
  <2> DEFINE x == req[r].campaign
  <2> DEFINE t == req[r].thesis
  <2>1. /\ x \in Campaigns
        /\ \A d \in Campaigns : binding[d] # None => binding[d].thesis # t
        /\ \A d \in Campaigns : d # x => binding'[d] = binding[d]
        /\ binding'[x].thesis = t
    <3>1. /\ Unbound(x, t) /\ x \in Campaigns
          /\ \A d \in Campaigns : d # x => binding'[d] = binding[d]
          /\ binding'[x] = [thesis |-> t, revision |-> req[r].revision]
      BY <1>2, InsertEffect
    <3> HIDE DEF x, t
    <3> QED BY <3>1 DEF Unbound
  <2> HIDE DEF x, t
  <2>2. ASSUME NEW c \in Campaigns, NEW d \in Campaigns, c # d,
               binding'[c] # None, binding'[d] # None
        PROVE  binding'[c].thesis # binding'[d].thesis
    <3>1. CASE c = x
      BY <2>1, <2>2, <3>1
    <3>2. CASE d = x
      BY <2>1, <2>2, <3>2
    <3>3. CASE c # x /\ d # x
      BY <2>1, <2>2, <3>3 DEF OneThesisOneCampaign
    <3> QED BY <3>1, <3>2, <3>3
  <2> QED BY <2>2 DEF OneThesisOneCampaign
<1> QED BY <1>1, <1>2, OnlyOneWritesBinding

\* An insert finds the Campaign unbound, so nothing is ever replaced.
LEMMA BindingStays ==
  ASSUME TypeOK, BindingChecked, [Next]_vars, NEW c \in Campaigns, binding[c] # None
  PROVE  binding'[c] = binding[c]
<1>1. ASSUME NEW r \in Requests, InsertBinding(r) PROVE binding'[c] = binding[c]
  BY <1>1, InsertEffect DEF Unbound
<1> QED BY <1>1, OnlyOneWritesBinding

(***************************************************************************)
(* The theorems.                                                           *)
(***************************************************************************)
LEMMA InitInv == Init => LedgerInv
<1> SUFFICES ASSUME Init PROVE LedgerInv
  OBVIOUS
<1>1. TypeOK
  BY InitType
<1>2. AuditMatchesStatus
  BY EmptySeq DEF Init, AuditMatchesStatus
<1>3. ThesisFrozen /\ AttributedWasExecuted
  BY DEF Init, ThesisFrozen, AttributedWasExecuted
<1>4. ActivationChecked /\ BindingChecked
  BY IdleType DEF Init, ActivationChecked, BindingChecked, At
<1>5. ActiveHadBuy /\ AnchoredToFrozenRevision /\ OneThesisOneCampaign
  BY DEF Init, ActiveHadBuy, AnchoredToFrozenRevision, OneThesisOneCampaign
<1> QED BY <1>1, <1>2, <1>3, <1>4, <1>5 DEF LedgerInv

LEMMA InvNext == LedgerInv /\ [Next]_vars => LedgerInv'
BY TypeNext, AuditNext, FrozenNext, AttributedNext, ChecksNext, ActiveNext, AnchoredNext,
   OneThesisNext DEF LedgerInv

\* The inductive invariant: what a command has checked in another database is
\* history that nothing takes back, and status and audit move in one step.
THEOREM LedgerInvariant == Spec => []LedgerInv
BY InitInv, InvNext, PTL DEF Spec

\* Every reachable state of the Campaign ledger has the declared types.
THEOREM LedgerTypes == Spec => []TypeOK
<1>1. LedgerInv => TypeOK
  BY DEF LedgerInv
<1> QED BY <1>1, LedgerInvariant, PTL

\* The committed audit rows are a walk of the lifecycle graph that ends in the
\* present status, for any number of racing commands.
THEOREM AuditIsTheWalk == Spec => []AuditMatchesStatus
<1>1. LedgerInv => AuditMatchesStatus
  BY DEF LedgerInv
<1> QED BY <1>1, LedgerInvariant, PTL

\* Nothing leaves CLOSED, so the row that closes a Campaign is the last one
\* committed. DerivedClosedAt reads the instant of such a row: whatever order
\* the sorting puts the rows in, it finds no other.
ClosingRowIsLast ==
  \A c \in Campaigns : \A i \in 1 .. Len(audit[c]) :
    audit[c][i].to = "CLOSED" => i = Len(audit[c]) /\ status[c] = "CLOSED"

LEMMA ClosedHasNoEdge == TransitionGraph["CLOSED"] = {}
BY DEF TransitionGraph, Statuses

LEMMA WalkEndsAtClosed == LedgerInv => ClosingRowIsLast
<1> SUFFICES ASSUME LedgerInv, NEW c \in Campaigns, NEW i \in 1 .. Len(audit[c]),
                    audit[c][i].to = "CLOSED"
             PROVE  i = Len(audit[c]) /\ status[c] = "CLOSED"
  BY DEF ClosingRowIsLast
<1> DEFINE h == audit[c]
<1>1. h \in Seq(Rows) /\ Len(h) \in Nat
  BY LenProperties DEF LedgerInv, TypeOK
<1>2. /\ \A k \in 1 .. Len(h) :
           /\ h[k].to \in TransitionGraph[h[k].from]
           /\ h[k].from = IF k = 1 THEN "DRAFT" ELSE h[k - 1].to
      /\ h # <<>> => status[c] = h[Len(h)].to
  BY DEF LedgerInv, AuditMatchesStatus
<1> HIDE DEF h
<1>3. h[i].to = "CLOSED" /\ i \in 1 .. Len(h)
  BY DEF h
<1>4. i = Len(h)
  <2> SUFFICES ASSUME i # Len(h) PROVE FALSE
    OBVIOUS
  <2>1. i + 1 \in 1 .. Len(h) /\ i + 1 # 1 /\ (i + 1) - 1 = i
    BY <1>1, <1>3
  <2>2. h[i + 1].from = "CLOSED" /\ h[i + 1].to \in TransitionGraph[h[i + 1].from]
    BY <1>2, <1>3, <2>1
  <2> QED BY <2>2, ClosedHasNoEdge
<1>5. h # <<>>
  BY <1>1, <1>3, EmptySeq
<1> QED BY <1>2, <1>3, <1>4, <1>5 DEF h

\* The closing instant can only come from the last committed row, and only a
\* closed Campaign has one, for any number of commands racing to stamp rows.
THEOREM ClosingIsTheEnd == Spec => []ClosingRowIsLast
BY WalkEndsAtClosed, LedgerInvariant, PTL

(***************************************************************************)
(* The sorted history.  Before is a strict total order of rows whose ids   *)
(* differ, so no two rows have the same number of rows before them, and    *)
(* every number below the number of rows is that of one.                   *)
(***************************************************************************)
\* The rows of R that come before x.
Earlier(R, x) == {y \in R : Before(y, x)}

LEMMA EarlierGrows ==
  ASSUME NEW R \in SUBSET Rows, IsFiniteSet(R), NEW x \in R, NEW y \in R, Before(x, y)
  PROVE  /\ Cardinality(Earlier(R, x)) \in Nat /\ Cardinality(Earlier(R, y)) \in Nat
         /\ Cardinality(Earlier(R, x)) < Cardinality(Earlier(R, y))
<1>1. Earlier(R, x) \subseteq Earlier(R, y)
  BY DEF Earlier, Before, Rows
<1>2. x \in Earlier(R, y) /\ x \notin Earlier(R, x)
  BY DEF Earlier, Before, Rows
<1>3. IsFiniteSet(Earlier(R, x)) /\ IsFiniteSet(Earlier(R, y))
  BY FS_Subset DEF Earlier
<1>4. /\ Cardinality(Earlier(R, x)) <= Cardinality(Earlier(R, y))
      /\ Cardinality(Earlier(R, x)) # Cardinality(Earlier(R, y))
  BY <1>1, <1>2, <1>3, FS_Subset
<1> QED BY <1>3, <1>4, FS_CardinalityType

LEMMA EarlierIsFewer ==
  ASSUME NEW R \in SUBSET Rows, IsFiniteSet(R), NEW x \in R
  PROVE  /\ Cardinality(R) \in Nat
         /\ Cardinality(Earlier(R, x)) + 1 \in 1 .. Cardinality(R)
<1>1. Earlier(R, x) \subseteq R /\ x \notin Earlier(R, x)
  BY DEF Earlier, Before, Rows
<1>2. IsFiniteSet(Earlier(R, x)) /\ Cardinality(Earlier(R, x)) <= Cardinality(R)
      /\ Cardinality(Earlier(R, x)) # Cardinality(R)
  BY <1>1, FS_Subset
<1>3. Cardinality(R) \in Nat /\ Cardinality(Earlier(R, x)) \in Nat
  BY <1>2, FS_CardinalityType
<1> QED BY <1>2, <1>3

LEMMA RanksDiffer ==
  ASSUME NEW R \in SUBSET Rows, IsFiniteSet(R), NEW x \in R, NEW y \in R, x.id # y.id
  PROVE  Cardinality(Earlier(R, x)) # Cardinality(Earlier(R, y))
<1>1. Before(x, y) \/ Before(y, x)
  BY DEF Before, Rows
<1>2. CASE Before(x, y)
  BY <1>2, EarlierGrows
<1>3. CASE Before(y, x)
  BY <1>3, EarlierGrows
<1> QED BY <1>1, <1>2, <1>3

LEMMA EveryRankIsTaken ==
  ASSUME NEW R \in SUBSET Rows, IsFiniteSet(R), \A x, y \in R : x.id = y.id => x = y,
         NEW k \in 1 .. Cardinality(R)
  PROVE  \E x \in R : Cardinality(Earlier(R, x)) = k - 1
<1> DEFINE n == Cardinality(R)
           rank == [x \in R |-> Cardinality(Earlier(R, x)) + 1]
<1>1. n \in Nat
  BY FS_CardinalityType
<1>2. \A x \in R : rank[x] \in 1 .. n /\ Cardinality(Earlier(R, x)) \in Nat
  BY EarlierIsFewer, EarlierGrows, FS_Subset, FS_CardinalityType DEF Earlier
<1>3. ASSUME NEW x \in R, NEW y \in R, x # y PROVE rank[x] # rank[y]
  <2>1. Cardinality(Earlier(R, x)) # Cardinality(Earlier(R, y))
    BY <1>3, RanksDiffer
  <2> QED BY <1>2, <2>1
<1>4. rank \in Injection(R, 1 .. n)
  BY <1>2, <1>3 DEF Injection, IsInjective
<1>5. IsFiniteSet(1 .. n) /\ Cardinality(1 .. n) = n
  BY <1>1, FS_Interval
<1>6. rank \in Surjection(R, 1 .. n)
  BY <1>4, <1>5, FS_Injection
<1>7. PICK x \in R : rank[x] = k
  BY <1>6 DEF Surjection
<1>8. Cardinality(Earlier(R, x)) \in Nat /\ Cardinality(Earlier(R, x)) + 1 = k
  BY <1>2, <1>7
<1> QED BY <1>8

LEMMA AuditRowsFinite ==
  ASSUME LedgerInv, NEW c \in Campaigns
  PROVE  IsFiniteSet(AuditRows(c)) /\ AuditRows(c) \in SUBSET Rows
<1>1. audit[c] \in Seq(Rows) /\ Len(audit[c]) \in Nat
  BY LenProperties DEF LedgerInv, TypeOK
<1>2. AuditRows(c) \in SUBSET Rows
  BY <1>1, ElementOfSeq DEF AuditRows
<1>3. IsFiniteSet(1 .. Len(audit[c]))
  BY <1>1, FS_Interval
<1> DEFINE row == [i \in 1 .. Len(audit[c]) |-> audit[c][i]]
<1>4. row \in Surjection(1 .. Len(audit[c]), AuditRows(c))
  BY DEF Surjection, AuditRows
<1> HIDE DEF row
<1> QED BY <1>2, <1>3, <1>4, FS_Surjection

\* The history derive_parent_closed_at walks is the audit sorted: each of its rows, and each
\* before the ones that come after it.
THEOREM HistoryIsTheSort ==
  ASSUME LedgerInv, NEW c \in Campaigns, DistinctIds(c)
  PROVE  LET n == Cardinality(AuditRows(c))
             h == History(c)
         IN  /\ n \in Nat /\ h = [k \in 1 .. n |-> h[k]]
             /\ \A k \in 1 .. n : h[k] \in AuditRows(c)
             /\ \A x \in AuditRows(c) : \E k \in 1 .. n : h[k] = x
             /\ \A j, k \in 1 .. n : j < k => Before(h[j], h[k])
<1> DEFINE R == AuditRows(c)
           n == Cardinality(R)
           h == History(c)
<1>1. IsFiniteSet(R) /\ R \in SUBSET Rows /\ n \in Nat
  BY AuditRowsFinite, FS_CardinalityType
<1>2. \A x, y \in R : x.id = y.id => x = y
  BY DEF AuditRows, DistinctIds
<1>3. h = [k \in 1 .. n |-> CHOOSE x \in R : Cardinality(Earlier(R, x)) = k - 1]
  BY DEF History, Earlier
<1> HIDE DEF R, h
<1>4. ASSUME NEW k \in 1 .. n PROVE h[k] \in R /\ Cardinality(Earlier(R, h[k])) = k - 1
  <2>1. \E x \in R : Cardinality(Earlier(R, x)) = k - 1
    BY <1>1, <1>2, EveryRankIsTaken
  <2>2. h[k] = CHOOSE x \in R : Cardinality(Earlier(R, x)) = k - 1
    BY <1>3
  <2> QED BY <2>1, <2>2
<1>5. ASSUME NEW j \in 1 .. n, NEW k \in 1 .. n, j < k PROVE Before(h[j], h[k])
  <2>1. /\ h[j] \in R /\ Cardinality(Earlier(R, h[j])) = j - 1
        /\ h[k] \in R /\ Cardinality(Earlier(R, h[k])) = k - 1
    BY <1>4
  <2>2. h[j].id # h[k].id
    BY <1>1, <1>2, <1>5, <2>1
  <2>3. Before(h[j], h[k]) \/ Before(h[k], h[j])
    BY <1>1, <2>1, <2>2 DEF Before, Rows
  <2>4. ASSUME Before(h[k], h[j]) PROVE FALSE
    <3>1. k - 1 < j - 1
      BY <1>1, <2>1, <2>4, EarlierGrows
    <3> QED BY <1>1, <1>5, <3>1
  <2> QED BY <2>3, <2>4
<1>6. ASSUME NEW x \in R PROVE \E k \in 1 .. n : h[k] = x
  <2>1. PICK k \in 1 .. n : k = Cardinality(Earlier(R, x)) + 1
    BY <1>1, EarlierIsFewer
  <2>2. Cardinality(Earlier(R, x)) \in Nat
    BY <1>1, FS_Subset, FS_CardinalityType DEF Earlier
  <2>3. h[k] \in R /\ Cardinality(Earlier(R, h[k])) = Cardinality(Earlier(R, x))
    BY <1>4, <2>1, <2>2
  <2>4. h[k].id = x.id
    BY <1>1, <2>3, RanksDiffer
  <2> QED BY <1>2, <2>3, <2>4
<1>7. h = [k \in 1 .. n |-> h[k]]
  BY <1>3
<1> QED BY <1>1, <1>4, <1>5, <1>6, <1>7 DEF R, h

\* The instant campaign_lineage.derive_parent_closed_at derives is that of the row that
\* closed the Campaign, however the stamps of racing commands order the rows.
LEMMA DerivedIsLast == LedgerInv => ClosedAtIsSound
<1> SUFFICES ASSUME LedgerInv, NEW c \in Campaigns, DerivedClosedAt(c) # 0
             PROVE  /\ status[c] = "CLOSED"
                    /\ DerivedClosedAt(c) = audit[c][Len(audit[c])].at
  BY DEF ClosedAtIsSound
<1> DEFINE h == History(c)
           n == Cardinality(AuditRows(c))
<1>1. /\ DistinctIds(c) /\ h # <<>> /\ h[Len(h)].to = "CLOSED"
      /\ DerivedClosedAt(c) = h[Len(h)].at
  BY DEF DerivedClosedAt
<1>2. h = [k \in 1 .. n |-> h[k]] /\ n \in Nat /\ \A k \in 1 .. n : h[k] \in AuditRows(c)
  BY <1>1, HistoryIsTheSort
<1> HIDE DEF h, n
<1>3. h \in Seq(AuditRows(c)) /\ Len(h) = n
  BY <1>2
<1>4. n # 0
  BY <1>1, <1>3, EmptySeq
<1>5. h[Len(h)] \in AuditRows(c)
  BY <1>2, <1>3, <1>4
<1>6. PICK i \in 1 .. Len(audit[c]) : h[Len(h)] = audit[c][i]
  BY <1>5 DEF AuditRows
<1>7. i = Len(audit[c]) /\ status[c] = "CLOSED"
  BY <1>1, <1>6, WalkEndsAtClosed DEF ClosingRowIsLast
<1> QED BY <1>1, <1>6, <1>7 DEF h

\* The closing instant of a Campaign is derived only once it is closed, and is the instant of
\* the row that closed it, for any number of commands racing to stamp rows.
THEOREM ClosedAtIsTheClosing == Spec => []ClosedAtIsSound
BY DerivedIsLast, LedgerInvariant, PTL

\* No command gets a Campaign past PRE-ENTRY without an executed BUY that was
\* attributed to it through a decision adding risk.
THEOREM ActiveRestsOnTrade == Spec => []ActiveHadBuy
<1>1. LedgerInv => ActiveHadBuy
  BY DEF LedgerInv
<1> QED BY <1>1, LedgerInvariant, PTL

\* A binding names the frozen revision, whatever happened since it was read.
THEOREM BindingsAreAnchored == Spec => []AnchoredToFrozenRevision
<1>1. LedgerInv => AnchoredToFrozenRevision
  BY DEF LedgerInv
<1> QED BY <1>1, LedgerInvariant, PTL

\* A binding is never replaced, and no two Campaigns share a Thesis.
THEOREM BindingsNeverMove == Spec => BindingsAreFinal
<1> DEFINE Final ==
      \A c, d \in Campaigns :
        /\ binding[c] # None => binding'[c] = binding[c]
        /\ binding'[c] # None /\ c # d /\ binding'[d] # None =>
             binding'[c].thesis # binding'[d].thesis
<1>1. LedgerInv /\ LedgerInv' /\ [Next]_vars => [Final]_vars
  BY BindingStays DEF LedgerInv, OneThesisOneCampaign
<1> HIDE DEF Final
<1>2. Spec => [][Final]_vars
  BY <1>1, LedgerInvariant, PTL DEF Spec
<1> QED BY <1>2 DEF BindingsAreFinal, Final

================================================================================
