----------------------------- MODULE CampaignLedger ----------------------------
(***************************************************************************)
(* The Campaign ledger and the commands that write it: creation, the       *)
(* generic transition, activation over an executed trade, and the binding  *)
(* of a Thesis.                                                            *)
(*                                                                         *)
(* A command checks what it needs in other databases (evidence ledger,     *)
(* trade ledger, attribution store, position reality) before it opens its  *)
(* one write transaction on campaigns.sqlite3.  Only that transaction is   *)
(* atomic, so each read is a step and anything may happen between two.     *)
(***************************************************************************)
EXTENDS CampaignLifecycle, Naturals, Sequences, FiniteSets

CONSTANTS
  Requests,   \* request handlers, in whichever process
  Campaigns, Theses, Trades,
  Fits,       \* <<t, c>>: Thesis t has the subject and strategy of Campaign c
  BuysFor,    \* <<t, c>>: trade t is a BUY of the security of Campaign c
  Commands,   \* bound: the <<expected_status, to_status>> pairs clients send
  Ids,        \* transition ids; their order is the order of the random ids
  MaxClock,   \* bound: last instant of the clock
  MaxEdits,   \* bound: content revisions of a Thesis before it is frozen
  None

ASSUME FitsAssumption == Fits \subseteq Theses \X Campaigns
ASSUME BuysForAssumption == BuysFor \subseteq Trades \X Campaigns
ASSUME CommandsAssumption == Commands \subseteq Statuses \X Statuses
ASSUME IdsAssumption == Ids \subseteq Nat
ASSUME BoundsAssumption == MaxClock \in Nat /\ MaxEdits \in Nat
ASSUME NoneAssumption == None \notin Campaigns \union Theses \union Trades

VARIABLES
  clock,    \* the wall clock
  status,   \* campaigns.status, "ABSENT" before the row exists
  audit,    \* campaign_transitions of each Campaign, in commit order
  binding,  \* campaign_thesis_bindings: [thesis, revision], None while unbound
  thesis,   \* formal state, archiving and revisions of each Thesis
  trade,    \* trade row and its formal attribution
  held,     \* Campaigns whose security has an open position
  req       \* local state of each handler

authorities == <<thesis, trade, held>>
vars == <<clock, status, audit, binding, authorities, req>>

IdleRequest ==
  [pc |-> "idle", campaign |-> None, from |-> "DRAFT", to |-> "DRAFT", at |-> 0,
   id |-> 0, trade |-> None, thesis |-> None, revision |-> 0]

Init ==
  /\ clock = 1
  /\ status = [c \in Campaigns |-> "ABSENT"]
  /\ audit = [c \in Campaigns |-> <<>>]
  /\ binding = [c \in Campaigns |-> None]
  /\ thesis = [t \in Theses |-> [formal |-> "draft", archived |-> FALSE,
                                 revision |-> 1, frozenAt |-> 0]]
  /\ trade = [t \in Trades |-> [state |-> "absent", campaign |-> None,
                                addsRisk |-> FALSE]]
  /\ held = {}
  /\ req = [r \in Requests |-> IdleRequest]

At(r, pc) == req[r].pc = pc

\* Success, conflict and refusal all end the command.
Done(r) == req' = [req EXCEPT ![r] = IdleRequest]

Goto(r, pc) == req' = [req EXCEPT ![r].pc = pc]

--------------------------------------------------------------------------------
CreateCampaign(c) ==
  /\ status[c] = "ABSENT"
  /\ status' = [status EXCEPT ![c] = "DRAFT"]
  /\ UNCHANGED <<clock, audit, binding, authorities, req>>

--------------------------------------------------------------------------------
(***************************************************************************)
(* Transitions.                                                            *)
(***************************************************************************)
StoredIds  == UNION {{audit[c][i].id : i \in 1 .. Len(audit[c])} : c \in Campaigns}
PendingIds == {req[r].id : r \in {q \in Requests : At(q, "persist")}}

\* _persist_transition draws the id and the instant before the store opens
\* its transaction.
Stamp(r, c, from, to) ==
  \E id \in Ids \ (StoredIds \union PendingIds) :
    req' = [req EXCEPT ![r] =
              [IdleRequest EXCEPT !.pc = "persist", !.campaign = c, !.from = from,
                                  !.to = to, !.at = clock, !.id = id]]

\* The generic command: any two statuses the client names, except the edge
\* that needs a trade.
RequestTransition(r, c, from, to) ==
  /\ At(r, "idle")
  /\ ~NeedsActivation(from, to)
  /\ Stamp(r, c, from, to)
  /\ UNCHANGED <<clock, status, audit, binding, authorities>>

\* Mutant: the edge is checked from the status the client expects.
AllowedAsExpected(r) ==
  /\ status[req[r].campaign] # "ABSENT"
  /\ req[r].to \in TransitionGraph[req[r].from]

\* Compare-and-set on the expected status, then the frozen graph.
Allowed(r) ==
  LET c == req[r].campaign IN
  /\ status[c] = req[r].from
  /\ req[r].to \in TransitionGraph[req[r].from]

\* One transaction: the audit row and the status, or neither.
PersistTransition(r) ==
  /\ At(r, "persist")
  /\ Allowed(r)
  /\ LET c == req[r].campaign IN
     /\ audit' = [audit EXCEPT ![c] = Append(@, [from |-> status[c], to |-> req[r].to,
                                                at |-> req[r].at, id |-> req[r].id])]
     /\ status' = [status EXCEPT ![c] = req[r].to]
  /\ Done(r)
  /\ UNCHANGED <<clock, binding, authorities>>

TransitionConflicts(r) ==
  /\ At(r, "persist")
  /\ ~Allowed(r)
  /\ Done(r)
  /\ UNCHANGED <<clock, status, audit, binding, authorities>>

--------------------------------------------------------------------------------
(***************************************************************************)
(* Activation: PRE-ENTRY -> ACTIVE over one executed BUY.  Each step is    *)
(* one authority; any refusal leaves the Campaign as it is.                *)
(***************************************************************************)
RequestActivation(r, c, t) ==
  /\ At(r, "idle")
  /\ status[c] = "PRE-ENTRY"
  /\ req' = [req EXCEPT ![r] = [IdleRequest EXCEPT !.pc = "trade", !.campaign = c,
                                                  !.trade = t]]
  /\ UNCHANGED <<clock, status, audit, binding, authorities>>

\* Each read goes on to the next authority, or ends the command.
Check(r, pc, passed, next) ==
  /\ At(r, pc)
  /\ IF passed THEN Goto(r, next) ELSE Done(r)
  /\ UNCHANGED <<clock, status, audit, binding, authorities>>

Executed(t) == trade[t].state = "executed"

ReadTrade(r) ==
  Check(r, "trade",
        Executed(req[r].trade) /\ <<req[r].trade, req[r].campaign>> \in BuysFor,
        "attribution")

\* Mutant: an attribution to any Campaign, whatever its decision says.
AttributedAnyhow(r) == Executed(req[r].trade) /\ trade[req[r].trade].campaign # None

\* The trade is formally attributed to this Campaign, through a decision that
\* adds risk. A voided trade has no attribution to offer.
Attributed(r) ==
  LET t == trade[req[r].trade] IN
  /\ t.state = "executed"
  /\ t.campaign = req[r].campaign
  /\ t.addsRisk

ReadAttribution(r) == Check(r, "attribution", Attributed(r), "position")

ReadPosition(r) == Check(r, "position", req[r].campaign \in held, "stamp")

StampActivation(r) ==
  /\ At(r, "stamp")
  /\ Stamp(r, req[r].campaign, "PRE-ENTRY", "ACTIVE")
  /\ UNCHANGED <<clock, status, audit, binding, authorities>>

--------------------------------------------------------------------------------
(***************************************************************************)
(* Binding a Thesis.                                                       *)
(***************************************************************************)
RequestBinding(r, c, t) ==
  /\ At(r, "idle")
  /\ status[c] # "ABSENT"
  /\ req' = [req EXCEPT ![r] = [IdleRequest EXCEPT !.pc = "thesis", !.campaign = c,
                                                  !.thesis = t]]
  /\ UNCHANGED <<clock, status, audit, binding, authorities>>

\* Mutant: an archived Thesis is still frozen.
BindableFrozen(c, t) == <<t, c>> \in Fits /\ thesis[t].formal = "frozen"

\* Subject and strategy match; the Thesis is frozen and not archived.
Bindable(c, t) ==
  /\ <<t, c>> \in Fits
  /\ ~thesis[t].archived
  /\ thesis[t].formal = "frozen"

\* The revision read here is the one the binding is anchored to for ever.
ReadThesis(r) ==
  LET t == req[r].thesis IN
  /\ At(r, "thesis")
  /\ IF Bindable(req[r].campaign, t)
       THEN req' = [req EXCEPT ![r].pc = "bind", ![r].revision = thesis[t].revision]
       ELSE Done(r)
  /\ UNCHANGED <<clock, status, audit, binding, authorities>>

\* campaign_id is the primary key, thesis_id is UNIQUE.
Unbound(c, t) ==
  /\ binding[c] = None
  /\ \A d \in Campaigns : binding[d] # None => binding[d].thesis # t

InsertBinding(r) ==
  LET c == req[r].campaign
      t == req[r].thesis IN
  /\ At(r, "bind")
  /\ binding' = IF Unbound(c, t)
                  THEN [binding EXCEPT ![c] = [thesis |-> t, revision |-> req[r].revision]]
                  ELSE binding
  /\ Done(r)
  /\ UNCHANGED <<clock, status, audit, authorities>>

\* The handler's process dies. An open transaction is rolled back, so a death
\* is either before the write or after the whole of it.
HandlerDies(r) ==
  /\ ~At(r, "idle")
  /\ Done(r)
  /\ UNCHANGED <<clock, status, audit, binding, authorities>>

--------------------------------------------------------------------------------
(***************************************************************************)
(* The other ledgers, as far as these commands read them.                  *)
(***************************************************************************)
NextRevision(t) == thesis[t].revision + 1

EditThesis(t) ==
  /\ thesis[t].formal = "draft"
  /\ thesis[t].revision <= MaxEdits
  /\ thesis' = [thesis EXCEPT ![t].revision = @ + 1]
  /\ UNCHANGED <<clock, status, audit, binding, trade, held, req>>

ConfirmThesis(t) ==
  /\ thesis[t].formal = "draft"
  /\ thesis' = [thesis EXCEPT ![t].formal = "confirmed"]
  /\ UNCHANGED <<clock, status, audit, binding, trade, held, req>>

FreezeThesis(t) ==
  /\ thesis[t].formal = "confirmed"
  /\ thesis' = [thesis EXCEPT ![t] = [thesis[t] EXCEPT !.formal = "frozen",
                                                      !.revision = NextRevision(t),
                                                      !.frozenAt = NextRevision(t)]]
  /\ UNCHANGED <<clock, status, audit, binding, trade, held, req>>

\* Archiving is a revision of its own.
ArchiveThesis(t) ==
  /\ thesis[t].formal = "frozen"
  /\ ~thesis[t].archived
  /\ thesis' = [thesis EXCEPT ![t] = [thesis[t] EXCEPT !.archived = TRUE,
                                                      !.revision = NextRevision(t)]]
  /\ UNCHANGED <<clock, status, audit, binding, trade, held, req>>

ExecuteTrade(t) ==
  /\ trade[t].state = "absent"
  /\ trade' = [trade EXCEPT ![t].state = "executed"]
  /\ UNCHANGED <<clock, status, audit, binding, thesis, held, req>>

\* An attribution is written once, while the trade stands.
AttributeTrade(t, c, addsRisk) ==
  /\ Executed(t)
  /\ trade[t].campaign = None
  /\ trade' = [trade EXCEPT ![t].campaign = c, ![t].addsRisk = addsRisk]
  /\ UNCHANGED <<clock, status, audit, binding, thesis, held, req>>

VoidTrade(t) ==
  /\ Executed(t)
  /\ trade' = [trade EXCEPT ![t].state = "voided"]
  /\ UNCHANGED <<clock, status, audit, binding, thesis, held, req>>

PositionMoves(c) ==
  /\ held' = IF c \in held THEN held \ {c} ELSE held \union {c}
  /\ UNCHANGED <<clock, status, audit, binding, thesis, trade, req>>

Tick ==
  /\ clock < MaxClock
  /\ clock' = clock + 1
  /\ UNCHANGED <<status, audit, binding, authorities, req>>

--------------------------------------------------------------------------------
Step(r) ==
  \/ PersistTransition(r) \/ TransitionConflicts(r)
  \/ ReadTrade(r) \/ ReadAttribution(r) \/ ReadPosition(r) \/ StampActivation(r)
  \/ ReadThesis(r) \/ InsertBinding(r)
  \/ HandlerDies(r)

Begin(r) ==
  \E c \in Campaigns :
    \/ \E m \in Commands : RequestTransition(r, c, m[1], m[2])
    \/ \E t \in Trades : RequestActivation(r, c, t)
    \/ \E t \in Theses : RequestBinding(r, c, t)

Environment ==
  \/ \E t \in Theses :
       EditThesis(t) \/ ConfirmThesis(t) \/ FreezeThesis(t) \/ ArchiveThesis(t)
  \/ \E t \in Trades :
       \/ ExecuteTrade(t) \/ VoidTrade(t)
       \/ \E c \in Campaigns, addsRisk \in BOOLEAN :
            <<t, c>> \in BuysFor /\ AttributeTrade(t, c, addsRisk)
  \/ \E c \in Campaigns : PositionMoves(c)
  \/ Tick

Next ==
  \/ \E c \in Campaigns : CreateCampaign(c)
  \/ \E r \in Requests : Begin(r) \/ Step(r)
  \/ Environment

Spec == Init /\ [][Next]_vars
--------------------------------------------------------------------------------
(***************************************************************************)
(* campaign_lineage.derive_parent_closed_at: the closing instant, derived  *)
(* from the audit rows sorted by (transitioned_at, transition_id).         *)
(***************************************************************************)
Before(x, y) == x.at < y.at \/ (x.at = y.at /\ x.id < y.id)

AuditRows(c) == {audit[c][i] : i \in 1 .. Len(audit[c])}

\* The k-th row of the sorted history is the one with k - 1 rows before it.
History(c) ==
  [k \in 1 .. Cardinality(AuditRows(c)) |->
     CHOOSE x \in AuditRows(c) : Cardinality({y \in AuditRows(c) : Before(y, x)}) = k - 1]

\* A history in which two rows have one id is refused.
DistinctIds(c) ==
  \A i, j \in 1 .. Len(audit[c]) : audit[c][i].id = audit[c][j].id => i = j

Contiguous(h) ==
  \A i \in 1 .. Len(h) :
    /\ h[i].to \in TransitionGraph[h[i].from]
    /\ i > 1 => h[i].from = h[i - 1].to

\* Mutant: the last row decides, whatever the rows before it say.
LastRowInstant(c) ==
  LET h == History(c) IN IF h = <<>> THEN 0 ELSE h[Len(h)].at

\* The instant, 0 (None in the code) unless the sorted history is a legal
\* path to CLOSED.
DerivedClosedAt(c) ==
  LET h == History(c) IN
  IF DistinctIds(c) /\ h # <<>> /\ Contiguous(h) /\ h[Len(h)].to = "CLOSED"
  THEN h[Len(h)].at ELSE 0
--------------------------------------------------------------------------------
(***************************************************************************)
(* Safety.                                                                 *)
(***************************************************************************)
Rows == [from : Statuses, to : Statuses, at : Nat, id : Nat]

RequestStates ==
  [pc : {"idle", "persist", "trade", "attribution", "position", "stamp", "thesis", "bind"},
   campaign : Campaigns \union {None}, from : Statuses, to : Statuses, at : Nat,
   id : Nat, trade : Trades \union {None}, thesis : Theses \union {None},
   revision : Nat]

\* Type invariant; a handler that is not idle works on a Campaign that exists.
TypeOK ==
  /\ clock \in Nat
  /\ status \in [Campaigns -> Statuses \union {"ABSENT"}]
  /\ audit \in [Campaigns -> Seq(Rows)]
  /\ binding \in [Campaigns -> [thesis : Theses, revision : Nat] \union {None}]
  /\ thesis \in [Theses -> [formal : {"draft", "confirmed", "frozen"}, archived : BOOLEAN,
                            revision : Nat, frozenAt : Nat]]
  /\ trade \in [Trades -> [state : {"absent", "executed", "voided"},
                           campaign : Campaigns \union {None}, addsRisk : BOOLEAN]]
  /\ held \subseteq Campaigns
  /\ req \in [Requests -> RequestStates]
  /\ \A r \in Requests : ~At(r, "idle") => req[r].campaign \in Campaigns

\* The audit rows of a Campaign, in the order they were committed, are one
\* walk through the lifecycle graph from DRAFT to the present status.
AuditMatchesStatus ==
  \A c \in Campaigns :
    LET h == audit[c] IN
    /\ \A i \in 1 .. Len(h) :
         /\ h[i].to \in TransitionGraph[h[i].from]
         /\ h[i].from = IF i = 1 THEN "DRAFT" ELSE h[i - 1].to
    /\ status[c] = "ABSENT" => h = <<>>
    /\ h = <<>> => status[c] \in {"ABSENT", "DRAFT"}
    /\ h # <<>> => status[c] = h[Len(h)].to

\* Whenever a closing instant is derived from the sorted rows, the Campaign is
\* closed and it is the instant of the row that closed it, although rows are
\* stamped before they are committed.
ClosedAtIsSound ==
  \A c \in Campaigns : DerivedClosedAt(c) # 0 =>
    /\ status[c] = "CLOSED"
    /\ DerivedClosedAt(c) = audit[c][Len(audit[c])].at

\* Trade t was executed and gives Campaign c the right to become ACTIVE.
Entitles(t, c) ==
  /\ <<t, c>> \in BuysFor
  /\ trade[t].state \in {"executed", "voided"}
  /\ trade[t].campaign = c
  /\ trade[t].addsRisk

HadBuy(c) == \E t \in Trades : Entitles(t, c)

\* A Campaign past PRE-ENTRY had a BUY of its security executed and attributed
\* to it through a decision that adds risk; the trade may be voided later.
ActiveHadBuy ==
  \A c \in Campaigns : status[c] \in {"ACTIVE", "REDUCING", "CLOSED"} => HadBuy(c)

\* A binding is anchored to the frozen revision of a Thesis that fits the
\* Campaign, never to a draft revision or to the archiving that follows.
AnchoredToFrozenRevision ==
  \A c \in Campaigns : binding[c] # None =>
    /\ <<binding[c].thesis, c>> \in Fits
    /\ thesis[binding[c].thesis].formal = "frozen"
    /\ binding[c].revision = thesis[binding[c].thesis].frozenAt

\* One Thesis serves one Campaign, however the binding commands interleave,
\* and a binding is never replaced.
BindingsAreFinal ==
  [][\A c, d \in Campaigns :
       /\ binding[c] # None => binding'[c] = binding[c]
       /\ binding'[c] # None /\ c # d /\ binding'[d] # None =>
            binding'[c].thesis # binding'[d].thesis]_vars

(***************************************************************************)
(* Why it holds: what a command checked in another database is of a kind   *)
(* that cannot become false before its transaction, except the void, the   *)
(* position and the archiving, of which nothing is claimed.                *)
(***************************************************************************)
\* A frozen Thesis keeps its revision until it is archived.
ThesisFrozen ==
  \A t \in Theses :
    /\ thesis[t].archived => thesis[t].formal = "frozen"
    /\ thesis[t].formal = "frozen" /\ ~thesis[t].archived =>
         thesis[t].revision = thesis[t].frozenAt

AttributedWasExecuted ==
  \A t \in Trades : trade[t].campaign # None => trade[t].state # "absent"

ActivationChecked ==
  \A r \in Requests :
    /\ At(r, "trade") => req[r].trade \in Trades
    /\ At(r, "attribution") => <<req[r].trade, req[r].campaign>> \in BuysFor
    /\ req[r].pc \in {"position", "stamp"} => Entitles(req[r].trade, req[r].campaign)
    /\ At(r, "persist") /\ NeedsActivation(req[r].from, req[r].to) =>
         HadBuy(req[r].campaign)

BindingChecked ==
  \A r \in Requests :
    /\ At(r, "thesis") => req[r].thesis \in Theses
    /\ At(r, "bind") =>
         /\ <<req[r].thesis, req[r].campaign>> \in Fits
         /\ thesis[req[r].thesis].formal = "frozen"
         /\ req[r].revision = thesis[req[r].thesis].frozenAt

OneThesisOneCampaign ==
  \A c, d \in Campaigns :
    binding[c] # None /\ binding[d] # None /\ c # d => binding[c].thesis # binding[d].thesis

\* The inductive invariant of the Campaign ledger.
LedgerInv ==
  /\ TypeOK
  /\ AuditMatchesStatus
  /\ ThesisFrozen /\ AttributedWasExecuted
  /\ ActivationChecked /\ BindingChecked
  /\ ActiveHadBuy /\ AnchoredToFrozenRevision /\ OneThesisOneCampaign
================================================================================
