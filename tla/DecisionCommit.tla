---------------------------- MODULE DecisionCommit -----------------------------
(***************************************************************************)
(* The formal decision path: deterministic preview, challenge packet,      *)
(* explicit commit into the append-only Frozen Decision ledger, and the    *)
(* Campaign, Thesis and authority writers that run beside it.              *)
(*                                                                         *)
(* Three SQLite files take part (campaigns, evidence ledger, frozen        *)
(* decisions) plus the challenge packets; no transaction spans two of      *)
(* them.  A request handler is a thread of a backend process; each of its  *)
(* reads and its one write is a step here, and steps of all handlers       *)
(* interleave.  Two locks order them: _COMMIT_LOCK, one per process, and   *)
(* the Campaign writer reservation (BEGIN IMMEDIATE), one for all.         *)
(***************************************************************************)
EXTENDS CampaignLifecycle, Integers, Sequences, FiniteSets

CONSTANTS
  Backends,     \* backend processes
  Requests,     \* request handlers
  HomeOf,       \* the backend each handler runs in
  Serves,       \* bound: the kinds of request each handler receives
  Campaigns,
  Drafts,       \* user drafts: the three views and the commit fields
  ReviewBy,     \* the review_by instant of each draft
  DeltaStates,  \* states a Thesis delta may confirm
  MaxClock,     \* bound: last instant of the shared clock
  MaxPreviews,  \* bound: proposals handed out
  MaxDeltas,    \* bound: deltas per Thesis
  None

Kinds == {"preview", "challenge", "commit"}

ASSUME HomeAssumption == HomeOf \in [Requests -> Backends]
ASSUME ServesAssumption == Serves \in [Requests -> SUBSET Kinds]
ASSUME DraftAssumption == ReviewBy \in [Drafts -> Nat]
ASSUME DeltaAssumption ==
  DeltaStates \subseteq {"STRENGTHENED", "STABLE", "WEAKENED", "UNKNOWN",
                          "DISPROVEN", "INVALIDATED"}
ASSUME BoundAssumption == MaxClock \in Nat /\ MaxPreviews \in Nat /\ MaxDeltas \in Nat
ASSUME NoneAssumption == None \notin Requests

TerminalDelta == {"DISPROVEN", "INVALIDATED"}
ThesisStates  == {"STABLE"} \union DeltaStates

(***************************************************************************)
(* A proposal is the content its sha256 fingerprint covers, so two         *)
(* proposals have one fingerprint exactly when they are the same record.   *)
(* candidate is "NONE" unless the Campaign was read in PRE-ENTRY; then it  *)
(* says whether the critical data, position and account authorities        *)
(* support added risk.  boundary says whether an earlier decision was      *)
(* visible at asOf (it decides which authorities are evaluated).           *)
(***************************************************************************)
Proposals ==
  [campaign : Campaigns, draft : Drafts, asOf : Nat, thesis : ThesisStates,
   candidate : {"NONE", "WAIT", "BUY"}, boundary : BOOLEAN]

\* The draft a client sends before any authority has been read.
Blank(c, d, t) ==
  [campaign |-> c, draft |-> d, asOf |-> t, thesis |-> "STABLE",
   candidate |-> "NONE", boundary |-> FALSE]

\* next_best_action \in BUY_ACTIONS. Only the PRE-ENTRY envelope holds BUY
\* actions, and only over a Thesis that is STABLE or STRENGTHENED.
IsBuy(p) == p.candidate = "BUY" /\ p.thesis \in {"STABLE", "STRENGTHENED"}

Outcomes == {"none", "answered", "stale", "rejected", "failed"}
Pcs      == {"idle", "lock", "campaign", "frozen", "thesis", "build", "finalize",
             "hold", "marker", "stamp", "validate", "insert", "readback"}

VARIABLES
  clock,        \* the wall clock every process reads
  status,       \* campaigns.status
  boundAt,      \* bound_at of the Campaign's Thesis binding, 0 while unbound
  deltas,       \* delta chain of the Thesis the Campaign is (to be) bound to
  market,       \* what the candidate authorities support at the moment
  activation,   \* the activation command that runs for each Campaign
  packets,      \* finalized challenge packets, unique per proposal
  ledger,       \* frozen_decisions rows in insertion order
  previews,     \* proposals clients have received
  commitLock,   \* holder of each process's _COMMIT_LOCK
  reservation,  \* holder of the Campaign writer reservation
  req           \* local state of each request handler

\* What the handlers only read, and the activation commands beside them.
authorities == <<clock, status, boundAt, deltas, market, activation>>
vars == <<authorities, packets, ledger, previews, commitLock, reservation, req>>

NothingSeen == [status |-> "DRAFT", rows |-> 0, thesis |-> "STABLE"]

\* row is the ledger row the command has found its BUY decision in.
NoActivation == [step |-> "none", row |-> 0]

IdleRequest ==
  [pc |-> "idle", kind |-> "preview", asked |-> None, challenged |-> FALSE,
   seen |-> NothingSeen, stamp |-> 0, row |-> 0, outcome |-> "none"]

Init ==
  /\ clock = 1
  /\ status = [c \in Campaigns |-> "DRAFT"]
  /\ boundAt = [c \in Campaigns |-> 0]
  /\ deltas = [c \in Campaigns |-> <<>>]
  /\ market = [c \in Campaigns |-> "WAIT"]
  /\ activation = [c \in Campaigns |-> NoActivation]
  /\ packets = {}
  /\ ledger = <<>>
  /\ previews = {}
  /\ commitLock = [b \in Backends |-> None]
  /\ reservation = None
  /\ req = [r \in Requests |-> IdleRequest]

--------------------------------------------------------------------------------
(***************************************************************************)
(* Reading the authorities.                                                *)
(***************************************************************************)
EffectiveState(chain) ==
  IF chain = <<>> THEN "STABLE" ELSE chain[Len(chain)].state

\* Mutant: only the binding's instant is compared with as_of.
LookaheadBindingOnly(c, asOf) == boundAt[c] > asOf

\* A binding or a delta younger than asOf makes the Thesis not applicable.
Lookahead(c, asOf) ==
  \/ boundAt[c] > asOf
  \/ \E i \in 1 .. Len(deltas[c]) : deltas[c][i].at > asOf

\* Rows among the first n that carry the marker of proposal p.
RowsOf(p, n) == {i \in 1 .. n : ledger[i].marker = p}

\* Was a decision of p's Campaign visible at p's as_of? A replay recomputes
\* the proposal with its own row left out.
PriorDecision(p, n, without) ==
  \E i \in (1 .. n) \ without :
     /\ ledger[i].marker.campaign = p.campaign
     /\ ledger[i].committedAt <= p.asOf

\* What the candidate authorities support now, read for a PRE-ENTRY Campaign only.
Candidate(r) ==
  IF req[r].seen.status = "PRE-ENTRY" THEN market[req[r].asked.campaign] ELSE "NONE"

\* The authorities evaluated over what request r has read of Thesis and ledger.
Evaluated(r, without) ==
  [thesis   |-> req[r].seen.thesis,
   boundary |-> PriorDecision(req[r].asked, req[r].seen.rows, without)]

\* The proposal for the asked campaign, draft and as_of they compose.
Composed(p, authority, candidate) ==
  [p EXCEPT !.thesis = authority.thesis, !.candidate = candidate,
            !.boundary = authority.boundary]

Built(r, without) == Composed(req[r].asked, Evaluated(r, without), Candidate(r))

PacketFor(p) == {k \in packets : k.marker = p}

--------------------------------------------------------------------------------
(***************************************************************************)
(* Control of a handler.                                                   *)
(***************************************************************************)
At(r, pc) == req[r].pc = pc

\* Mutant: the Campaign connection is left in its transaction.
ReleaseProcessLockOnly(rs) ==
  /\ commitLock' = [b \in Backends |->
                      IF commitLock[b] \in rs THEN None ELSE commitLock[b]]
  /\ UNCHANGED reservation

\* Leaving the `with` blocks releases whatever the handler holds.
ReleaseAll(rs) ==
  /\ commitLock' = [b \in Backends |->
                      IF commitLock[b] \in rs THEN None ELSE commitLock[b]]
  /\ reservation' = IF reservation \in rs THEN None ELSE reservation

\* The client has its answer; the handler is free for another request.
Answer(r, outcome) ==
  /\ req' = [req EXCEPT ![r] = [IdleRequest EXCEPT !.outcome = outcome]]
  /\ ReleaseAll({r})

Goto(r, pc) ==
  /\ req' = [req EXCEPT ![r].pc = pc]
  /\ UNCHANGED <<commitLock, reservation>>

--------------------------------------------------------------------------------
(***************************************************************************)
(* Requests arriving. A preview takes as_of from the clock before it reads *)
(* anything; challenge and commit requests carry a proposal the client was *)
(* shown.                                                                  *)
(***************************************************************************)
Arrive(r, kind, pc, p, challenged) ==
  /\ At(r, "idle")
  /\ kind \in Serves[r]
  /\ req' = [req EXCEPT ![r] = [IdleRequest EXCEPT !.pc = pc, !.kind = kind,
                                  !.asked = p, !.challenged = challenged]]
  /\ UNCHANGED <<authorities, packets, ledger, previews, commitLock, reservation>>

BeginPreview(r, c, d) ==
  /\ Cardinality(previews) < MaxPreviews
  /\ ReviewBy[d] > clock
  /\ Arrive(r, "preview", "campaign", Blank(c, d, clock), FALSE)

BeginChallenge(r, p) ==
  /\ ReviewBy[p.draft] > clock
  /\ Arrive(r, "challenge", "campaign", p, FALSE)

BeginCommit(r, p, challenged) == Arrive(r, "commit", "lock", p, challenged)

AcquireCommitLock(r) ==
  /\ At(r, "lock")
  /\ commitLock[HomeOf[r]] = None
  /\ commitLock' = [commitLock EXCEPT ![HomeOf[r]] = r]
  /\ req' = [req EXCEPT ![r].pc = "campaign"]
  /\ UNCHANGED <<authorities, packets, ledger, previews, reservation>>

--------------------------------------------------------------------------------
(***************************************************************************)
(* Reading. Previews read Campaign, Thesis, ledger; commits read the       *)
(* ledger before the Thesis, because a row that already carries the marker *)
(* makes the request a replay, which a terminal Campaign still answers.    *)
(***************************************************************************)
ReadCampaign(r) ==
  /\ At(r, "campaign")
  /\ LET seen == status[req[r].asked.campaign] IN
     IF req[r].kind = "commit"
       THEN /\ req' = [req EXCEPT ![r].pc = "frozen", ![r].seen.status = seen]
            /\ UNCHANGED <<commitLock, reservation>>
       ELSE IF seen \in Terminal
         THEN Answer(r, "rejected")
         ELSE /\ req' = [req EXCEPT ![r].pc = "thesis", ![r].seen.status = seen]
              /\ UNCHANGED <<commitLock, reservation>>
  /\ UNCHANGED <<authorities, packets, ledger, previews>>

ReadThesis(r) ==
  /\ At(r, "thesis")
  /\ LET c == req[r].asked.campaign IN
     IF boundAt[c] = 0 \/ Lookahead(c, req[r].asked.asOf)
       THEN Answer(r, "stale")
       ELSE /\ req' = [req EXCEPT ![r].pc = IF req[r].kind = "commit"
                                              THEN "build" ELSE "frozen",
                                  ![r].seen.thesis = EffectiveState(deltas[c])]
            /\ UNCHANGED <<commitLock, reservation>>
  /\ UNCHANGED <<authorities, packets, ledger, previews>>

ReadFrozen(r) ==
  /\ At(r, "frozen")
  /\ IF /\ req[r].kind = "commit"
        /\ RowsOf(req[r].asked, Len(ledger)) = {}
        /\ req[r].seen.status \in Terminal
       THEN Answer(r, "rejected")
       ELSE /\ req' = [req EXCEPT ![r].pc = IF req[r].kind = "commit"
                                              THEN "thesis" ELSE "build",
                                  ![r].seen.rows = Len(ledger)]
            /\ UNCHANGED <<commitLock, reservation>>
  /\ UNCHANGED <<authorities, packets, ledger, previews>>

--------------------------------------------------------------------------------
(***************************************************************************)
(* Preview and challenge packets.                                          *)
(***************************************************************************)
BuildPreview(r) ==
  /\ At(r, "build")
  /\ req[r].kind = "preview"
  /\ previews' = previews \union {Built(r, {})}
  /\ Answer(r, "answered")
  /\ UNCHANGED <<authorities, packets, ledger>>

\* finalize_decision_challenge reproduces the preview at the same as_of.
BuildChallenge(r) ==
  /\ At(r, "build")
  /\ req[r].kind = "challenge"
  /\ IF Built(r, {}) = req[r].asked
       THEN /\ req' = [req EXCEPT ![r].pc = "finalize", ![r].stamp = clock,
                                   ![r].seen = NothingSeen]
            /\ UNCHANGED <<commitLock, reservation>>
       ELSE Answer(r, "stale")
  /\ UNCHANGED <<authorities, packets, ledger, previews>>

\* proposal_fingerprint is UNIQUE: a second finalize returns the first packet.
AppendChallenge(r) ==
  /\ At(r, "finalize")
  /\ packets' = IF PacketFor(req[r].asked) # {} THEN packets
                ELSE packets \union {[marker |-> req[r].asked,
                                      finalizedAt |-> req[r].stamp]}
  /\ Answer(r, "answered")
  /\ UNCHANGED <<authorities, ledger, previews>>

--------------------------------------------------------------------------------
(***************************************************************************)
(* Commit: revalidate, then write under the Campaign reservation.          *)
(***************************************************************************)
NeedsChallenge(r, p) == IsBuy(p) /\ ~req[r].challenged

\* Mutant: a replay does not look at the challenge the row was bound to.
ReplayRefusedUnbound(r, i) ==
  /\ req[r].challenged
  /\ PacketFor(req[r].asked) = {}

\* The row an earlier commit of the same proposal left, with the packet it
\* was bound to: a different challenge may not replace it.
ReplayRefused(r, i) ==
  /\ req[r].challenged
  /\ PacketFor(req[r].asked) = {} \/ ~ledger[i].challenged

\* What was read is not looked at again.
Used(r, pc, row) ==
  /\ req' = [req EXCEPT ![r].pc = pc, ![r].row = row, ![r].seen = NothingSeen]
  /\ UNCHANGED <<commitLock, reservation>>

\* A replay is compared with the proposal rebuilt without its own row; whether a
\* challenge is required is asked of the proposal as it is built now.
BuildCommit(r) ==
  /\ At(r, "build")
  /\ req[r].kind = "commit"
  /\ LET existing == RowsOf(req[r].asked, req[r].seen.rows)
         same == Built(r, existing) = req[r].asked
         unchallenged == NeedsChallenge(r, Built(r, {}))
         accepted == same /\ ~unchallenged
     IN \/ ~same /\ Answer(r, "stale")
        \/ same /\ unchallenged /\ Answer(r, "rejected")
        \/ accepted /\ existing = {} /\ Used(r, "hold", 0)
        \/ accepted /\ \E i \in existing : ReplayRefused(r, i) /\ Answer(r, "rejected")
        \/ accepted /\ \E i \in existing : ~ReplayRefused(r, i) /\ Used(r, "readback", i)
  /\ UNCHANGED <<authorities, packets, ledger, previews>>

\* hold_campaign_state: BEGIN IMMEDIATE, then the final Campaign check.
HoldCampaign(r) ==
  /\ At(r, "hold")
  /\ reservation = None
  /\ IF status[req[r].asked.campaign] \in Terminal
       THEN Answer(r, "rejected")
       ELSE /\ req' = [req EXCEPT ![r].pc = "marker"]
            /\ reservation' = r
            /\ UNCHANGED commitLock
  /\ UNCHANGED <<authorities, packets, ledger, previews>>

\* The 10 s SQLite busy timeout: fail closed, nothing written.
HoldBusy(r) ==
  /\ At(r, "hold")
  /\ reservation # None
  /\ Answer(r, "failed")
  /\ UNCHANGED <<authorities, packets, ledger, previews>>

\* Mutant: the ledger is not read again under the reservation.
CheckMarkerTrusted(r) ==
  /\ At(r, "marker")
  /\ Goto(r, "stamp")
  /\ UNCHANGED <<authorities, packets, ledger, previews>>

\* Another process may have committed the proposal since r read the ledger.
CheckMarker(r) ==
  /\ At(r, "marker")
  /\ IF RowsOf(req[r].asked, Len(ledger)) # {}
       THEN Answer(r, "stale") ELSE Goto(r, "stamp")
  /\ UNCHANGED <<authorities, packets, ledger, previews>>

\* Mutant: a decision may be committed at the review instant itself.
StampDecisionAtReview(r) ==
  /\ At(r, "stamp")
  /\ IF ReviewBy[req[r].asked.draft] < clock
       THEN Answer(r, "rejected")
       ELSE /\ req' = [req EXCEPT ![r].pc = "validate", ![r].stamp = clock]
            /\ UNCHANGED <<commitLock, reservation>>
  /\ UNCHANGED <<authorities, packets, ledger, previews>>

\* _freeze_decision takes committed_at and checks the review boundary.
StampDecision(r) ==
  /\ At(r, "stamp")
  /\ IF ReviewBy[req[r].asked.draft] <= clock
       THEN Answer(r, "rejected")
       ELSE /\ req' = [req EXCEPT ![r].pc = "validate", ![r].stamp = clock]
            /\ UNCHANGED <<commitLock, reservation>>
  /\ UNCHANGED <<authorities, packets, ledger, previews>>

\* Mutant: the packet's finalization instant is not compared.
ChallengeBindsUndated(r) ==
  req[r].challenged => PacketFor(req[r].asked) # {}

\* The packet a commit names must exist and must not be younger than the row.
ChallengeBinds(r) ==
  req[r].challenged =>
    \E k \in PacketFor(req[r].asked) : k.finalizedAt <= req[r].stamp

\* The service-owned pre-write validator.
PreWriteValidate(r) ==
  /\ At(r, "validate")
  /\ IF status[req[r].asked.campaign] \in Terminal \/ ~ChallengeBinds(r)
       THEN Answer(r, "rejected") ELSE Goto(r, "insert")
  /\ UNCHANGED <<authorities, packets, ledger, previews>>

\* The row of r's proposal, with the packet the commit names in its references.
FrozenRow(r) ==
  [marker |-> req[r].asked, committedAt |-> req[r].stamp, challenged |-> req[r].challenged]

\* write_frozen_decision; the reservation ends once the row is durable.
InsertDecision(r) ==
  /\ At(r, "insert")
  /\ ledger' = Append(ledger, FrozenRow(r))
  /\ req' = [req EXCEPT ![r].pc = "readback", ![r].row = Len(ledger) + 1]
  /\ reservation' = None
  /\ UNCHANGED <<authorities, packets, previews, commitLock>>

\* The insert aborts (busy or failing frozen store): rolled back, no row.
InsertAborts(r) ==
  /\ At(r, "insert")
  /\ Answer(r, "failed")
  /\ UNCHANGED <<authorities, packets, ledger, previews>>

ReadBack(r) ==
  /\ At(r, "readback")
  /\ Answer(r, "answered")
  /\ UNCHANGED <<authorities, packets, ledger, previews>>

\* The row stays; the client sees an error and must retry the exact request.
ReadBackFails(r) ==
  /\ At(r, "readback")
  /\ Answer(r, "failed")
  /\ UNCHANGED <<authorities, packets, ledger, previews>>

\* A process dies: its handlers vanish, its locks and open transaction end.
Crash(b) ==
  LET dead == {r \in Requests : HomeOf[r] = b} IN
  /\ \E r \in dead : ~At(r, "idle")
  /\ req' = [r \in Requests |-> IF r \in dead THEN IdleRequest ELSE req[r]]
  /\ ReleaseAll(dead)
  /\ UNCHANGED <<authorities, packets, ledger, previews>>

--------------------------------------------------------------------------------
(***************************************************************************)
(* The writers beside it. Every Campaign write needs the writer lock the   *)
(* reservation holds.                                                      *)
(***************************************************************************)
WriterFree == reservation = None

others == <<packets, ledger, previews, commitLock, reservation, req>>

\* The generic transition command.
TransitionCampaign(c, to) ==
  /\ WriterFree
  /\ to \in TransitionGraph[status[c]]
  /\ ~NeedsActivation(status[c], to)
  /\ status' = [status EXCEPT ![c] = to]
  /\ UNCHANGED <<clock, boundAt, deltas, market, activation, others>>

\* The activation command, over a trade attributed to a BUY decision. It reads
\* the Campaign, then the decision in another database, and writes afterwards;
\* no lock spans the three. One command per Campaign: of two that overlap, the
\* write lets one pass, and status never comes back to PRE-ENTRY.
BeginActivation(c) ==
  /\ activation[c].step = "none"
  /\ status[c] = "PRE-ENTRY"
  /\ activation' = [activation EXCEPT ![c].step = "begun"]
  /\ UNCHANGED <<clock, status, boundAt, deltas, market, others>>

Found(c, i) ==
  /\ activation' = [activation EXCEPT ![c] = [step |-> "found", row |-> i]]
  /\ UNCHANGED <<clock, status, boundAt, deltas, market, others>>

\* Mutant: next_best_action of the decision is not looked at.
FindAnyDecision(c) ==
  /\ activation[c].step = "begun"
  /\ \E i \in 1 .. Len(ledger) : ledger[i].marker.campaign = c /\ Found(c, i)

FindDecision(c) ==
  /\ activation[c].step = "begun"
  /\ \E i \in 1 .. Len(ledger) :
       ledger[i].marker.campaign = c /\ IsBuy(ledger[i].marker) /\ Found(c, i)

\* _persist_transition: only the status is compared again, not the decision.
ActivateCampaign(c) ==
  /\ WriterFree
  /\ activation[c].step = "found"
  /\ status[c] = "PRE-ENTRY"
  /\ status' = [status EXCEPT ![c] = "ACTIVE"]
  /\ activation' = [activation EXCEPT ![c] = NoActivation]
  /\ UNCHANGED <<clock, boundAt, deltas, market, others>>

\* A check or a read fails, the status has moved, the writer stays busy, or the
\* process dies: nothing is written.
AbandonActivation(c) ==
  /\ activation[c].step # "none"
  /\ activation' = [activation EXCEPT ![c] = NoActivation]
  /\ UNCHANGED <<clock, status, boundAt, deltas, market, others>>

\* The instant is taken before the write transaction starts, so it may be
\* older than the transaction.
BindThesis(c, at) ==
  /\ WriterFree
  /\ boundAt[c] = 0
  /\ boundAt' = [boundAt EXCEPT ![c] = at]
  /\ UNCHANGED <<clock, status, deltas, market, activation, others>>

ConfirmDelta(c, s, at) ==
  /\ Len(deltas[c]) < MaxDeltas
  /\ EffectiveState(deltas[c]) \notin TerminalDelta
  /\ deltas' = [deltas EXCEPT ![c] = Append(@, [state |-> s, at |-> at])]
  /\ UNCHANGED <<clock, status, boundAt, market, activation, others>>

MarketMoves(c) ==
  /\ market' = [market EXCEPT ![c] = IF @ = "BUY" THEN "WAIT" ELSE "BUY"]
  /\ UNCHANGED <<clock, status, boundAt, deltas, activation, others>>

Tick ==
  /\ clock < MaxClock
  /\ clock' = clock + 1
  /\ UNCHANGED <<status, boundAt, deltas, market, activation, others>>

--------------------------------------------------------------------------------
Step(r) ==
  \/ AcquireCommitLock(r)
  \/ ReadCampaign(r) \/ ReadThesis(r) \/ ReadFrozen(r)
  \/ BuildPreview(r) \/ BuildChallenge(r) \/ AppendChallenge(r)
  \/ BuildCommit(r)
  \/ HoldCampaign(r) \/ HoldBusy(r) \/ CheckMarker(r) \/ StampDecision(r)
  \/ PreWriteValidate(r) \/ InsertDecision(r) \/ InsertAborts(r)
  \/ ReadBack(r) \/ ReadBackFails(r)

Begin(r) ==
  \/ \E c \in Campaigns, d \in Drafts : BeginPreview(r, c, d)
  \/ \E p \in previews : BeginChallenge(r, p)
  \/ \E p \in previews, challenged \in BOOLEAN : BeginCommit(r, p, challenged)

Environment ==
  \/ \E c \in Campaigns :
       \/ \E to \in Statuses : TransitionCampaign(c, to)
       \/ BeginActivation(c) \/ FindDecision(c)
       \/ ActivateCampaign(c) \/ AbandonActivation(c)
       \/ MarketMoves(c)
       \/ \E at \in 1 .. clock :
            \/ BindThesis(c, at)
            \/ \E s \in DeltaStates : ConfirmDelta(c, s, at)
  \/ Tick

Next ==
  \/ \E r \in Requests : Begin(r) \/ Step(r)
  \/ \E b \in Backends : Crash(b)
  \/ Environment

Spec == Init /\ [][Next]_vars
--------------------------------------------------------------------------------
(***************************************************************************)
(* Safety.                                                                 *)
(***************************************************************************)
Rows    == [marker : Proposals, committedAt : Nat, challenged : BOOLEAN]
Packets == [marker : Proposals, finalizedAt : Nat]

Activations == [step : {"none", "begun", "found"}, row : Nat]

RequestStates ==
  [pc : Pcs, kind : Kinds, asked : Proposals \union {None}, challenged : BOOLEAN,
   seen : [status : Statuses, rows : Nat, thesis : ThesisStates],
   stamp : Nat, row : Nat, outcome : Outcomes]

\* Type invariant; a handler that is not idle carries a proposal.
TypeOK ==
  /\ clock \in Nat
  /\ status \in [Campaigns -> Statuses]
  /\ boundAt \in [Campaigns -> Nat]
  /\ deltas \in [Campaigns -> Seq([state : DeltaStates, at : Nat])]
  /\ market \in [Campaigns -> {"WAIT", "BUY"}]
  /\ activation \in [Campaigns -> Activations]
  /\ packets \subseteq Packets
  /\ ledger \in Seq(Rows)
  /\ previews \subseteq Proposals
  /\ commitLock \in [Backends -> Requests \union {None}]
  /\ reservation \in Requests \union {None}
  /\ req \in [Requests -> RequestStates]
  /\ \A r \in Requests : ~At(r, "idle") => req[r].asked \in Proposals

\* A proposal has at most one immutable row, whichever processes commit it and
\* however often the client retries.
UniqueProposal ==
  \A i, j \in 1 .. Len(ledger) : ledger[i].marker = ledger[j].marker => i = j

\* committed_at follows insertion order across all processes, never precedes
\* the instant the proposal was evaluated at, and stays inside review_by.
LedgerInTime ==
  \A i \in 1 .. Len(ledger) :
    /\ ledger[i].committedAt <= clock
    /\ ledger[i].marker.asOf <= ledger[i].committedAt
    /\ ledger[i].committedAt < ReviewBy[ledger[i].marker.draft]
    /\ \A j \in i .. Len(ledger) : ledger[i].committedAt <= ledger[j].committedAt

\* Every BUY decision was challenged first: a packet for exactly that proposal
\* was finalized no later than the commit.
BuyIsChallenged ==
  \A i \in 1 .. Len(ledger) : IsBuy(ledger[i].marker) =>
    \E k \in PacketFor(ledger[i].marker) : k.finalizedAt <= ledger[i].committedAt

\* A Campaign that was ever ACTIVE rests on a challenged BUY decision of its own,
\* although activation writes some steps after it has read the decision.
ActiveRestsOnBuy ==
  \A c \in Campaigns : status[c] \in {"ACTIVE", "REDUCING", "CLOSED"} =>
    \E i \in 1 .. Len(ledger) :
      /\ ledger[i].marker.campaign = c
      /\ IsBuy(ledger[i].marker)
      /\ ledger[i].challenged

\* At instant t the Thesis bound to Campaign c could be known to be in state s:
\* it was bound by then, and s is its state after a prefix of the delta chain
\* that was confirmed by then.
KnownBy(c, t, s) ==
  /\ boundAt[c] \in 1 .. t
  /\ \E n \in 0 .. Len(deltas[c]) :
       /\ s = EffectiveState(SubSeq(deltas[c], 1, n))
       /\ \A m \in 1 .. n : deltas[c][m].at <= t

\* No decision uses a Thesis it could not have known at its as_of, although
\* deltas are stamped before they land and land between reads of a commit.
NoLookahead ==
  \A i \in 1 .. Len(ledger) :
    LET p == ledger[i].marker IN KnownBy(p.campaign, p.asOf, p.thesis)

\* The row a commit reads back is durable, is the decision the client asked
\* for, and is bound to a challenge whenever the client named one.
AnswersNameTheirRow ==
  \A r \in Requests : At(r, "readback") =>
      /\ req[r].row \in 1 .. Len(ledger)
      /\ ledger[req[r].row].marker = req[r].asked
      /\ req[r].challenged => ledger[req[r].row].challenged

\* No row is ever added for a Campaign that is terminal in that state, although
\* the two live in different databases.
NoTerminalDecision ==
  [][Len(ledger') > Len(ledger) =>
       status[ledger'[Len(ledger')].marker.campaign] \notin Terminal]_vars

\* The commit path implements the promise of the abstract ledger.
Ledger == INSTANCE DecisionLedger WITH
            rows <- ledger,
            open <- {c \in Campaigns : status[c] \notin Terminal},
            now  <- clock
ImplementsLedger == Ledger!Spec

(***************************************************************************)
(* Why it holds: from the final Campaign check to the insert, a handler    *)
(* owns the reservation, and what it checked under it stays true.          *)
(***************************************************************************)
Committing == {"marker", "stamp", "validate", "insert"}

ReservationHeld ==
  \A r \in Requests : req[r].pc \in Committing =>
    reservation = r /\ status[req[r].asked.campaign] \notin Terminal

MarkerFresh ==
  \A r \in Requests : req[r].pc \in {"stamp", "validate", "insert"} =>
    \A i \in 1 .. Len(ledger) : ledger[i].marker # req[r].asked

StampCurrent ==
  \A r \in Requests : req[r].pc \in {"validate", "insert"} =>
    /\ req[r].asked.asOf <= req[r].stamp
    /\ req[r].stamp <= clock
    /\ req[r].stamp < ReviewBy[req[r].asked.draft]
    /\ \A i \in 1 .. Len(ledger) : ledger[i].committedAt <= req[r].stamp

AskedInThePast ==
  /\ \A p \in previews : p.asOf <= clock
  /\ \A r \in Requests : ~At(r, "idle") => req[r].asked.asOf <= clock

ChallengeKept ==
  \A r \in Requests :
    /\ req[r].pc \in Committing \union {"hold"} /\ IsBuy(req[r].asked) => req[r].challenged
    /\ At(r, "insert") => ChallengeBinds(r)

\* The inductive invariant: a handler between its final check and its insert
\* excludes every other writer, so its checks still hold when the row lands.
CommitInv ==
  /\ TypeOK
  /\ ReservationHeld /\ MarkerFresh /\ StampCurrent
  /\ AskedInThePast /\ ChallengeKept
  /\ UniqueProposal /\ LedgerInTime /\ BuyIsChallenged

(***************************************************************************)
(* Why decisions and Campaigns rest on what was there: rows and deltas are *)
(* only appended, so what a commit read stays true while it commits.       *)
(***************************************************************************)
SeenIsPast == \A r \in Requests : req[r].seen.rows <= Len(ledger)

BuyRowsChallenged ==
  \A i \in 1 .. Len(ledger) : IsBuy(ledger[i].marker) => ledger[i].challenged

\* What an activation has found is still a BUY decision of its Campaign when the
\* activation writes, although it is not looked at again.
FoundIsBuy ==
  \A c \in Campaigns : activation[c].step = "found" =>
    /\ activation[c].row \in 1 .. Len(ledger)
    /\ ledger[activation[c].row].marker.campaign = c
    /\ IsBuy(ledger[activation[c].row].marker)

\* A commit has read a Thesis state known at as_of; past the comparison with
\* the proposal it is the state the proposal names.
ThesisKnown ==
  \A r \in Requests :
    LET p == req[r].asked IN
    /\ At(r, "build") /\ req[r].kind = "commit" =>
         KnownBy(p.campaign, p.asOf, req[r].seen.thesis)
    /\ req[r].pc \in Committing \union {"hold"} => KnownBy(p.campaign, p.asOf, p.thesis)

RestInv ==
  /\ CommitInv
  /\ SeenIsPast /\ AnswersNameTheirRow
  /\ BuyRowsChallenged /\ FoundIsBuy /\ ActiveRestsOnBuy
  /\ ThesisKnown /\ NoLookahead

(***************************************************************************)
(* Liveness. A handler that started runs on (its thread is scheduled and   *)
(* every SQLite wait is bounded by a timeout), so its own steps are weakly *)
(* fair; nothing is assumed of clients, of the environment or of crashes.  *)
(***************************************************************************)
FairSpec == Spec /\ \A r \in Requests : WF_vars(Step(r))

\* Nobody waits forever on a lock: both locks are always given back.
LocksAreReleased ==
  /\ \A b \in Backends : commitLock[b] # None ~> commitLock[b] = None
  /\ reservation # None ~> reservation = None
================================================================================
