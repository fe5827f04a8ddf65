-------------------------- MODULE DecisionCommitProofs --------------------------
(***************************************************************************)
(* Proofs about DecisionCommit for every set of processes, handlers,       *)
(* Campaigns and drafts and every bound.                                   *)
(***************************************************************************)
EXTENDS DecisionCommit, SequenceTheorems, TLAPS

(***************************************************************************)
(* The types.                                                              *)
(***************************************************************************)
\* The type invariant in two halves: handlers with their locks, and the rest.
LocalOK ==
  /\ commitLock \in [Backends -> Requests \union {None}]
  /\ reservation \in Requests \union {None}
  /\ req \in [Requests -> RequestStates]
  /\ \A s \in Requests : ~At(s, "idle") => req[s].asked \in Proposals

SharedOK ==
  /\ clock \in Nat
  /\ status \in [Campaigns -> Statuses]
  /\ boundAt \in [Campaigns -> Nat]
  /\ deltas \in [Campaigns -> Seq([state : DeltaStates, at : Nat])]
  /\ market \in [Campaigns -> {"WAIT", "BUY"}]
  /\ activation \in [Campaigns -> Activations]
  /\ packets \subseteq Packets
  /\ ledger \in Seq(Rows)
  /\ previews \subseteq Proposals

LEMMA IdleType == IdleRequest \in RequestStates /\ IdleRequest.pc = "idle"
BY DEF IdleRequest, RequestStates, NothingSeen, Pcs, Kinds, Outcomes, Statuses, ThesisStates

LEMMA EffectiveStateType ==
  ASSUME NEW chain \in Seq([state : DeltaStates, at : Nat])
  PROVE  EffectiveState(chain) \in ThesisStates
<1>1. CASE chain = <<>>
  BY <1>1 DEF EffectiveState, ThesisStates
<1>2. CASE chain # <<>>
  <2>1. Len(chain) \in 1 .. Len(chain)
    BY <1>2, EmptySeq
  <2>2. chain[Len(chain)] \in [state : DeltaStates, at : Nat]
    BY <2>1, ElementOfSeq
  <2> QED BY <1>2, <2>2 DEF EffectiveState, ThesisStates
<1> QED BY <1>1, <1>2

\* What a handler builds is a proposal.
LEMMA BuiltType ==
  ASSUME TypeOK, NEW r \in Requests, ~At(r, "idle"), NEW without
  PROVE  Built(r, without) \in Proposals
<1>1. req[r].asked \in Proposals /\ req[r].seen.thesis \in ThesisStates
  BY DEF TypeOK, RequestStates
<1>2. market[req[r].asked.campaign] \in {"WAIT", "BUY"}
  BY <1>1 DEF TypeOK, Proposals
<1>3. PriorDecision(req[r].asked, req[r].seen.rows, without) \in BOOLEAN
  BY DEF PriorDecision
<1> QED BY <1>1, <1>2, <1>3 DEF Built, Candidate, Evaluated, Composed, Proposals

\* A handler's update keeps the type of req and its asked proposal.
LEMMA ReqType ==
  ASSUME TypeOK, NEW r \in Requests, NEW q \in RequestStates,
         q.pc # "idle" => q.asked \in Proposals,
         req' = [req EXCEPT ![r] = q]
  PROVE  /\ req' \in [Requests -> RequestStates]
         /\ \A s \in Requests : ~At(s, "idle")' => req'[s].asked \in Proposals
BY DEF TypeOK, At

LEMMA ReleaseType ==
  ASSUME TypeOK, NEW rs, ReleaseAll(rs)
  PROVE  /\ commitLock' \in [Backends -> Requests \union {None}]
         /\ reservation' \in Requests \union {None}
BY DEF TypeOK, ReleaseAll
\* Answering is well typed wherever it happens.
LEMMA AnswerType ==
  ASSUME TypeOK, NEW r \in Requests, NEW o \in Outcomes, Answer(r, o)
  PROVE  LocalOK'
<1> DEFINE q == [IdleRequest EXCEPT !.outcome = o]
<1>1. q \in RequestStates /\ q.pc = "idle"
  BY IdleType DEF IdleRequest, RequestStates
<1>2. req' = [req EXCEPT ![r] = q]
  BY DEF Answer
<1>3. ReleaseAll({r})
  BY DEF Answer
<1> HIDE DEF q
<1> QED BY <1>1, <1>2, <1>3, ReqType, ReleaseType DEF LocalOK, At

LEMMA GotoType ==
  ASSUME TypeOK, NEW r \in Requests, ~At(r, "idle"), NEW pc \in Pcs, Goto(r, pc)
  PROVE  LocalOK'
<1> DEFINE q == [req[r] EXCEPT !.pc = pc]
<1>1. q \in RequestStates /\ q.asked \in Proposals
  BY DEF TypeOK, RequestStates
<1>2. req' = [req EXCEPT ![r] = q]
  BY DEF Goto
<1> HIDE DEF q
<1> QED BY <1>1, <1>2, ReqType DEF Goto, TypeOK, LocalOK, At

LEMMA UsedType ==
  ASSUME TypeOK, NEW r \in Requests, ~At(r, "idle"), NEW pc \in Pcs, NEW i \in Nat,
         Used(r, pc, i)
  PROVE  LocalOK'
<1> DEFINE q == [req[r] EXCEPT !.pc = pc, !.row = i, !.seen = NothingSeen]
<1>1. q \in RequestStates /\ q.asked \in Proposals
  <2>1. NothingSeen \in [status : Statuses, rows : Nat, thesis : ThesisStates]
    BY DEF NothingSeen, Statuses, ThesisStates
  <2>2. req[r] \in RequestStates /\ req[r].asked \in Proposals
    BY DEF TypeOK
  <2> QED BY <2>1, <2>2 DEF RequestStates
<1>2. req' = [req EXCEPT ![r] = q]
  BY DEF Used
<1> HIDE DEF q
<1> QED BY <1>1, <1>2, ReqType DEF Used, TypeOK, LocalOK, At

\* A general update of one handler's record that touches no lock.
LEMMA MoveType ==
  ASSUME TypeOK, NEW r \in Requests, NEW q \in RequestStates,
         q.pc # "idle" => q.asked \in Proposals,
         req' = [req EXCEPT ![r] = q],
         UNCHANGED <<commitLock, reservation>>
  PROVE  LocalOK'
BY ReqType DEF TypeOK, LocalOK, At

LEMMA ArriveType ==
  ASSUME TypeOK, NEW r \in Requests, NEW kind \in Kinds, NEW pc \in Pcs,
         NEW p \in Proposals, NEW b \in BOOLEAN, Arrive(r, kind, pc, p, b)
  PROVE  LocalOK'
<1> DEFINE q == [IdleRequest EXCEPT !.pc = pc, !.kind = kind, !.asked = p,
                                    !.challenged = b]
<1>1. q \in RequestStates /\ q.asked \in Proposals
  BY IdleType DEF IdleRequest, RequestStates
<1>2. req' = [req EXCEPT ![r] = q] /\ UNCHANGED <<commitLock, reservation>>
  BY DEF Arrive
<1> HIDE DEF q
<1> QED BY <1>1, <1>2, MoveType

LEMMA BlankType ==
  ASSUME TypeOK, NEW c \in Campaigns, NEW d \in Drafts
  PROVE  Blank(c, d, clock) \in Proposals
BY DEF Blank, Proposals, TypeOK, ThesisStates

(***************************************************************************)
(* Every action keeps the types. Handlers first.                           *)
(***************************************************************************)
LEMMA ReadType ==
  ASSUME TypeOK, NEW r \in Requests,
         AcquireCommitLock(r) \/ ReadCampaign(r) \/ ReadThesis(r) \/ ReadFrozen(r)
  PROVE  LocalOK' /\ UNCHANGED <<authorities, packets, ledger, previews>>
<1> req[r] \in RequestStates
  BY DEF TypeOK
<1>1. CASE AcquireCommitLock(r)
  <2> DEFINE q == [req[r] EXCEPT !.pc = "campaign"]
  <2>1. q \in RequestStates /\ q.asked \in Proposals
    BY <1>1 DEF AcquireCommitLock, TypeOK, RequestStates, Pcs, At
  <2>2. req' = [req EXCEPT ![r] = q]
    BY <1>1 DEF AcquireCommitLock
  <2>3. commitLock' \in [Backends -> Requests \union {None}]
    BY <1>1 DEF AcquireCommitLock, TypeOK
  <2> HIDE DEF q
  <2> QED BY <1>1, <2>1, <2>2, <2>3, ReqType DEF AcquireCommitLock, LocalOK, TypeOK, At
<1>2. CASE ReadCampaign(r)
  <2> DEFINE seen == status[req[r].asked.campaign]
             q(pc) == [req[r] EXCEPT !.pc = pc, !.seen.status = seen]
  <2>1. ~At(r, "idle") /\ req[r].asked \in Proposals /\ req[r].asked.campaign \in Campaigns
    BY <1>2 DEF ReadCampaign, At, TypeOK, Proposals
  <2>2. seen \in Statuses
    BY <2>1 DEF TypeOK
  <2>3. ASSUME NEW pc \in {"frozen", "thesis"}
        PROVE  q(pc) \in RequestStates /\ q(pc).asked \in Proposals
    BY <2>1, <2>2 DEF RequestStates, Pcs
  <2>4. CASE req[r].kind # "commit" /\ seen \in Terminal
    BY <1>2, <2>4, AnswerType DEF ReadCampaign, Outcomes
  <2>5. CASE req[r].kind # "commit" /\ seen \notin Terminal
    <3>1. req' = [req EXCEPT ![r] = q("thesis")] /\ UNCHANGED <<commitLock, reservation>>
      BY <1>2, <2>5 DEF ReadCampaign
    <3> HIDE DEF q
    <3> QED BY <1>2, <2>3, <3>1, MoveType DEF ReadCampaign
  <2>6. CASE req[r].kind = "commit"
    <3>1. req' = [req EXCEPT ![r] = q("frozen")] /\ UNCHANGED <<commitLock, reservation>>
      BY <1>2, <2>6 DEF ReadCampaign
    <3> HIDE DEF q
    <3> QED BY <1>2, <2>3, <3>1, MoveType DEF ReadCampaign
  <2> QED BY <2>4, <2>5, <2>6
<1>3. CASE ReadThesis(r)
  <2> DEFINE c == req[r].asked.campaign
             q(pc) == [req[r] EXCEPT !.pc = pc, !.seen.thesis = EffectiveState(deltas[c])]
  <2>1. ~At(r, "idle") /\ req[r].asked \in Proposals /\ c \in Campaigns
    BY <1>3 DEF ReadThesis, At, TypeOK, Proposals
  <2>2. EffectiveState(deltas[c]) \in ThesisStates
    BY <2>1, EffectiveStateType DEF TypeOK
  <2>3. ASSUME NEW pc \in {"build", "frozen"}
        PROVE  q(pc) \in RequestStates /\ q(pc).asked \in Proposals
    BY <2>1, <2>2 DEF RequestStates, Pcs
  <2>4. CASE boundAt[c] = 0 \/ Lookahead(c, req[r].asked.asOf)
    BY <1>3, <2>4, AnswerType DEF ReadThesis, Outcomes
  <2>5. CASE ~(boundAt[c] = 0 \/ Lookahead(c, req[r].asked.asOf))
    <3>1. PICK pc \in {"build", "frozen"} :
             req' = [req EXCEPT ![r] = q(pc)] /\ UNCHANGED <<commitLock, reservation>>
      BY <1>3, <2>5 DEF ReadThesis
    <3> HIDE DEF q
    <3> QED BY <1>3, <2>3, <3>1, MoveType DEF ReadThesis
  <2> QED BY <2>4, <2>5
<1>4. CASE ReadFrozen(r)
  <2> DEFINE q(pc) == [req[r] EXCEPT !.pc = pc, !.seen.rows = Len(ledger)]
  <2>1. ~At(r, "idle") /\ req[r].asked \in Proposals /\ Len(ledger) \in Nat
    BY <1>4 DEF ReadFrozen, At, TypeOK
  <2>2. ASSUME NEW pc \in {"build", "thesis"}
        PROVE  q(pc) \in RequestStates /\ q(pc).asked \in Proposals
    BY <2>1 DEF RequestStates, Pcs
  <2>3. CASE Answer(r, "rejected")
    BY <1>4, <2>3, AnswerType DEF ReadFrozen, Outcomes
  <2>4. CASE ~Answer(r, "rejected")
    <3>1. PICK pc \in {"build", "thesis"} :
             req' = [req EXCEPT ![r] = q(pc)] /\ UNCHANGED <<commitLock, reservation>>
      BY <1>4, <2>4 DEF ReadFrozen
    <3> HIDE DEF q
    <3> QED BY <1>4, <2>2, <3>1, MoveType DEF ReadFrozen
  <2> QED BY <2>3, <2>4
<1> QED BY <1>1, <1>2, <1>3, <1>4

\* Preview and challenge.
LEMMA ShowType ==
  ASSUME TypeOK, NEW r \in Requests,
         BuildPreview(r) \/ BuildChallenge(r) \/ AppendChallenge(r)
  PROVE  LocalOK' /\ SharedOK'
<1> req[r] \in RequestStates
  BY DEF TypeOK
<1>1. CASE BuildPreview(r)
  <2>1. Built(r, {}) \in Proposals
    BY <1>1, BuiltType DEF BuildPreview, At
  <2> QED BY <1>1, <2>1, AnswerType DEF BuildPreview, Outcomes, TypeOK, SharedOK, authorities
<1>2. CASE BuildChallenge(r)
  <2> DEFINE q == [req[r] EXCEPT !.pc = "finalize", !.stamp = clock, !.seen = NothingSeen]
  <2>1. CASE Answer(r, "stale")
    BY <1>2, <2>1, AnswerType DEF BuildChallenge, Outcomes, TypeOK, SharedOK, authorities
  <2>2. CASE ~Answer(r, "stale")
    <3>1. NothingSeen \in [status : Statuses, rows : Nat, thesis : ThesisStates]
      BY DEF NothingSeen, Statuses, ThesisStates
    <3>2. q \in RequestStates /\ q.asked \in Proposals
      BY <1>2, <3>1 DEF BuildChallenge, At, TypeOK, RequestStates, Pcs
    <3>3. req' = [req EXCEPT ![r] = q] /\ UNCHANGED <<commitLock, reservation>>
      BY <1>2, <2>2 DEF BuildChallenge
    <3> HIDE DEF q
    <3> QED BY <1>2, <3>2, <3>3, MoveType DEF BuildChallenge, TypeOK, SharedOK, authorities
  <2> QED BY <2>1, <2>2
<1>3. CASE AppendChallenge(r)
  <2>1. [marker |-> req[r].asked, finalizedAt |-> req[r].stamp] \in Packets
    BY <1>3 DEF AppendChallenge, At, TypeOK, RequestStates, Packets
  <2>2. packets' \subseteq Packets
    BY <1>3, <2>1 DEF AppendChallenge, TypeOK
  <2> QED BY <1>3, <2>2, AnswerType DEF AppendChallenge, Outcomes, TypeOK, SharedOK, authorities
<1> QED BY <1>1, <1>2, <1>3

\* Commit, up to the last check.
LEMMA CommitType ==
  ASSUME TypeOK, NEW r \in Requests,
         \/ BuildCommit(r) \/ HoldCampaign(r) \/ HoldBusy(r) \/ CheckMarker(r)
         \/ StampDecision(r) \/ PreWriteValidate(r)
  PROVE  LocalOK' /\ UNCHANGED <<authorities, packets, ledger, previews>>
<1> req[r] \in RequestStates
  BY DEF TypeOK
<1>1. CASE BuildCommit(r)
  <2>1. ~At(r, "idle")
    BY <1>1 DEF BuildCommit, At
  <2>2. req[r].seen.rows \in Nat
    BY DEF RequestStates
  <2>3. \A i \in RowsOf(req[r].asked, req[r].seen.rows) : i \in Nat
    BY <2>2 DEF RowsOf
  <2>4. CASE Answer(r, "stale") \/ Answer(r, "rejected")
    BY <1>1, <2>4, AnswerType DEF BuildCommit, Outcomes
  <2>5. CASE Used(r, "hold", 0)
    BY <1>1, <2>1, <2>5, UsedType DEF BuildCommit, Pcs
  <2>6. CASE \E i \in RowsOf(req[r].asked, req[r].seen.rows) : Used(r, "readback", i)
    <3> PICK i \in RowsOf(req[r].asked, req[r].seen.rows) : Used(r, "readback", i)
      BY <2>6
    <3>1. i \in Nat /\ "readback" \in Pcs
      BY <2>3 DEF Pcs
    <3>2. LocalOK'
      BY <2>1, <3>1, UsedType
    <3> QED BY <1>1, <3>2 DEF BuildCommit
  <2> QED BY <1>1, <2>4, <2>5, <2>6 DEF BuildCommit
<1>2. CASE HoldCampaign(r)
  <2> DEFINE q == [req[r] EXCEPT !.pc = "marker"]
  <2>1. CASE Answer(r, "rejected")
    BY <1>2, <2>1, AnswerType DEF HoldCampaign, Outcomes
  <2>2. CASE ~Answer(r, "rejected")
    <3>1. q \in RequestStates /\ q.asked \in Proposals
      BY <1>2 DEF HoldCampaign, At, TypeOK, RequestStates, Pcs
    <3>2. /\ req' = [req EXCEPT ![r] = q]
          /\ reservation' = r
          /\ commitLock' = commitLock
      BY <1>2, <2>2 DEF HoldCampaign
    <3> HIDE DEF q
    <3> QED BY <1>2, <3>1, <3>2, ReqType DEF HoldCampaign, LocalOK, TypeOK, At
  <2> QED BY <2>1, <2>2
<1>3. CASE HoldBusy(r)
  BY <1>3, AnswerType DEF HoldBusy, Outcomes
<1>4. CASE CheckMarker(r)
  <2>1. ~At(r, "idle")
    BY <1>4 DEF CheckMarker, At
  <2> QED BY <1>4, <2>1, AnswerType, GotoType DEF CheckMarker, Outcomes, Pcs
<1>5. CASE StampDecision(r)
  <2> DEFINE q == [req[r] EXCEPT !.pc = "validate", !.stamp = clock]
  <2>1. CASE Answer(r, "rejected")
    BY <1>5, <2>1, AnswerType DEF StampDecision, Outcomes
  <2>2. CASE ~Answer(r, "rejected")
    <3>1. q \in RequestStates /\ q.asked \in Proposals
      BY <1>5 DEF StampDecision, At, TypeOK, RequestStates, Pcs
    <3>2. req' = [req EXCEPT ![r] = q] /\ UNCHANGED <<commitLock, reservation>>
      BY <1>5, <2>2 DEF StampDecision
    <3> HIDE DEF q
    <3> QED BY <1>5, <3>1, <3>2, MoveType DEF StampDecision
  <2> QED BY <2>1, <2>2
<1>6. CASE PreWriteValidate(r)
  <2>1. ~At(r, "idle")
    BY <1>6 DEF PreWriteValidate, At
  <2> QED BY <1>6, <2>1, AnswerType, GotoType DEF PreWriteValidate, Outcomes, Pcs
<1> QED BY <1>1, <1>2, <1>3, <1>4, <1>5, <1>6

\* The row an insert appends.
LEMMA InsertType ==
  ASSUME TypeOK, NEW r \in Requests, InsertDecision(r)
  PROVE  /\ LocalOK' /\ SharedOK'
         /\ [marker |-> req[r].asked, committedAt |-> req[r].stamp,
             challenged |-> req[r].challenged] \in Rows
<1> DEFINE row == [marker |-> req[r].asked, committedAt |-> req[r].stamp,
                   challenged |-> req[r].challenged]
           q == [req[r] EXCEPT !.pc = "readback", !.row = Len(ledger) + 1]
<1>1. req[r] \in RequestStates /\ req[r].asked \in Proposals
  BY DEF TypeOK, InsertDecision, FrozenRow, At
<1>2. row \in Rows
  BY <1>1 DEF Rows, RequestStates
<1>3. ledger' \in Seq(Rows)
  BY <1>2, AppendProperties DEF InsertDecision, FrozenRow, TypeOK
<1>4. Len(ledger) + 1 \in Nat
  BY DEF TypeOK
<1>5. q \in RequestStates /\ q.asked \in Proposals
  BY <1>1, <1>4 DEF RequestStates, Pcs
<1>6. req' = [req EXCEPT ![r] = q]
  BY DEF InsertDecision, FrozenRow
<1>7. LocalOK'
  <2> HIDE DEF q
  <2> QED BY <1>5, <1>6, ReqType DEF InsertDecision, FrozenRow, LocalOK, TypeOK, At
<1> QED BY <1>2, <1>3, <1>7 DEF InsertDecision, FrozenRow, TypeOK, SharedOK, authorities

LEMMA FinishType ==
  ASSUME TypeOK, NEW r \in Requests, InsertAborts(r) \/ ReadBack(r) \/ ReadBackFails(r)
  PROVE  LocalOK' /\ UNCHANGED <<authorities, packets, ledger, previews>>
BY AnswerType DEF InsertAborts, ReadBack, ReadBackFails, Outcomes

LEMMA BeginType ==
  ASSUME TypeOK, NEW r \in Requests, Begin(r)
  PROVE  LocalOK' /\ UNCHANGED <<authorities, packets, ledger, previews>>
<1>1. CASE \E c \in Campaigns, d \in Drafts : BeginPreview(r, c, d)
  <2> PICK c \in Campaigns, d \in Drafts : BeginPreview(r, c, d)
    BY <1>1
  <2>1. "preview" \in Kinds /\ "campaign" \in Pcs /\ FALSE \in BOOLEAN
    BY DEF Kinds, Pcs
  <2>2. Arrive(r, "preview", "campaign", Blank(c, d, clock), FALSE)
    BY DEF BeginPreview
  <2>3. LocalOK'
    BY <2>1, <2>2, BlankType, ArriveType
  <2> QED BY <2>2, <2>3 DEF Arrive
<1>2. CASE \E p \in previews : BeginChallenge(r, p)
  <2> PICK p \in previews : BeginChallenge(r, p)
    BY <1>2
  <2>1. "challenge" \in Kinds /\ "campaign" \in Pcs /\ FALSE \in BOOLEAN /\ p \in Proposals
    BY DEF Kinds, Pcs, TypeOK
  <2>2. Arrive(r, "challenge", "campaign", p, FALSE)
    BY DEF BeginChallenge
  <2>3. LocalOK'
    BY <2>1, <2>2, ArriveType
  <2> QED BY <2>2, <2>3 DEF Arrive
<1>3. CASE \E p \in previews, b \in BOOLEAN : BeginCommit(r, p, b)
  <2> PICK p \in previews, b \in BOOLEAN : BeginCommit(r, p, b)
    BY <1>3
  <2>1. "commit" \in Kinds /\ "lock" \in Pcs /\ p \in Proposals
    BY DEF Kinds, Pcs, TypeOK
  <2>2. Arrive(r, "commit", "lock", p, b)
    BY DEF BeginCommit
  <2>3. LocalOK'
    BY <2>1, <2>2, ArriveType
  <2> QED BY <2>2, <2>3 DEF Arrive
<1> QED BY <1>1, <1>2, <1>3 DEF Begin

LEMMA CrashType ==
  ASSUME TypeOK, NEW b \in Backends, Crash(b)
  PROVE  LocalOK' /\ UNCHANGED <<authorities, packets, ledger, previews>>
<1> DEFINE dead == {r \in Requests : HomeOf[r] = b}
<1>1. req' = [r \in Requests |-> IF r \in dead THEN IdleRequest ELSE req[r]]
  BY DEF Crash
<1>2. ReleaseAll(dead)
  BY DEF Crash
<1>3. req' \in [Requests -> RequestStates]
  BY <1>1, IdleType DEF TypeOK
<1>4. \A s \in Requests : ~At(s, "idle")' => req'[s].asked \in Proposals
  BY <1>1, IdleType DEF TypeOK, At
<1> QED BY <1>2, <1>3, <1>4, ReleaseType DEF LocalOK, Crash

\* The steps of an activation before its write change nothing but its own record,
\* which then names a BUY decision of its Campaign if it names one at all.
LEMMA ActivationStep ==
  ASSUME TypeOK, NEW c \in Campaigns,
         BeginActivation(c) \/ FindDecision(c) \/ AbandonActivation(c)
  PROVE  /\ activation' \in [Campaigns -> Activations]
         /\ UNCHANGED <<clock, status, boundAt, deltas, market, others>>
         /\ \A d \in Campaigns : d # c => activation'[d] = activation[d]
         /\ activation'[c].step = "found" =>
              /\ activation'[c].row \in 1 .. Len(ledger)
              /\ ledger[activation'[c].row].marker.campaign = c
              /\ IsBuy(ledger[activation'[c].row].marker)
<1>1. CASE BeginActivation(c)
  <2> DEFINE a == [activation[c] EXCEPT !.step = "begun"]
  <2>1. a \in Activations /\ a.step = "begun"
    BY DEF TypeOK, Activations
  <2>2. activation' = [activation EXCEPT ![c] = a]
    BY <1>1 DEF BeginActivation
  <2> HIDE DEF a
  <2>3. activation'[c] = a /\ activation' \in [Campaigns -> Activations]
    BY <2>1, <2>2 DEF TypeOK
  <2> QED BY <1>1, <2>1, <2>2, <2>3 DEF BeginActivation, TypeOK
<1>2. CASE FindDecision(c)
  <2> PICK i \in 1 .. Len(ledger) :
        ledger[i].marker.campaign = c /\ IsBuy(ledger[i].marker) /\ Found(c, i)
    BY <1>2 DEF FindDecision
  <2> DEFINE a == [step |-> "found", row |-> i]
  <2>1. i \in Nat
    BY LenProperties DEF TypeOK
  <2>2. a \in Activations /\ a.row = i
    BY <2>1 DEF Activations
  <2>3. activation' = [activation EXCEPT ![c] = a]
    BY DEF Found
  <2> HIDE DEF a
  <2>4. activation'[c] = a /\ activation' \in [Campaigns -> Activations]
    BY <2>2, <2>3 DEF TypeOK
  <2> QED BY <2>2, <2>3, <2>4 DEF Found, TypeOK
<1>3. CASE AbandonActivation(c)
  <2>1. NoActivation \in Activations /\ NoActivation.step = "none"
    BY DEF NoActivation, Activations
  <2>2. activation' = [activation EXCEPT ![c] = NoActivation]
    BY <1>3 DEF AbandonActivation
  <2>3. activation'[c] = NoActivation /\ activation' \in [Campaigns -> Activations]
    BY <2>1, <2>2 DEF TypeOK
  <2> QED BY <1>3, <2>1, <2>2, <2>3 DEF AbandonActivation, TypeOK
<1> QED BY <1>1, <1>2, <1>3

LEMMA EnvironmentType ==
  ASSUME TypeOK, Environment
  PROVE  SharedOK' /\ UNCHANGED others
<1> USE DEF others
<1>1. CASE \E c \in Campaigns : \E to \in Statuses : TransitionCampaign(c, to)
  BY <1>1 DEF TransitionCampaign, TypeOK, SharedOK
<1>2. CASE \E c \in Campaigns : ActivateCampaign(c)
  <2>1. "ACTIVE" \in Statuses /\ NoActivation \in Activations
    BY DEF Statuses, NoActivation, Activations
  <2>2. PICK c \in Campaigns : ActivateCampaign(c)
    BY <1>2
  <2>3. /\ status' = [status EXCEPT ![c] = "ACTIVE"]
        /\ activation' = [activation EXCEPT ![c] = NoActivation]
        /\ UNCHANGED <<clock, boundAt, deltas, market, others>>
    BY <2>2 DEF ActivateCampaign
  <2>4. status' \in [Campaigns -> Statuses]
    BY <2>1, <2>3 DEF TypeOK
  <2>5. activation' \in [Campaigns -> Activations]
    BY <2>1, <2>3 DEF TypeOK
  <2> QED BY <2>3, <2>4, <2>5 DEF TypeOK, SharedOK
<1>3. CASE \E c \in Campaigns : MarketMoves(c)
  BY <1>3 DEF MarketMoves, TypeOK, SharedOK
<1>4. CASE \E c \in Campaigns : \E at \in 1 .. clock : BindThesis(c, at)
  <2>1. \A at \in 1 .. clock : at \in Nat
    BY DEF TypeOK
  <2>2. boundAt' \in [Campaigns -> Nat]
    BY <1>4, <2>1 DEF BindThesis, TypeOK
  <2> QED BY <1>4, <2>2 DEF BindThesis, TypeOK, SharedOK
<1>5. CASE \E c \in Campaigns : \E at \in 1 .. clock : \E s \in DeltaStates :
             ConfirmDelta(c, s, at)
  <2> PICK c \in Campaigns, at \in 1 .. clock, s \in DeltaStates : ConfirmDelta(c, s, at)
    BY <1>5
  <2> DEFINE delta == [state |-> s, at |-> at]
  <2>1. delta \in [state : DeltaStates, at : Nat]
    BY DEF TypeOK
  <2>2. Append(deltas[c], delta) \in Seq([state : DeltaStates, at : Nat])
    BY <2>1, AppendProperties DEF TypeOK
  <2>3. deltas' = [deltas EXCEPT ![c] = Append(deltas[c], delta)]
    BY DEF ConfirmDelta
  <2> HIDE DEF delta
  <2> QED BY <2>2, <2>3 DEF ConfirmDelta, TypeOK, SharedOK
<1>6. CASE Tick
  <2>1. clock' \in Nat
    BY <1>6 DEF Tick, TypeOK
  <2> QED BY <1>6, <2>1 DEF Tick, TypeOK, SharedOK
<1>7. CASE \E c \in Campaigns :
             BeginActivation(c) \/ FindDecision(c) \/ AbandonActivation(c)
  <2>1. /\ activation' \in [Campaigns -> Activations]
        /\ UNCHANGED <<clock, status, boundAt, deltas, market, others>>
    BY <1>7, ActivationStep
  <2> QED BY <2>1 DEF TypeOK, SharedOK
<1> QED BY <1>1, <1>2, <1>3, <1>4, <1>5, <1>6, <1>7 DEF Environment

LEMMA TypeInit == Init => TypeOK
<1> SUFFICES ASSUME Init PROVE TypeOK
  OBVIOUS
<1>1. "DRAFT" \in Statuses
  BY DEF Statuses
<1>2. \A S : <<>> \in Seq(S)
  BY EmptySeq
<1>3. NoActivation \in Activations
  BY DEF NoActivation, Activations
<1> QED BY <1>1, <1>2, <1>3, IdleType DEF Init, TypeOK, At

LEMMA TypeStep == TypeOK /\ [Next]_vars => TypeOK'
<1> SUFFICES ASSUME TypeOK, [Next]_vars PROVE TypeOK'
  OBVIOUS
<1>0. ASSUME LocalOK', SharedOK' PROVE TypeOK'
  BY <1>0 DEF LocalOK, SharedOK, TypeOK
<1>00. SharedOK /\ LocalOK
  BY DEF LocalOK, SharedOK, TypeOK
<1>1. ASSUME NEW r \in Requests, Begin(r) PROVE TypeOK'
  BY <1>0, <1>00, <1>1, BeginType DEF SharedOK, authorities
<1>2. ASSUME NEW r \in Requests, Step(r) PROVE TypeOK'
  <2>1. CASE \/ AcquireCommitLock(r) \/ ReadCampaign(r)
             \/ ReadThesis(r) \/ ReadFrozen(r)
    BY <1>0, <1>00, <2>1, ReadType DEF SharedOK, authorities
  <2>2. CASE BuildPreview(r) \/ BuildChallenge(r) \/ AppendChallenge(r)
    BY <1>0, <2>2, ShowType
  <2>3. CASE \/ BuildCommit(r) \/ HoldCampaign(r) \/ HoldBusy(r)
             \/ CheckMarker(r) \/ StampDecision(r) \/ PreWriteValidate(r)
    BY <1>0, <1>00, <2>3, CommitType DEF SharedOK, authorities
  <2>4. CASE InsertDecision(r)
    BY <1>0, <2>4, InsertType
  <2>5. CASE InsertAborts(r) \/ ReadBack(r) \/ ReadBackFails(r)
    BY <1>0, <1>00, <2>5, FinishType DEF SharedOK, authorities
  <2> QED BY <1>2, <2>1, <2>2, <2>3, <2>4, <2>5 DEF Step
<1>3. ASSUME NEW b \in Backends, Crash(b) PROVE TypeOK'
  BY <1>0, <1>00, <1>3, CrashType DEF SharedOK, authorities
<1>4. CASE Environment
  BY <1>0, <1>00, <1>4, EnvironmentType DEF LocalOK, others, At
<1>5. CASE UNCHANGED vars
  BY <1>5 DEF vars, authorities, TypeOK, At
<1> QED BY <1>1, <1>2, <1>3, <1>4, <1>5 DEF Next

\* The state always has its type: every handler that is not idle carries a
\* proposal, every lock is held by a handler or by nobody.
THEOREM TypeCorrect == Spec => []TypeOK
BY TypeInit, TypeStep, PTL DEF Spec

(***************************************************************************)
(* The inductive invariant, read per handler and for the shared state.     *)
(***************************************************************************)
HandlerOK(r) ==
  /\ req[r].pc \in Committing =>
       reservation = r /\ status[req[r].asked.campaign] \notin Terminal
  /\ req[r].pc \in {"stamp", "validate", "insert"} =>
       \A i \in 1 .. Len(ledger) : ledger[i].marker # req[r].asked
  /\ req[r].pc \in {"validate", "insert"} =>
       /\ req[r].asked.asOf <= req[r].stamp
       /\ req[r].stamp <= clock
       /\ req[r].stamp < ReviewBy[req[r].asked.draft]
       /\ \A i \in 1 .. Len(ledger) : ledger[i].committedAt <= req[r].stamp
  /\ ~At(r, "idle") => req[r].asked.asOf <= clock
  /\ req[r].pc \in Committing \union {"hold"} /\ IsBuy(req[r].asked) => req[r].challenged
  /\ At(r, "insert") => ChallengeBinds(r)

LedgerOK ==
  /\ \A p \in previews : p.asOf <= clock
  /\ UniqueProposal /\ LedgerInTime /\ BuyIsChallenged

LEMMA CommitInvParts ==
  CommitInv <=> TypeOK /\ LedgerOK /\ \A r \in Requests : HandlerOK(r)
BY DEF CommitInv, HandlerOK, LedgerOK, ReservationHeld, MarkerFresh, StampCurrent,
       AskedInThePast, ChallengeKept

\* A handler that does not move keeps its part while what it checked stands.
LEMMA Bystander ==
  ASSUME NEW s \in Requests, HandlerOK(s), req'[s] = req[s],
         UNCHANGED <<clock, status, ledger>>, packets \subseteq packets',
         reservation = s => reservation' = s
  PROVE  HandlerOK(s)'
BY DEF HandlerOK, At, ChallengeBinds, PacketFor

\* A handler that has been answered, or died, has nothing to keep.
LEMMA Finished ==
  ASSUME NEW s \in Requests, req'[s].pc = "idle"
  PROVE  HandlerOK(s)'
BY DEF HandlerOK, At, Committing

\* A handler that has not reached the hold only has to keep its as_of.
LEMMA EarlyHandler ==
  ASSUME NEW s \in Requests,
         req'[s].pc \notin Committing \union {"hold"},
         req'[s].asked.asOf <= clock'
  PROVE  HandlerOK(s)'
BY DEF HandlerOK, At, Committing

LEMMA LedgerKept ==
  ASSUME LedgerOK, UNCHANGED <<clock, ledger, previews>>, packets \subseteq packets'
  PROVE  LedgerOK'
BY DEF LedgerOK, UniqueProposal, LedgerInTime, BuyIsChallenged, PacketFor

\* When r answers, no other handler loses the reservation.
LEMMA AnswerKeeps ==
  ASSUME TypeOK, NEW r \in Requests, NEW o, Answer(r, o)
  PROVE  /\ req'[r].pc = "idle"
         /\ \A s \in Requests \ {r} : req'[s] = req[s] /\ (reservation = s => reservation' = s)
BY IdleType DEF Answer, ReleaseAll, TypeOK, IdleRequest

\* The steps of a handler that write nothing shared: only its own part is at stake.
LEMMA QuietStep ==
  ASSUME CommitInv, NEW r \in Requests, HandlerOK(r)',
         UNCHANGED <<authorities, packets, ledger, previews>>,
         \A s \in Requests \ {r} : req'[s] = req[s] /\ (reservation = s => reservation' = s)
  PROVE  LedgerOK' /\ \A s \in Requests : HandlerOK(s)'
<1>1. LedgerOK'
  BY CommitInvParts, LedgerKept DEF authorities
<1>2. \A s \in Requests \ {r} : HandlerOK(s)'
  BY CommitInvParts, Bystander DEF authorities
<1> QED BY <1>1, <1>2

LEMMA AnswerStep ==
  ASSUME CommitInv, NEW r \in Requests, NEW o, Answer(r, o),
         UNCHANGED <<authorities, packets, ledger, previews>>
  PROVE  LedgerOK' /\ \A s \in Requests : HandlerOK(s)'
<1>1. TypeOK
  BY DEF CommitInv
<1>2. HandlerOK(r)'
  BY <1>1, AnswerKeeps, Finished
<1> QED BY <1>1, <1>2, AnswerKeeps, QuietStep

(***************************************************************************)
(* The steps of a handler.                                                 *)
(***************************************************************************)
LEMMA ReadKeeps ==
  ASSUME CommitInv, NEW r \in Requests,
         AcquireCommitLock(r) \/ ReadCampaign(r) \/ ReadThesis(r) \/ ReadFrozen(r)
  PROVE  LedgerOK' /\ \A s \in Requests : HandlerOK(s)'
<1> TypeOK /\ HandlerOK(r)
  BY CommitInvParts
<1> req \in [Requests -> RequestStates] /\ req[r] \in RequestStates
  BY DEF TypeOK
<1>1. UNCHANGED <<authorities, packets, ledger, previews>>
  BY DEF AcquireCommitLock, ReadCampaign, ReadThesis, ReadFrozen
<1>2. CASE \E o \in Outcomes : Answer(r, o)
  BY <1>1, <1>2, AnswerStep
<1>3. CASE ~\E o \in Outcomes : Answer(r, o)
  <2>0. ~At(r, "idle") /\ req[r].asked.asOf <= clock
    BY DEF AcquireCommitLock, ReadCampaign, ReadThesis, ReadFrozen, At, HandlerOK
  <2>1. /\ \A s \in Requests \ {r} : req'[s] = req[s]
        /\ reservation' = reservation
        /\ req'[r].asked = req[r].asked
        /\ req'[r].pc \in {"campaign", "frozen", "thesis", "build"}
    <3>1. CASE AcquireCommitLock(r)
      BY <3>1 DEF AcquireCommitLock, RequestStates
    <3>2. CASE ReadCampaign(r)
      BY <1>3, <3>2 DEF ReadCampaign, RequestStates, Outcomes
    <3>3. CASE ReadThesis(r)
      BY <1>3, <3>3 DEF ReadThesis, RequestStates, Outcomes
    <3>4. CASE ReadFrozen(r)
      BY <1>3, <3>4 DEF ReadFrozen, RequestStates, Outcomes
    <3> QED BY <3>1, <3>2, <3>3, <3>4
  <2>2. HandlerOK(r)'
    BY <1>1, <2>0, <2>1, EarlyHandler DEF authorities, Committing
  <2> QED BY <1>1, <2>1, <2>2, QuietStep
<1> QED BY <1>2, <1>3

LEMMA BuiltAsOf ==
  ASSUME TypeOK, NEW r \in Requests, ~At(r, "idle"), NEW without
  PROVE  Built(r, without).asOf = req[r].asked.asOf
<1>1. req[r].asked \in Proposals
  BY DEF TypeOK
<1> QED BY <1>1 DEF Built, Candidate, Evaluated, Composed, Proposals

LEMMA ShowKeeps ==
  ASSUME CommitInv, NEW r \in Requests,
         BuildPreview(r) \/ BuildChallenge(r) \/ AppendChallenge(r)
  PROVE  LedgerOK' /\ \A s \in Requests : HandlerOK(s)'
<1>0. TypeOK /\ LedgerOK /\ \A s \in Requests : HandlerOK(s)
  BY CommitInvParts
<1> req \in [Requests -> RequestStates] /\ req[r] \in RequestStates
  BY <1>0 DEF TypeOK
<1>1. CASE BuildPreview(r)
  <2>1. Answer(r, "answered") /\ UNCHANGED <<clock, status, packets, ledger>>
    BY <1>1 DEF BuildPreview, authorities
  <2>2. \A s \in Requests : HandlerOK(s)'
    BY <1>0, <2>1, AnswerKeeps, Finished, Bystander
  <2>3. ~At(r, "idle") /\ req[r].asked.asOf <= clock
    BY <1>0, <1>1 DEF BuildPreview, At, HandlerOK
  <2>4. Built(r, {}).asOf <= clock
    BY <1>0, <2>3, BuiltAsOf
  <2>5. \A p \in previews' : p.asOf <= clock'
    BY <1>0, <1>1, <2>1, <2>4 DEF BuildPreview, LedgerOK
  <2>6. (UniqueProposal /\ LedgerInTime /\ BuyIsChallenged)'
    BY <1>0, <2>1 DEF LedgerOK, UniqueProposal, LedgerInTime, BuyIsChallenged, PacketFor
  <2> QED BY <2>2, <2>5, <2>6 DEF LedgerOK
<1>2. CASE BuildChallenge(r)
  <2>1. UNCHANGED <<authorities, packets, ledger, previews>>
    BY <1>2 DEF BuildChallenge
  <2>2. CASE Answer(r, "stale")
    BY <2>1, <2>2, AnswerStep
  <2>3. CASE ~Answer(r, "stale")
    <3>1. ~At(r, "idle") /\ req[r].asked.asOf <= clock
      BY <1>0, <1>2 DEF BuildChallenge, At, HandlerOK
    <3>2. /\ \A s \in Requests \ {r} : req'[s] = req[s]
          /\ reservation' = reservation
          /\ req'[r].asked = req[r].asked
          /\ req'[r].pc = "finalize"
      BY <1>2, <2>3 DEF BuildChallenge, RequestStates
    <3>3. HandlerOK(r)'
      BY <2>1, <3>1, <3>2, EarlyHandler DEF authorities, Committing
    <3> QED BY <2>1, <3>2, <3>3, QuietStep
  <2> QED BY <2>2, <2>3
<1>3. CASE AppendChallenge(r)
  <2>1. /\ Answer(r, "answered")
        /\ UNCHANGED <<clock, status, ledger, previews>>
        /\ packets \subseteq packets'
    BY <1>3 DEF AppendChallenge, authorities
  <2>2. LedgerOK'
    BY <1>0, <2>1, LedgerKept
  <2> QED BY <1>0, <2>1, <2>2, AnswerKeeps, Finished, Bystander
<1> QED BY <1>1, <1>2, <1>3

\* Up to the hold a commit has only read; what it accepted is challenged if BUY.
LEMMA BuildKeeps ==
  ASSUME CommitInv, NEW r \in Requests, BuildCommit(r)
  PROVE  LedgerOK' /\ \A s \in Requests : HandlerOK(s)'
<1>0. TypeOK /\ HandlerOK(r)
  BY CommitInvParts
<1> req \in [Requests -> RequestStates] /\ req[r] \in RequestStates
  BY <1>0 DEF TypeOK
<1> DEFINE existing == RowsOf(req[r].asked, req[r].seen.rows)
<1>1. UNCHANGED <<authorities, packets, ledger, previews>>
  BY DEF BuildCommit
<1>2. ~At(r, "idle") /\ req[r].asked.asOf <= clock
  BY <1>0 DEF BuildCommit, At, HandlerOK
<1>3. ASSUME NEW pc \in {"hold", "readback"}, NEW i, Used(r, pc, i)
      PROVE  /\ \A s \in Requests \ {r} : req'[s] = req[s]
             /\ reservation' = reservation
             /\ req'[r].asked = req[r].asked
             /\ req'[r].challenged = req[r].challenged
             /\ req'[r].pc = pc
  BY <1>3 DEF Used, RequestStates
<1>4. CASE Answer(r, "stale") \/ Answer(r, "rejected")
  BY <1>1, <1>4, AnswerStep
<1>5. CASE /\ existing = {} /\ Built(r, existing) = req[r].asked
            /\ ~NeedsChallenge(r, Built(r, {})) /\ Used(r, "hold", 0)
  <2>1. IsBuy(req[r].asked) => req[r].challenged
    BY <1>5 DEF NeedsChallenge
  <2>2. HandlerOK(r)'
    BY <1>1, <1>2, <1>3, <1>5, <2>1 DEF HandlerOK, At, Committing, authorities, IsBuy
  <2> QED BY <1>1, <1>3, <1>5, <2>2, QuietStep
<1>6. CASE \E i \in existing : Used(r, "readback", i)
  <2> PICK i \in existing : Used(r, "readback", i)
    BY <1>6
  <2>1. HandlerOK(r)'
    BY <1>1, <1>2, <1>3, EarlyHandler DEF authorities, Committing
  <2> QED BY <1>1, <1>3, <2>1, QuietStep
<1> QED BY <1>4, <1>5, <1>6 DEF BuildCommit

\* Under the reservation each check adds what the next one relies on.
LEMMA CheckKeeps ==
  ASSUME CommitInv, NEW r \in Requests,
         \/ HoldCampaign(r) \/ HoldBusy(r) \/ CheckMarker(r)
         \/ StampDecision(r) \/ PreWriteValidate(r)
  PROVE  LedgerOK' /\ \A s \in Requests : HandlerOK(s)'
<1>0. TypeOK /\ LedgerOK /\ \A s \in Requests : HandlerOK(s)
  BY CommitInvParts
<1> req \in [Requests -> RequestStates] /\ req[r] \in RequestStates
  BY <1>0 DEF TypeOK
<1>1. UNCHANGED <<authorities, packets, ledger, previews>>
  BY DEF HoldCampaign, HoldBusy, CheckMarker, StampDecision, PreWriteValidate
<1>2. CASE \E o \in Outcomes : Answer(r, o)
  BY <1>1, <1>2, AnswerStep
<1>3. CASE HoldCampaign(r) /\ ~\E o \in Outcomes : Answer(r, o)
  <2>1. /\ At(r, "hold")
        /\ status[req[r].asked.campaign] \notin Terminal
        /\ req' = [req EXCEPT ![r].pc = "marker"]
        /\ reservation = None /\ reservation' = r
    BY <1>3 DEF HoldCampaign, Outcomes
  <2>2. HandlerOK(r)'
    BY <1>0, <1>1, <2>1 DEF HandlerOK, At, Committing, authorities, RequestStates
  <2> QED BY <1>1, <2>1, <2>2, QuietStep, NoneAssumption
<1>4. CASE CheckMarker(r) /\ ~\E o \in Outcomes : Answer(r, o)
  <2>1. /\ At(r, "marker")
        /\ RowsOf(req[r].asked, Len(ledger)) = {}
        /\ req' = [req EXCEPT ![r].pc = "stamp"]
        /\ UNCHANGED reservation
    BY <1>4 DEF CheckMarker, Goto, Outcomes
  <2>2. \A i \in 1 .. Len(ledger) : ledger[i].marker # req[r].asked
    BY <2>1 DEF RowsOf
  <2>3. HandlerOK(r)'
    BY <1>0, <1>1, <2>1, <2>2 DEF HandlerOK, At, Committing, authorities, RequestStates
  <2> QED BY <1>1, <2>1, <2>3, QuietStep
<1>5. CASE StampDecision(r) /\ ~\E o \in Outcomes : Answer(r, o)
  <2>1. /\ At(r, "stamp")
        /\ ~(ReviewBy[req[r].asked.draft] <= clock)
        /\ req' = [req EXCEPT ![r].pc = "validate", ![r].stamp = clock]
        /\ UNCHANGED reservation
    BY <1>5 DEF StampDecision, Outcomes
  <2>2. clock \in Nat /\ ReviewBy[req[r].asked.draft] \in Nat
    BY <1>0, <2>1, DraftAssumption DEF TypeOK, At, Proposals
  <2>3. \A i \in 1 .. Len(ledger) : ledger[i].committedAt <= clock
    BY <1>0 DEF LedgerOK, LedgerInTime
  <2>4. /\ req'[r].pc = "validate" /\ req'[r].stamp = clock
        /\ req'[r].asked = req[r].asked /\ req'[r].challenged = req[r].challenged
    BY <2>1 DEF RequestStates
  <2>5. HandlerOK(r)'
    BY <1>0, <1>1, <2>1, <2>2, <2>3, <2>4 DEF HandlerOK, At, Committing, authorities
  <2> QED BY <1>1, <2>1, <2>5, QuietStep
<1>6. CASE PreWriteValidate(r) /\ ~\E o \in Outcomes : Answer(r, o)
  <2>1. /\ At(r, "validate")
        /\ ChallengeBinds(r)
        /\ req' = [req EXCEPT ![r].pc = "insert"]
        /\ UNCHANGED reservation
    BY <1>6 DEF PreWriteValidate, Goto, Outcomes
  <2>2. /\ req'[r].pc = "insert" /\ req'[r].stamp = req[r].stamp
        /\ req'[r].asked = req[r].asked /\ req'[r].challenged = req[r].challenged
    BY <2>1 DEF RequestStates
  <2>3. HandlerOK(r)'
    BY <1>0, <1>1, <2>1, <2>2 DEF HandlerOK, At, Committing, authorities, ChallengeBinds, PacketFor
  <2> QED BY <1>1, <2>1, <2>3, QuietStep
<1> QED BY <1>2, <1>3, <1>4, <1>5, <1>6 DEF HoldBusy, Outcomes

\* What an insert does to the ledger, read from the invariant.
LEMMA InsertFacts ==
  ASSUME CommitInv, NEW r \in Requests, InsertDecision(r)
  PROVE  LET n == Len(ledger)
             row == [marker |-> req[r].asked, committedAt |-> req[r].stamp,
                     challenged |-> req[r].challenged]
         IN /\ n \in Nat /\ Len(ledger') = n + 1
            /\ row \in Rows /\ ledger' = Append(ledger, row)
            /\ ledger'[n + 1] = row
            /\ \A i \in 1 .. n : ledger'[i] = ledger[i] /\ ledger[i] \in Rows
<1> TypeOK
  BY DEF CommitInv
<1> DEFINE row == [marker |-> req[r].asked, committedAt |-> req[r].stamp,
                   challenged |-> req[r].challenged]
<1>1. row \in Rows
  BY InsertType
<1>2. ledger \in Seq(Rows) /\ ledger' = Append(ledger, row)
  BY DEF TypeOK, InsertDecision, FrozenRow
<1> HIDE DEF row
<1>3. /\ Len(ledger) \in Nat
      /\ Len(ledger') = Len(ledger) + 1
      /\ ledger'[Len(ledger) + 1] = row
      /\ \A i \in 1 .. Len(ledger) : ledger'[i] = ledger[i]
  BY <1>1, <1>2, AppendProperties, LenProperties
<1>4. \A i \in 1 .. Len(ledger) : ledger[i] \in Rows
  BY <1>2, ElementOfSeq
<1> QED BY <1>1, <1>2, <1>3, <1>4 DEF row

LEMMA InsertKeeps ==
  ASSUME CommitInv, NEW r \in Requests, InsertDecision(r)
  PROVE  LedgerOK' /\ \A s \in Requests : HandlerOK(s)'
<1>0. TypeOK /\ LedgerOK /\ \A s \in Requests : HandlerOK(s)
  BY CommitInvParts
<1> DEFINE n == Len(ledger)
           row == [marker |-> req[r].asked, committedAt |-> req[r].stamp,
                   challenged |-> req[r].challenged]
<1>1. /\ n \in Nat /\ Len(ledger') = n + 1 /\ row \in Rows /\ ledger'[n + 1] = row
      /\ \A i \in 1 .. n : ledger'[i] = ledger[i] /\ ledger[i] \in Rows
  BY InsertFacts
<1>2. /\ UNCHANGED <<clock, status, packets, previews>>
      /\ At(r, "insert")
      /\ req'[r].pc = "readback" /\ req'[r].asked = req[r].asked
      /\ \A s \in Requests \ {r} : req'[s] = req[s]
  BY <1>0 DEF InsertDecision, FrozenRow, authorities, TypeOK, RequestStates
<1>3. /\ reservation = r
      /\ \A i \in 1 .. n : ledger[i].marker # row.marker
      /\ \A i \in 1 .. n : ledger[i].committedAt <= row.committedAt
      /\ row.marker.asOf <= row.committedAt
      /\ row.committedAt <= clock
      /\ row.committedAt < ReviewBy[row.marker.draft]
      /\ row.marker.asOf <= clock
  BY <1>0, <1>2 DEF HandlerOK, At, Committing
<1>4. IsBuy(row.marker) => \E k \in PacketFor(row.marker) : k.finalizedAt <= row.committedAt
  BY <1>0, <1>2 DEF HandlerOK, At, Committing, ChallengeBinds
<1>5. \A i \in 1 .. n + 1 : i \in 1 .. n \/ i = n + 1
  BY <1>1
<1>6. HandlerOK(r)'
  BY <1>2, <1>3, EarlyHandler DEF Committing
<1>7. ASSUME NEW s \in Requests \ {r} PROVE HandlerOK(s)'
  <2>1. req[s].pc \notin Committing
    BY <1>0, <1>3 DEF HandlerOK
  <2> QED BY <1>0, <1>2, <2>1 DEF HandlerOK, At, Committing
<1>8. UniqueProposal'
  <2> HIDE DEF row
  <2> SUFFICES ASSUME NEW i \in 1 .. n + 1, NEW j \in 1 .. n + 1,
                      ledger'[i].marker = ledger'[j].marker
               PROVE  i = j
    BY <1>1 DEF UniqueProposal
  <2>1. CASE i \in 1 .. n /\ j \in 1 .. n
    BY <1>0, <1>1, <2>1 DEF LedgerOK, UniqueProposal
  <2>2. CASE i = n + 1 \/ j = n + 1
    BY <1>1, <1>3, <1>5, <2>2
  <2> QED BY <1>5, <2>1, <2>2
<1>9. LedgerInTime'
  <2> HIDE DEF row
  <2>0. \A i \in 1 .. n :
          /\ ledger[i].committedAt <= clock
          /\ ledger[i].marker.asOf <= ledger[i].committedAt
          /\ ledger[i].committedAt < ReviewBy[ledger[i].marker.draft]
          /\ \A j \in i .. n : ledger[i].committedAt <= ledger[j].committedAt
    BY <1>0 DEF LedgerOK, LedgerInTime
  <2> SUFFICES ASSUME NEW i \in 1 .. n + 1
               PROVE  /\ ledger'[i].committedAt <= clock
                      /\ ledger'[i].marker.asOf <= ledger'[i].committedAt
                      /\ ledger'[i].committedAt < ReviewBy[ledger'[i].marker.draft]
                      /\ \A j \in i .. n + 1 : ledger'[i].committedAt <= ledger'[j].committedAt
    BY <1>1, <1>2 DEF LedgerInTime
  <2>1. CASE i = n + 1
    <3>1. row.committedAt <= row.committedAt
      BY <1>1 DEF Rows
    <3>2. \A j \in i .. n + 1 : j = n + 1
      BY <1>1, <2>1
    <3> QED BY <1>1, <1>3, <2>1, <3>1, <3>2
  <2>2. CASE i \in 1 .. n
    <3>1. ASSUME NEW j \in i .. n + 1 PROVE ledger'[i].committedAt <= ledger'[j].committedAt
      <4>1. j \in i .. n \/ j = n + 1
        BY <1>1
      <4>2. CASE j \in i .. n
        <5>1. j \in 1 .. n
          BY <1>1, <4>2
        <5> QED BY <1>1, <2>0, <2>2, <4>2, <5>1
      <4>3. CASE j = n + 1
        BY <1>1, <1>3, <2>2, <4>3
      <4> QED BY <4>1, <4>2, <4>3
    <3> QED BY <1>1, <2>0, <2>2, <3>1
  <2> QED BY <1>5, <2>1, <2>2
<1>10. BuyIsChallenged'
  <2> HIDE DEF row
  <2> SUFFICES ASSUME NEW i \in 1 .. n + 1, IsBuy(ledger'[i].marker)
               PROVE  \E k \in PacketFor(ledger'[i].marker) :
                         k.finalizedAt <= ledger'[i].committedAt
    BY <1>1, <1>2 DEF BuyIsChallenged, PacketFor
  <2> QED BY <1>0, <1>1, <1>4, <1>5 DEF LedgerOK, BuyIsChallenged
<1> QED BY <1>0, <1>2, <1>6, <1>7, <1>8, <1>9, <1>10 DEF LedgerOK

LEMMA FinishKeeps ==
  ASSUME CommitInv, NEW r \in Requests, InsertAborts(r) \/ ReadBack(r) \/ ReadBackFails(r)
  PROVE  LedgerOK' /\ \A s \in Requests : HandlerOK(s)'
BY AnswerStep DEF InsertAborts, ReadBack, ReadBackFails

LEMMA BeginKeeps ==
  ASSUME CommitInv, NEW r \in Requests, Begin(r)
  PROVE  LedgerOK' /\ \A s \in Requests : HandlerOK(s)'
<1>0. TypeOK /\ LedgerOK
  BY CommitInvParts
<1>1. PICK kind \in Kinds, pc \in {"campaign", "lock"}, b \in BOOLEAN :
         \E p : Arrive(r, kind, pc, p, b) /\ p.asOf <= clock
  <2>0. {"preview", "challenge", "commit"} \subseteq Kinds /\ FALSE \in BOOLEAN
    BY DEF Kinds
  <2>1. CASE \E c \in Campaigns, d \in Drafts : BeginPreview(r, c, d)
    <3> PICK c \in Campaigns, d \in Drafts : BeginPreview(r, c, d)
      BY <2>1
    <3>1. Arrive(r, "preview", "campaign", Blank(c, d, clock), FALSE)
      BY DEF BeginPreview
    <3>2. Blank(c, d, clock).asOf <= clock
      BY <1>0 DEF TypeOK, Blank
    <3> QED BY <2>0, <3>1, <3>2
  <2>2. CASE \E p \in previews : BeginChallenge(r, p)
    <3> PICK p \in previews : BeginChallenge(r, p)
      BY <2>2
    <3>1. Arrive(r, "challenge", "campaign", p, FALSE) /\ p.asOf <= clock
      BY <1>0 DEF BeginChallenge, LedgerOK
    <3> QED BY <2>0, <3>1
  <2>3. CASE \E p \in previews, b \in BOOLEAN : BeginCommit(r, p, b)
    <3> PICK p \in previews, b \in BOOLEAN : BeginCommit(r, p, b)
      BY <2>3
    <3>1. Arrive(r, "commit", "lock", p, b) /\ p.asOf <= clock
      BY <1>0 DEF BeginCommit, LedgerOK
    <3> QED BY <2>0, <3>1
  <2> QED BY <2>1, <2>2, <2>3 DEF Begin
<1> PICK p : Arrive(r, kind, pc, p, b) /\ p.asOf <= clock
  BY <1>1
<1>2. /\ UNCHANGED <<authorities, packets, ledger, previews, reservation>>
      /\ \A s \in Requests \ {r} : req'[s] = req[s]
      /\ req'[r].pc = pc /\ req'[r].asked = p
  BY <1>0, <1>1 DEF Arrive, TypeOK, IdleRequest
<1>3. HandlerOK(r)'
  BY <1>1, <1>2, EarlyHandler DEF authorities, Committing
<1> QED BY <1>2, <1>3, QuietStep

LEMMA CrashKeeps ==
  ASSUME CommitInv, NEW b \in Backends, Crash(b)
  PROVE  LedgerOK' /\ \A s \in Requests : HandlerOK(s)'
<1>0. TypeOK /\ LedgerOK /\ \A s \in Requests : HandlerOK(s)
  BY CommitInvParts
<1>1. UNCHANGED <<authorities, packets, ledger, previews>>
  BY DEF Crash
<1>2. LedgerOK'
  BY <1>0, <1>1, LedgerKept DEF authorities
<1>3. ASSUME NEW s \in Requests PROVE HandlerOK(s)'
  <2>1. CASE HomeOf[s] = b
    BY <2>1, IdleType, Finished DEF Crash
  <2>2. CASE HomeOf[s] # b
    <3>1. req'[s] = req[s] /\ (reservation = s => reservation' = s)
      BY <2>2 DEF Crash, ReleaseAll
    <3> QED BY <1>0, <1>1, <3>1, Bystander DEF authorities
  <2> QED BY <2>1, <2>2
<1> QED BY <1>2, <1>3

(***************************************************************************)
(* The other writers.                                                      *)
(***************************************************************************)
\* Nobody is committing while a Campaign writer gets the lock.
LEMMA WriterExcludes ==
  ASSUME CommitInv, WriterFree
  PROVE  \A s \in Requests : req[s].pc \notin Committing
BY NoneAssumption DEF CommitInv, ReservationHeld, WriterFree

LEMMA EnvironmentKeeps ==
  ASSUME CommitInv, Environment
  PROVE  LedgerOK' /\ \A s \in Requests : HandlerOK(s)'
<1>0. TypeOK /\ LedgerOK /\ \A s \in Requests : HandlerOK(s)
  BY CommitInvParts
<1>1. UNCHANGED <<packets, ledger, previews, reservation, req>>
  BY <1>0, EnvironmentType DEF others
<1>2. CASE clock' = clock /\ (status' = status \/ WriterFree)
  <2>1. LedgerOK'
    BY <1>0, <1>1, <1>2, LedgerKept
  <2>2. ASSUME NEW s \in Requests PROVE HandlerOK(s)'
    <3>1. CASE status' = status
      BY <1>0, <1>1, <1>2, <3>1, Bystander
    <3>2. CASE WriterFree
      <4>1. req[s].pc \notin Committing
        BY <3>2, WriterExcludes
      <4> QED BY <1>0, <1>1, <1>2, <4>1 DEF HandlerOK, At, Committing
    <3> QED BY <1>2, <3>1, <3>2
  <2> QED BY <2>1, <2>2
<1>3. CASE Tick
  <2>1. clock \in Nat /\ clock' = clock + 1 /\ status' = status
    BY <1>0, <1>3 DEF Tick, TypeOK
  <2>2. \A n \in Nat : n <= clock => n <= clock'
    BY <2>1
  <2>3. \A p \in previews : p \in Proposals /\ p.asOf \in Nat
    BY <1>0 DEF TypeOK, Proposals
  <2>4. \A i \in 1 .. Len(ledger) : ledger[i] \in Rows /\ ledger[i].committedAt \in Nat
    <3>1. \A i \in 1 .. Len(ledger) : ledger[i] \in Rows
      BY <1>0, ElementOfSeq DEF TypeOK
    <3> QED BY <3>1 DEF Rows
  <2>5. LedgerOK'
    BY <1>0, <1>1, <2>2, <2>3, <2>4
    DEF LedgerOK, UniqueProposal, LedgerInTime, BuyIsChallenged, PacketFor
  <2>6. ASSUME NEW s \in Requests PROVE HandlerOK(s)'
    <3>1. req[s].stamp \in Nat /\ (~At(s, "idle") => req[s].asked.asOf \in Nat)
      BY <1>0 DEF TypeOK, RequestStates, Proposals
    <3> QED BY <1>0, <1>1, <2>1, <2>2, <3>1 DEF HandlerOK, At, ChallengeBinds, PacketFor
  <2> QED BY <2>5, <2>6
<1>4. ASSUME ~Tick PROVE clock' = clock /\ (status' = status \/ WriterFree)
  BY <1>4 DEF Environment, TransitionCampaign, BeginActivation, FindDecision, Found,
              ActivateCampaign, AbandonActivation, BindThesis, ConfirmDelta, MarketMoves
<1> QED BY <1>2, <1>3, <1>4

LEMMA CommitInvInit == Init => CommitInv
<1> SUFFICES ASSUME Init PROVE CommitInv
  OBVIOUS
<1>1. TypeOK
  BY TypeInit
<1>2. \A r \in Requests : req[r].pc = "idle"
  BY IdleType DEF Init
<1>3. Len(ledger) = 0 /\ previews = {}
  BY EmptySeq DEF Init
<1>4. LedgerOK
  BY <1>3 DEF LedgerOK, UniqueProposal, LedgerInTime, BuyIsChallenged
<1>5. \A r \in Requests : HandlerOK(r)
  BY <1>2 DEF HandlerOK, At, Committing
<1> QED BY <1>1, <1>4, <1>5, CommitInvParts

LEMMA CommitInvStep == CommitInv /\ [Next]_vars => CommitInv'
<1> SUFFICES ASSUME CommitInv, [Next]_vars PROVE CommitInv'
  OBVIOUS
<1>0. TypeOK /\ TypeOK'
  BY TypeStep DEF CommitInv
<1>1. ASSUME LedgerOK', \A s \in Requests : HandlerOK(s)' PROVE CommitInv'
  BY <1>0, <1>1 DEF CommitInv, HandlerOK, LedgerOK, ReservationHeld, MarkerFresh,
                    StampCurrent, AskedInThePast, ChallengeKept
<1>2. ASSUME NEW r \in Requests, Begin(r) PROVE CommitInv'
  BY <1>1, <1>2, BeginKeeps
<1>3. ASSUME NEW r \in Requests, Step(r) PROVE CommitInv'
  BY <1>1, <1>3, ReadKeeps, ShowKeeps, BuildKeeps, CheckKeeps, InsertKeeps, FinishKeeps
  DEF Step
<1>4. ASSUME NEW b \in Backends, Crash(b) PROVE CommitInv'
  BY <1>1, <1>4, CrashKeeps
<1>5. CASE Environment
  BY <1>1, <1>5, EnvironmentKeeps
<1>6. CASE UNCHANGED vars
  <2>1. LedgerOK'
    BY <1>6, CommitInvParts, LedgerKept DEF vars, authorities
  <2>2. \A s \in Requests : HandlerOK(s)'
    BY <1>6, CommitInvParts, Bystander DEF vars, authorities
  <2> QED BY <1>1, <2>1, <2>2
<1> QED BY <1>2, <1>3, <1>4, <1>5, <1>6 DEF Next

(***************************************************************************)
(* The results.                                                            *)
(***************************************************************************)
\* The inductive invariant holds of the commit path.
THEOREM CommitInvariant == Spec => []CommitInv
BY CommitInvInit, CommitInvStep, PTL DEF Spec

\* However many processes and retries there are, a proposal has one row.
THEOREM ProposalsAreUnique == Spec => []UniqueProposal
<1>1. CommitInv => UniqueProposal
  BY DEF CommitInv
<1> QED BY <1>1, CommitInvariant, PTL

\* committed_at follows insertion order and stays between as_of and review_by.
THEOREM LedgerIsInTime == Spec => []LedgerInTime
<1>1. CommitInv => LedgerInTime
  BY DEF CommitInv
<1> QED BY <1>1, CommitInvariant, PTL

\* No BUY decision without a challenge of exactly that proposal before it.
THEOREM BuysAreChallenged == Spec => []BuyIsChallenged
<1>1. CommitInv => BuyIsChallenged
  BY DEF CommitInv
<1> QED BY <1>1, CommitInvariant, PTL

\* Only an insert changes the ledger.
LEMMA OnlyInsertsWrite ==
  ASSUME CommitInv, [Next]_vars
  PROVE  ledger' = ledger \/ \E r \in Requests : InsertDecision(r)
<1> TypeOK
  BY DEF CommitInv
<1>1. ASSUME NEW r \in Requests, Begin(r) PROVE ledger' = ledger
  BY <1>1, BeginType
<1>2. ASSUME NEW r \in Requests, Step(r) PROVE ledger' = ledger \/ InsertDecision(r)
  BY <1>2 DEF Step, AcquireCommitLock, ReadCampaign, ReadThesis, ReadFrozen, BuildPreview,
     BuildChallenge, AppendChallenge, BuildCommit, HoldCampaign, HoldBusy, CheckMarker,
     StampDecision, PreWriteValidate, InsertAborts, ReadBack, ReadBackFails
<1>3. ASSUME NEW b \in Backends, Crash(b) PROVE ledger' = ledger
  BY <1>3 DEF Crash
<1>4. CASE Environment
  BY <1>4, EnvironmentType DEF others
<1>5. CASE UNCHANGED vars
  BY <1>5 DEF vars
<1> QED BY <1>1, <1>2, <1>3, <1>4, <1>5 DEF Next

\* A terminal Campaign never receives another row, although its status and the
\* ledger live in different databases.
THEOREM TerminalIsFinal == Spec => NoTerminalDecision
<1>1. CommitInv /\ [Next]_vars =>
        [Len(ledger') > Len(ledger) =>
           status[ledger'[Len(ledger')].marker.campaign] \notin Terminal]_vars
  <2> SUFFICES ASSUME CommitInv, [Next]_vars, Len(ledger') > Len(ledger)
               PROVE  status[ledger'[Len(ledger')].marker.campaign] \notin Terminal
    OBVIOUS
  <2>0. TypeOK /\ \A s \in Requests : HandlerOK(s)
    BY CommitInvParts
  <2>1. PICK r \in Requests : InsertDecision(r)
    BY <2>0, OnlyInsertsWrite DEF TypeOK
  <2>2. /\ Len(ledger') = Len(ledger) + 1
        /\ ledger'[Len(ledger) + 1].marker = req[r].asked
    <3>1. ledger'[Len(ledger) + 1] = [marker |-> req[r].asked, committedAt |-> req[r].stamp,
                                      challenged |-> req[r].challenged]
      BY <2>1, InsertFacts
    <3>2. Len(ledger') = Len(ledger) + 1
      BY <2>1, InsertFacts
    <3> QED BY <3>1, <3>2
  <2>3. status[req[r].asked.campaign] \notin Terminal
    BY <2>0, <2>1 DEF InsertDecision, FrozenRow, HandlerOK, At, Committing
  <2> QED BY <2>2, <2>3
<1> QED BY <1>1, CommitInvariant, PTL DEF Spec, NoTerminalDecision

(***************************************************************************)
(* What decisions and Campaigns rest on: the second inductive invariant,   *)
(* RestInv, on top of the first.                                           *)
(***************************************************************************)
RestHandler(s) ==
  /\ req[s].seen.rows <= Len(ledger)
  /\ At(s, "readback") =>
       /\ req[s].row \in 1 .. Len(ledger)
       /\ ledger[req[s].row].marker = req[s].asked
       /\ req[s].challenged => ledger[req[s].row].challenged
  /\ At(s, "build") /\ req[s].kind = "commit" =>
       KnownBy(req[s].asked.campaign, req[s].asked.asOf, req[s].seen.thesis)
  /\ req[s].pc \in Committing \union {"hold"} =>
       KnownBy(req[s].asked.campaign, req[s].asked.asOf, req[s].asked.thesis)

Grounded == BuyRowsChallenged /\ FoundIsBuy /\ ActiveRestsOnBuy /\ NoLookahead

LEMMA RestInvParts ==
  RestInv <=> CommitInv /\ Grounded /\ \A s \in Requests : RestHandler(s)
BY DEF RestInv, RestHandler, Grounded, SeenIsPast, AnswersNameTheirRow, ThesisKnown

\* The state after the first n deltas is the one the n-th delta confirmed.
LEMMA PrefixState ==
  ASSUME NEW S, NEW chain \in Seq(S), NEW n \in 0 .. Len(chain)
  PROVE  EffectiveState(SubSeq(chain, 1, n)) = IF n = 0 THEN "STABLE" ELSE chain[n].state
<1>1. CASE n = 0
  BY <1>1, SubSeqEmpty DEF EffectiveState
<1>2. CASE n # 0
  <2>1. n \in 1 .. Len(chain) /\ n \in Nat
    BY <1>2, LenProperties
  <2>2. \A i \in 1 .. n : chain[i] \in S
    BY <2>1, ElementOfSeq
  <2>3. /\ SubSeq(chain, 1, n) \in Seq(S)
        /\ Len(SubSeq(chain, 1, n)) = n
        /\ SubSeq(chain, 1, n)[n] = chain[n]
    BY <2>1, <2>2, SubSeqProperties
  <2>4. SubSeq(chain, 1, n) # <<>>
    BY <2>1, <2>3, EmptySeq
  <2> QED BY <1>2, <2>3, <2>4 DEF EffectiveState
<1> QED BY <1>1, <1>2

LEMMA KnownStays ==
  ASSUME NEW c, NEW t, NEW s, KnownBy(c, t, s), UNCHANGED <<boundAt, deltas>>
  PROVE  KnownBy(c, t, s)'
BY DEF KnownBy

\* A delta that lands later adds a longer prefix and leaves the others alone.
LEMMA KnownAppend ==
  ASSUME TypeOK, NEW d \in Campaigns, NEW e \in DeltaStates, NEW at \in 1 .. clock,
         ConfirmDelta(d, e, at), NEW c \in Campaigns, NEW t \in Nat, NEW s, KnownBy(c, t, s)
  PROVE  KnownBy(c, t, s)'
<1> DEFINE D == [state : DeltaStates, at : Nat]
           delta == [state |-> e, at |-> at]
<1>1. deltas[c] \in Seq(D) /\ boundAt' = boundAt /\ delta \in D
  <2>1. at \in Nat
    BY DEF TypeOK
  <2> QED BY <2>1 DEF TypeOK, ConfirmDelta
<1>2. deltas'[c] = deltas[c] \/ deltas'[c] = Append(deltas[c], delta)
  BY DEF TypeOK, ConfirmDelta
<1>3. /\ deltas'[c] \in Seq(D)
      /\ Len(deltas[c]) <= Len(deltas'[c])
      /\ Len(deltas[c]) \in Nat /\ Len(deltas'[c]) \in Nat
      /\ \A m \in 1 .. Len(deltas[c]) : deltas'[c][m] = deltas[c][m]
  <2> HIDE DEF D, delta
  <2>1. CASE deltas'[c] = deltas[c]
    BY <1>1, <2>1, LenProperties
  <2>2. CASE deltas'[c] = Append(deltas[c], delta)
    <3>1. /\ Append(deltas[c], delta) \in Seq(D)
          /\ Len(Append(deltas[c], delta)) = Len(deltas[c]) + 1
          /\ \A m \in 1 .. Len(deltas[c]) : Append(deltas[c], delta)[m] = deltas[c][m]
      BY <1>1, AppendProperties
    <3>2. Len(deltas[c]) \in Nat
      BY <1>1, LenProperties
    <3> QED BY <2>2, <3>1, <3>2
  <2> QED BY <1>2, <2>1, <2>2
<1> HIDE DEF D
<1>4. PICK n \in 0 .. Len(deltas[c]) :
        /\ s = EffectiveState(SubSeq(deltas[c], 1, n))
        /\ \A m \in 1 .. n : deltas[c][m].at <= t
  BY DEF KnownBy
<1>5. n \in 0 .. Len(deltas'[c]) /\ (n # 0 => n \in 1 .. Len(deltas[c]))
  BY <1>3
<1>6. EffectiveState(SubSeq(deltas'[c], 1, n)) = EffectiveState(SubSeq(deltas[c], 1, n))
  BY <1>1, <1>3, <1>5, PrefixState
<1>7. \A m \in 1 .. n : deltas'[c][m].at <= t
  <2> TAKE m \in 1 .. n
  <2>1. m \in 1 .. Len(deltas[c])
    BY <1>3
  <2> QED BY <1>3, <1>4, <2>1
<1>8. boundAt'[c] \in 1 .. t
  BY <1>1 DEF KnownBy
<1> QED BY <1>4, <1>5, <1>6, <1>7, <1>8 DEF KnownBy

\* No other writer takes away what a decision could know.
LEMMA KnownKeeps ==
  ASSUME TypeOK, Environment, NEW c \in Campaigns, NEW t \in Nat, NEW s, KnownBy(c, t, s)
  PROVE  KnownBy(c, t, s)'
<1>1. CASE UNCHANGED <<boundAt, deltas>>
  BY <1>1, KnownStays
<1>2. ASSUME NEW d \in Campaigns, NEW at \in 1 .. clock, BindThesis(d, at)
      PROVE  KnownBy(c, t, s)'
  <2>1. d # c /\ boundAt'[c] = boundAt[c] /\ deltas' = deltas
    BY <1>2 DEF BindThesis, KnownBy, TypeOK
  <2> QED BY <2>1 DEF KnownBy
<1>3. ASSUME NEW d \in Campaigns, NEW at \in 1 .. clock, NEW e \in DeltaStates,
             ConfirmDelta(d, e, at)
      PROVE  KnownBy(c, t, s)'
  BY <1>3, KnownAppend
<1> QED BY <1>1, <1>2, <1>3
  DEF Environment, TransitionCampaign, BeginActivation, FindDecision, Found,
      ActivateCampaign, AbandonActivation, MarketMoves, Tick

\* What ReadThesis accepts is known at as_of.
LEMMA AcceptedIsKnown ==
  ASSUME TypeOK, NEW c \in Campaigns, NEW t \in Nat, boundAt[c] # 0, ~Lookahead(c, t)
  PROVE  KnownBy(c, t, EffectiveState(deltas[c]))
<1> DEFINE n == Len(deltas[c])
<1>1. boundAt[c] \in Nat /\ deltas[c] \in Seq([state : DeltaStates, at : Nat])
  BY DEF TypeOK
<1>2. n \in Nat /\ SubSeq(deltas[c], 1, n) = deltas[c]
  BY <1>1, SubSeqFull, LenProperties
<1>3. boundAt[c] \in 1 .. t
  BY <1>1 DEF Lookahead
<1>4. ASSUME NEW m \in 1 .. n PROVE deltas[c][m].at <= t
  <2>1. deltas[c][m] \in [state : DeltaStates, at : Nat]
    BY <1>1, ElementOfSeq
  <2>2. deltas[c][m].at \in Nat
    BY <2>1
  <2> QED BY <2>2 DEF Lookahead
<1>5. n \in 0 .. n
  BY <1>2
<1> HIDE DEF n
<1>6. EffectiveState(deltas[c]) = EffectiveState(SubSeq(deltas[c], 1, n))
  BY <1>2
<1> QED BY <1>3, <1>4, <1>5, <1>6 DEF KnownBy, n

LEMMA RestBystander ==
  ASSUME NEW s \in Requests, RestHandler(s), req'[s] = req[s],
         UNCHANGED <<boundAt, deltas, ledger>>
  PROVE  RestHandler(s)'
<1>1. /\ At(s, "build") /\ req[s].kind = "commit" =>
           KnownBy(req[s].asked.campaign, req[s].asked.asOf, req[s].seen.thesis)'
      /\ req[s].pc \in Committing \union {"hold"} =>
           KnownBy(req[s].asked.campaign, req[s].asked.asOf, req[s].asked.thesis)'
  BY DEF RestHandler, KnownBy
<1> QED BY <1>1 DEF RestHandler, At, KnownBy

\* A handler outside the build, the commit and the answer owes only its rows.
LEMMA RestEarly ==
  ASSUME NEW s \in Requests,
         req'[s].pc \notin Committing \union {"hold", "build", "readback"},
         req'[s].seen.rows <= Len(ledger')
  PROVE  RestHandler(s)'
BY DEF RestHandler, At, Committing

LEMMA GroundKept ==
  ASSUME Grounded, UNCHANGED <<authorities, ledger>>
  PROVE  Grounded'
BY DEF Grounded, BuyRowsChallenged, FoundIsBuy, ActiveRestsOnBuy, NoLookahead, KnownBy, authorities

\* A step of r that changes neither the authorities nor the ledger.
LEMMA RestQuiet ==
  ASSUME RestInv, NEW r \in Requests, RestHandler(r)', UNCHANGED <<authorities, ledger>>,
         \A s \in Requests \ {r} : req'[s] = req[s]
  PROVE  Grounded' /\ \A s \in Requests : RestHandler(s)'
<1>1. \A s \in Requests \ {r} : RestHandler(s)'
  BY RestInvParts, RestBystander DEF authorities
<1> QED BY <1>1, RestInvParts, GroundKept

LEMMA RestAnswer ==
  ASSUME RestInv, NEW r \in Requests, NEW o, Answer(r, o), UNCHANGED <<authorities, ledger>>
  PROVE  Grounded' /\ \A s \in Requests : RestHandler(s)'
<1>0. TypeOK
  BY DEF RestInv, CommitInv
<1>1. /\ req'[r].pc = "idle" /\ req'[r].seen.rows = 0
      /\ \A s \in Requests \ {r} : req'[s] = req[s]
  BY <1>0 DEF Answer, IdleRequest, NothingSeen, TypeOK
<1>2. 0 <= Len(ledger')
  BY <1>0, LenProperties DEF TypeOK
<1> QED BY <1>1, <1>2, RestEarly, RestQuiet DEF Committing

\* A committing handler that moves on with what it asked.
LEMMA RestAdvance ==
  ASSUME RestInv, NEW r \in Requests, req[r].pc \in Committing \union {"hold"},
         req'[r].pc \in Committing, req'[r].asked = req[r].asked, req'[r].seen = req[r].seen,
         UNCHANGED <<authorities, ledger>>, \A s \in Requests \ {r} : req'[s] = req[s]
  PROVE  Grounded' /\ \A s \in Requests : RestHandler(s)'
<1>1. RestHandler(r)
  BY RestInvParts
<1>2. KnownBy(req[r].asked.campaign, req[r].asked.asOf, req[r].asked.thesis)'
  BY <1>1 DEF RestHandler, KnownBy, authorities
<1>3. RestHandler(r)'
  BY <1>1, <1>2 DEF RestHandler, At, Committing, KnownBy
<1> QED BY <1>3, RestQuiet

LEMMA RestRead ==
  ASSUME RestInv, NEW r \in Requests,
         AcquireCommitLock(r) \/ ReadCampaign(r) \/ ReadThesis(r) \/ ReadFrozen(r)
  PROVE  Grounded' /\ \A s \in Requests : RestHandler(s)'
<1>0. TypeOK /\ RestHandler(r)
  BY RestInvParts DEF CommitInv
<1> req \in [Requests -> RequestStates] /\ req[r] \in RequestStates
  BY <1>0 DEF TypeOK
<1>1. UNCHANGED <<authorities, ledger>>
  BY DEF AcquireCommitLock, ReadCampaign, ReadThesis, ReadFrozen
<1>2. req[r].seen.rows <= Len(ledger)' /\ Len(ledger') \in Nat
  BY <1>0, <1>1, LenProperties DEF RestHandler, TypeOK
<1>3. CASE \E o \in Outcomes : Answer(r, o)
  BY <1>1, <1>3, RestAnswer
<1>4. CASE AcquireCommitLock(r)
  <2>1. /\ \A s \in Requests \ {r} : req'[s] = req[s]
        /\ req'[r].seen = req[r].seen /\ req'[r].pc = "campaign"
    BY <1>4 DEF AcquireCommitLock, RequestStates
  <2> QED BY <1>1, <1>2, <2>1, RestEarly, RestQuiet DEF Committing
<1>5. CASE ReadCampaign(r) /\ ~\E o \in Outcomes : Answer(r, o)
  <2>1. /\ \A s \in Requests \ {r} : req'[s] = req[s]
        /\ req'[r].seen.rows = req[r].seen.rows /\ req'[r].pc \in {"frozen", "thesis"}
    BY <1>5 DEF ReadCampaign, RequestStates, Outcomes
  <2> QED BY <1>1, <1>2, <2>1, RestEarly, RestQuiet DEF Committing
<1>6. CASE ReadThesis(r) /\ ~\E o \in Outcomes : Answer(r, o)
  <2> DEFINE c == req[r].asked.campaign
             t == req[r].asked.asOf
  <2>0. At(r, "thesis") /\ c \in Campaigns /\ t \in Nat
    BY <1>0, <1>6 DEF ReadThesis, TypeOK, At, Proposals
  <2>1. boundAt[c] # 0 /\ ~Lookahead(c, t)
    BY <1>6 DEF ReadThesis, Outcomes
  <2>2. /\ \A s \in Requests \ {r} : req'[s] = req[s]
        /\ req'[r].seen.rows = req[r].seen.rows
        /\ req'[r].seen.thesis = EffectiveState(deltas[c])
        /\ req'[r].asked = req[r].asked /\ req'[r].kind = req[r].kind
        /\ req'[r].pc \in {"build", "frozen"}
    BY <1>6, <2>1 DEF ReadThesis, RequestStates
  <2>3. KnownBy(c, t, EffectiveState(deltas[c]))
    BY <1>0, <2>0, <2>1, AcceptedIsKnown
  <2>4. KnownBy(req[r].asked.campaign, req[r].asked.asOf, req[r].seen.thesis)'
    BY <1>1, <2>2, <2>3 DEF KnownBy, authorities
  <2>5. RestHandler(r)'
    BY <1>2, <2>2, <2>4 DEF RestHandler, At, Committing, KnownBy
  <2> QED BY <1>1, <2>2, <2>5, RestQuiet
<1>7. CASE ReadFrozen(r) /\ ~\E o \in Outcomes : Answer(r, o)
  <2>1. /\ \A s \in Requests \ {r} : req'[s] = req[s]
        /\ req'[r].seen.rows = Len(ledger)
        /\ req'[r].kind = req[r].kind
        /\ req'[r].pc = (IF req[r].kind = "commit" THEN "thesis" ELSE "build")
    BY <1>7 DEF ReadFrozen, RequestStates, Outcomes
  <2>2. RestHandler(r)'
    BY <1>1, <1>2, <2>1 DEF RestHandler, At, Committing
  <2> QED BY <1>1, <2>1, <2>2, RestQuiet
<1> QED BY <1>3, <1>4, <1>5, <1>6, <1>7

LEMMA RestShow ==
  ASSUME RestInv, NEW r \in Requests,
         BuildPreview(r) \/ BuildChallenge(r) \/ AppendChallenge(r)
  PROVE  Grounded' /\ \A s \in Requests : RestHandler(s)'
<1>0. TypeOK
  BY DEF RestInv, CommitInv
<1> req \in [Requests -> RequestStates] /\ req[r] \in RequestStates
  BY <1>0 DEF TypeOK
<1>1. UNCHANGED <<authorities, ledger>>
  BY DEF BuildPreview, BuildChallenge, AppendChallenge
<1>2. CASE \E o : Answer(r, o)
  BY <1>1, <1>2, RestAnswer
<1>3. CASE ~\E o : Answer(r, o)
  <2>1. /\ \A s \in Requests \ {r} : req'[s] = req[s]
        /\ req'[r].seen.rows = 0 /\ req'[r].pc = "finalize"
    BY <1>3 DEF BuildPreview, BuildChallenge, AppendChallenge, RequestStates, NothingSeen
  <2>2. 0 <= Len(ledger')
    BY <1>0, <1>1, LenProperties DEF TypeOK
  <2> QED BY <1>1, <2>1, <2>2, RestEarly, RestQuiet DEF Committing
<1> QED BY <1>2, <1>3

\* The row a replay reads back is one of the rows it has seen; what a new
\* commit holds for is the proposal it could rebuild.
LEMMA RestBuild ==
  ASSUME RestInv, NEW r \in Requests, BuildCommit(r)
  PROVE  Grounded' /\ \A s \in Requests : RestHandler(s)'
<1>0. TypeOK /\ RestHandler(r)
  BY RestInvParts DEF CommitInv
<1> req \in [Requests -> RequestStates] /\ req[r] \in RequestStates
  BY <1>0 DEF TypeOK
<1> DEFINE existing == RowsOf(req[r].asked, req[r].seen.rows)
           p == Built(r, existing)
<1>1. UNCHANGED <<authorities, ledger>> /\ At(r, "build") /\ req[r].kind = "commit"
  BY DEF BuildCommit
<1>2. Len(ledger) \in Nat /\ req[r].asked \in Proposals
  BY <1>0, <1>1, LenProperties DEF TypeOK, At
<1>3. ASSUME NEW pc, NEW i, Used(r, pc, i)
      PROVE  /\ \A s \in Requests \ {r} : req'[s] = req[s]
             /\ req'[r].asked = req[r].asked /\ req'[r].challenged = req[r].challenged
             /\ req'[r].seen.rows = 0 /\ req'[r].row = i /\ req'[r].pc = pc
  BY <1>3 DEF Used, RequestStates, NothingSeen
<1>4. CASE \E o : Answer(r, o)
  BY <1>1, <1>4, RestAnswer
<1>5. CASE p = req[r].asked /\ Used(r, "hold", 0)
  <2>1. p.thesis = req[r].seen.thesis
    BY <1>2 DEF Built, Composed, Evaluated, Proposals
  <2>2. KnownBy(req[r].asked.campaign, req[r].asked.asOf, req[r].asked.thesis)
    BY <1>0, <1>1, <1>5, <2>1 DEF RestHandler
  <2>3. KnownBy(req[r].asked.campaign, req[r].asked.asOf, req[r].asked.thesis)'
    BY <1>1, <1>3, <1>5, <2>2 DEF KnownBy, authorities
  <2>4. /\ req'[r].asked = req[r].asked /\ req'[r].seen.rows = 0 /\ req'[r].pc = "hold"
        /\ Len(ledger') \in Nat
    BY <1>1, <1>2, <1>3, <1>5
  <2>5. RestHandler(r)'
    BY <2>3, <2>4 DEF RestHandler, At
  <2> QED BY <1>1, <1>3, <1>5, <2>5, RestQuiet
<1>6. CASE \E i \in existing : ~ReplayRefused(r, i) /\ Used(r, "readback", i)
  <2> PICK i \in existing : ~ReplayRefused(r, i) /\ Used(r, "readback", i)
    BY <1>6
  <2>1. i \in 1 .. req[r].seen.rows /\ ledger[i].marker = req[r].asked
    BY DEF RowsOf
  <2>2. i \in 1 .. Len(ledger)
    BY <1>0, <1>2, <2>1 DEF RestHandler, RequestStates
  <2>3. req[r].challenged => ledger[i].challenged
    BY DEF ReplayRefused
  <2>4. RestHandler(r)'
    BY <1>1, <1>2, <1>3, <2>1, <2>2, <2>3 DEF RestHandler, At, Committing
  <2> QED BY <1>1, <1>3, <2>4, RestQuiet
<1> QED BY <1>4, <1>5, <1>6 DEF BuildCommit

LEMMA RestCheck ==
  ASSUME RestInv, NEW r \in Requests,
         \/ HoldCampaign(r) \/ HoldBusy(r) \/ CheckMarker(r)
         \/ StampDecision(r) \/ PreWriteValidate(r)
  PROVE  Grounded' /\ \A s \in Requests : RestHandler(s)'
<1>0. TypeOK
  BY DEF RestInv, CommitInv
<1> req \in [Requests -> RequestStates] /\ req[r] \in RequestStates
  BY <1>0 DEF TypeOK
<1>1. UNCHANGED <<authorities, ledger>>
  BY DEF HoldCampaign, HoldBusy, CheckMarker, StampDecision, PreWriteValidate
<1>2. CASE \E o : Answer(r, o)
  BY <1>1, <1>2, RestAnswer
<1>3. CASE ~\E o : Answer(r, o)
  <2>1. /\ req[r].pc \in Committing \union {"hold"}
        /\ req'[r].pc \in Committing
        /\ req'[r].asked = req[r].asked /\ req'[r].seen = req[r].seen
        /\ \A s \in Requests \ {r} : req'[s] = req[s]
    BY <1>3 DEF HoldCampaign, HoldBusy, CheckMarker, StampDecision, PreWriteValidate, Goto,
                At, Committing, RequestStates
  <2> QED BY <1>1, <2>1, RestAdvance
<1> QED BY <1>2, <1>3

\* The row that lands carries the Thesis and the challenge its handler checked.
LEMMA RestInsert ==
  ASSUME RestInv, NEW r \in Requests, InsertDecision(r)
  PROVE  Grounded' /\ \A s \in Requests : RestHandler(s)'
<1>0. TypeOK /\ CommitInv /\ Grounded /\ HandlerOK(r) /\ \A s \in Requests : RestHandler(s)
  BY RestInvParts, CommitInvParts
<1> DEFINE n == Len(ledger)
           row == [marker |-> req[r].asked, committedAt |-> req[r].stamp,
                   challenged |-> req[r].challenged]
<1>1. /\ n \in Nat /\ Len(ledger') = n + 1 /\ ledger'[n + 1] = row
      /\ \A i \in 1 .. n : ledger'[i] = ledger[i]
  BY <1>0, InsertFacts
<1>2. /\ UNCHANGED authorities /\ At(r, "insert")
      /\ req'[r] = [req[r] EXCEPT !.pc = "readback", !.row = n + 1]
      /\ \A s \in Requests \ {r} : req'[s] = req[s]
  BY <1>0 DEF InsertDecision, TypeOK
<1>3. /\ IsBuy(row.marker) => row.challenged
      /\ KnownBy(row.marker.campaign, row.marker.asOf, row.marker.thesis)
  <2>1. req[r].pc \in Committing
    BY <1>2 DEF At, Committing
  <2>2. IsBuy(req[r].asked) => req[r].challenged
    BY <1>0, <2>1 DEF HandlerOK
  <2>3. KnownBy(req[r].asked.campaign, req[r].asked.asOf, req[r].asked.thesis)
    BY <1>0, <2>1 DEF RestHandler
  <2> QED BY <2>2, <2>3
<1>4. \A i \in 1 .. n + 1 : i \in 1 .. n \/ i = n + 1
  BY <1>1
<1>5. \A i \in 1 .. n : i \in 1 .. n + 1
  BY <1>1
<1>6. /\ req'[r].pc = "readback" /\ req'[r].row = n + 1
      /\ req'[r].asked = row.marker /\ req'[r].challenged = row.challenged
      /\ req'[r].seen = req[r].seen
  BY <1>0, <1>2 DEF TypeOK, RequestStates
<1>12. \A i \in 1 .. n : ledger[i] \in Rows
  BY <1>0, ElementOfSeq DEF TypeOK
<1>13. \A s \in Requests : req[s].seen.rows \in Nat
  BY <1>0 DEF TypeOK, RequestStates
<1> HIDE DEF row, n
<1>7. RestHandler(r)'
  <2>1. req'[r].seen.rows <= Len(ledger')
    BY <1>0, <1>1, <1>6, <1>13 DEF RestHandler, n
  <2>2. n + 1 \in 1 .. Len(ledger')
    BY <1>1
  <2> QED BY <1>1, <1>6, <2>1, <2>2 DEF RestHandler, At, Committing
<1>8. ASSUME NEW s \in Requests \ {r} PROVE RestHandler(s)'
  <2>1. RestHandler(s) /\ req'[s] = req[s] /\ UNCHANGED <<boundAt, deltas>>
    BY <1>0, <1>2 DEF authorities
  <2>2. req'[s].seen.rows <= Len(ledger')
    BY <1>1, <1>13, <2>1 DEF RestHandler, n
  <2>3. At(s, "readback") =>
          /\ req[s].row \in 1 .. Len(ledger')
          /\ ledger'[req[s].row] = ledger[req[s].row]
    BY <1>1, <1>5, <2>1 DEF RestHandler, n
  <2> QED BY <2>1, <2>2, <2>3 DEF RestHandler, At, KnownBy
<1>9. BuyRowsChallenged'
  <2> SUFFICES ASSUME NEW i \in 1 .. n + 1, IsBuy(ledger'[i].marker)
               PROVE  ledger'[i].challenged
    BY <1>1 DEF BuyRowsChallenged
  <2> QED BY <1>0, <1>1, <1>3, <1>4 DEF Grounded, BuyRowsChallenged, n
<1>10. ActiveRestsOnBuy'
  <2> SUFFICES ASSUME NEW c \in Campaigns, status'[c] \in {"ACTIVE", "REDUCING", "CLOSED"}
               PROVE  \E i \in 1 .. n + 1 :
                        /\ ledger'[i].marker.campaign = c
                        /\ IsBuy(ledger'[i].marker)
                        /\ ledger'[i].challenged
    BY <1>1 DEF ActiveRestsOnBuy
  <2>1. status[c] \in {"ACTIVE", "REDUCING", "CLOSED"}
    BY <1>2 DEF authorities
  <2>2. PICK i \in 1 .. n : /\ ledger[i].marker.campaign = c
                            /\ IsBuy(ledger[i].marker)
                            /\ ledger[i].challenged
    BY <1>0, <2>1 DEF Grounded, ActiveRestsOnBuy, n
  <2> QED BY <1>1, <1>5, <2>2
<1>11. NoLookahead'
  <2> SUFFICES ASSUME NEW i \in 1 .. n + 1
               PROVE  KnownBy(ledger[i].marker.campaign, ledger[i].marker.asOf,
                              ledger[i].marker.thesis)'
    BY <1>1 DEF NoLookahead
  <2> PICK old \in Rows \union {row} :
         old = ledger'[i] /\ KnownBy(old.marker.campaign, old.marker.asOf, old.marker.thesis)
    BY <1>0, <1>1, <1>3, <1>4, <1>12 DEF Grounded, NoLookahead, n
  <2> QED BY <1>2 DEF KnownBy, authorities
<1>14. FoundIsBuy'
  <2> SUFFICES ASSUME NEW c \in Campaigns, activation[c].step = "found"
               PROVE  /\ activation[c].row \in 1 .. n + 1
                      /\ ledger'[activation[c].row].marker.campaign = c
                      /\ IsBuy(ledger'[activation[c].row].marker)
    BY <1>1, <1>2 DEF FoundIsBuy, authorities
  <2>1. /\ activation[c].row \in 1 .. n
        /\ ledger[activation[c].row].marker.campaign = c
        /\ IsBuy(ledger[activation[c].row].marker)
    BY <1>0 DEF Grounded, FoundIsBuy, n
  <2> QED BY <1>1, <1>5, <2>1
<1> QED BY <1>7, <1>8, <1>9, <1>10, <1>11, <1>14 DEF Grounded

LEMMA RestFinish ==
  ASSUME RestInv, NEW r \in Requests, InsertAborts(r) \/ ReadBack(r) \/ ReadBackFails(r)
  PROVE  Grounded' /\ \A s \in Requests : RestHandler(s)'
BY RestAnswer DEF InsertAborts, ReadBack, ReadBackFails

LEMMA RestBegin ==
  ASSUME RestInv, NEW r \in Requests, Begin(r)
  PROVE  Grounded' /\ \A s \in Requests : RestHandler(s)'
<1>0. TypeOK
  BY DEF RestInv, CommitInv
<1>1. \E kind, p, b : \E pc \in {"campaign", "lock"} : Arrive(r, kind, pc, p, b)
  BY DEF Begin, BeginPreview, BeginChallenge, BeginCommit
<1>2. /\ UNCHANGED <<authorities, ledger>>
      /\ \A s \in Requests \ {r} : req'[s] = req[s]
      /\ req'[r].pc \in {"campaign", "lock"} /\ req'[r].seen.rows = 0
  BY <1>0, <1>1 DEF Arrive, TypeOK, IdleRequest, NothingSeen
<1>3. 0 <= Len(ledger')
  BY <1>0, <1>2, LenProperties DEF TypeOK
<1> QED BY <1>2, <1>3, RestEarly, RestQuiet DEF Committing

LEMMA RestCrash ==
  ASSUME RestInv, NEW b \in Backends, Crash(b)
  PROVE  Grounded' /\ \A s \in Requests : RestHandler(s)'
<1>0. TypeOK /\ Grounded /\ \A s \in Requests : RestHandler(s)
  BY RestInvParts DEF CommitInv
<1>1. UNCHANGED <<authorities, ledger>>
  BY DEF Crash
<1>2. ASSUME NEW s \in Requests PROVE RestHandler(s)'
  <2>1. CASE HomeOf[s] = b
    <3>1. req'[s] = IdleRequest
      BY <2>1 DEF Crash
    <3>2. 0 <= Len(ledger')
      BY <1>0, <1>1, LenProperties DEF TypeOK
    <3> QED BY <3>1, <3>2, RestEarly DEF IdleRequest, NothingSeen, Committing
  <2>2. CASE HomeOf[s] # b
    <3>1. req'[s] = req[s]
      BY <2>2 DEF Crash
    <3> QED BY <1>0, <1>1, <3>1, RestBystander DEF authorities
  <2> QED BY <2>1, <2>2
<1> QED BY <1>0, <1>1, <1>2, GroundKept

\* The ledger only grows, and only the activation command leads from PRE-ENTRY to
\* ACTIVE: the BUY row it has found before is still there when it writes.
LEMMA RestEnvironment ==
  ASSUME RestInv, Environment
  PROVE  Grounded' /\ \A s \in Requests : RestHandler(s)'
<1>0. TypeOK /\ Grounded /\ \A s \in Requests : RestHandler(s)
  BY RestInvParts DEF CommitInv
<1>1. UNCHANGED <<ledger, req>>
  BY <1>0, EnvironmentType DEF others
<1>2. BuyRowsChallenged'
  BY <1>0, <1>1 DEF Grounded, BuyRowsChallenged
<1>3. ActiveRestsOnBuy'
  <2> DEFINE Entered == {"ACTIVE", "REDUCING", "CLOSED"}
             Rests(c) == \E i \in 1 .. Len(ledger) :
                           /\ ledger[i].marker.campaign = c
                           /\ IsBuy(ledger[i].marker)
                           /\ ledger[i].challenged
  <2>1. \A c \in Campaigns : status[c] \in Entered => Rests(c)
    BY <1>0 DEF Grounded, ActiveRestsOnBuy
  <2>2. CASE status' = status
    BY <1>1, <2>1, <2>2 DEF ActiveRestsOnBuy
  <2>3. ASSUME NEW d \in Campaigns, NEW to \in Statuses, TransitionCampaign(d, to)
        PROVE  \A c \in Campaigns : status'[c] \in Entered => Rests(c)
    <3>1. /\ status[d] \in Statuses /\ to \in TransitionGraph[status[d]]
          /\ ~NeedsActivation(status[d], to)
          /\ \A c \in Campaigns : status'[c] = IF c = d THEN to ELSE status[c]
      BY <1>0, <2>3 DEF TransitionCampaign, TypeOK
    <3>2. to \in Entered => status[d] \in Entered
      BY <3>1 DEF TransitionGraph, Statuses, NeedsActivation
    <3> QED BY <2>1, <3>1, <3>2
  <2>4. ASSUME NEW d \in Campaigns, ActivateCampaign(d)
        PROVE  \A c \in Campaigns : status'[c] \in Entered => Rests(c)
    <3>1. Rests(d)
      BY <1>0, <2>4 DEF ActivateCampaign, Grounded, FoundIsBuy, BuyRowsChallenged
    <3>2. \A c \in Campaigns : c # d => status'[c] = status[c]
      BY <1>0, <2>4 DEF ActivateCampaign, TypeOK
    <3> HIDE DEF Rests
    <3> QED BY <2>1, <3>1, <3>2
  <2>5. ASSUME \A c \in Campaigns : status'[c] \in Entered => Rests(c)
        PROVE  ActiveRestsOnBuy'
    BY <1>1, <2>5 DEF ActiveRestsOnBuy
  <2> HIDE DEF Rests, Entered
  <2> QED BY <2>2, <2>3, <2>4, <2>5 DEF Environment, BeginActivation, FindDecision, Found,
             AbandonActivation, BindThesis, ConfirmDelta, MarketMoves, Tick
<1>6. FoundIsBuy'
  <2> DEFINE Good(c) == activation'[c].step = "found" =>
                          /\ activation'[c].row \in 1 .. Len(ledger)
                          /\ ledger[activation'[c].row].marker.campaign = c
                          /\ IsBuy(ledger[activation'[c].row].marker)
  <2>1. \A c \in Campaigns : activation'[c] = activation[c] => Good(c)
    BY <1>0 DEF Grounded, FoundIsBuy
  <2>2. CASE UNCHANGED activation
    BY <1>1, <2>1, <2>2 DEF FoundIsBuy
  <2>3. ASSUME NEW d \in Campaigns,
               BeginActivation(d) \/ FindDecision(d) \/ AbandonActivation(d)
        PROVE  \A c \in Campaigns : Good(c)
    <3>1. Good(d)
      BY <1>0, <2>3, ActivationStep
    <3>2. \A c \in Campaigns : c # d => activation'[c] = activation[c]
      BY <1>0, <2>3, ActivationStep
    <3> HIDE DEF Good
    <3> QED BY <2>1, <3>1, <3>2
  <2>4. ASSUME NEW d \in Campaigns, ActivateCampaign(d)
        PROVE  \A c \in Campaigns : Good(c)
    <3>1. activation'[d] = NoActivation
      BY <1>0, <2>4 DEF ActivateCampaign, TypeOK
    <3>2. Good(d)
      BY <3>1 DEF NoActivation
    <3>3. \A c \in Campaigns : c # d => activation'[c] = activation[c]
      BY <1>0, <2>4 DEF ActivateCampaign, TypeOK
    <3> HIDE DEF Good
    <3> QED BY <2>1, <3>2, <3>3
  <2>5. ASSUME \A c \in Campaigns : Good(c) PROVE FoundIsBuy'
    BY <1>1, <2>5 DEF FoundIsBuy
  <2> HIDE DEF Good
  <2> QED BY <2>2, <2>3, <2>4, <2>5
          DEF Environment, TransitionCampaign, BindThesis, ConfirmDelta, MarketMoves, Tick
<1>4. NoLookahead'
  <2> SUFFICES ASSUME NEW i \in 1 .. Len(ledger)
               PROVE  KnownBy(ledger[i].marker.campaign, ledger[i].marker.asOf,
                              ledger[i].marker.thesis)'
    BY <1>1 DEF NoLookahead
  <2>1. ledger[i] \in Rows
    BY <1>0, ElementOfSeq DEF TypeOK
  <2>2. /\ ledger[i].marker.campaign \in Campaigns /\ ledger[i].marker.asOf \in Nat
        /\ ledger[i].marker.thesis \in ThesisStates
    BY <2>1 DEF Rows, Proposals
  <2>3. KnownBy(ledger[i].marker.campaign, ledger[i].marker.asOf, ledger[i].marker.thesis)
    BY <1>0 DEF Grounded, NoLookahead
  <2> PICK c \in Campaigns, t \in Nat, h \in ThesisStates :
         /\ c = ledger[i].marker.campaign
         /\ t = ledger[i].marker.asOf
         /\ h = ledger[i].marker.thesis
    BY <2>2
  <2>4. KnownBy(c, t, h)'
    BY <1>0, <2>3, KnownKeeps
  <2> QED BY <1>1, <2>4 DEF KnownBy
<1>5. ASSUME NEW s \in Requests PROVE RestHandler(s)'
  <2>1. RestHandler(s) /\ req'[s] = req[s]
    BY <1>0, <1>1
  <2>2. /\ req[s].seen.thesis \in ThesisStates
        /\ ~At(s, "idle") => /\ req[s].asked.campaign \in Campaigns
                             /\ req[s].asked.asOf \in Nat
                             /\ req[s].asked.thesis \in ThesisStates
    BY <1>0 DEF TypeOK, RequestStates, Proposals
  <2>4. ASSUME At(s, "build"), req[s].kind = "commit"
        PROVE  KnownBy(req[s].asked.campaign, req[s].asked.asOf, req[s].seen.thesis)'
    <3> PICK c \in Campaigns, t \in Nat, h \in ThesisStates :
           /\ c = req[s].asked.campaign
           /\ t = req[s].asked.asOf
           /\ h = req[s].seen.thesis
      BY <2>2, <2>4 DEF At
    <3>1. KnownBy(c, t, h)
      BY <2>1, <2>4 DEF RestHandler
    <3>2. KnownBy(c, t, h)'
      BY <1>0, <3>1, KnownKeeps
    <3> QED BY <1>1, <3>2 DEF KnownBy
  <2>5. ASSUME req[s].pc \in Committing \union {"hold"}
        PROVE  KnownBy(req[s].asked.campaign, req[s].asked.asOf, req[s].asked.thesis)'
    <3> PICK c \in Campaigns, t \in Nat, h \in ThesisStates :
           /\ c = req[s].asked.campaign
           /\ t = req[s].asked.asOf
           /\ h = req[s].asked.thesis
      BY <2>2, <2>5 DEF At, Committing
    <3>1. KnownBy(c, t, h)
      BY <2>1, <2>5 DEF RestHandler
    <3>2. KnownBy(c, t, h)'
      BY <1>0, <3>1, KnownKeeps
    <3> QED BY <1>1, <3>2 DEF KnownBy
  <2> QED BY <1>1, <2>1, <2>4, <2>5 DEF RestHandler, At, KnownBy
<1> QED BY <1>2, <1>3, <1>4, <1>5, <1>6 DEF Grounded

LEMMA RestInvInit == Init => RestInv
<1> SUFFICES ASSUME Init PROVE RestInv
  OBVIOUS
<1>1. Len(ledger) = 0
  BY EmptySeq DEF Init
<1>2. Grounded
  BY <1>1 DEF Init, NoActivation, Grounded, BuyRowsChallenged, FoundIsBuy, ActiveRestsOnBuy,
              NoLookahead
<1>3. \A s \in Requests : RestHandler(s)
  BY <1>1 DEF Init, RestHandler, At, Committing, IdleRequest, NothingSeen
<1> QED BY <1>2, <1>3, CommitInvInit, RestInvParts

LEMMA RestInvStep == RestInv /\ [Next]_vars => RestInv'
<1> SUFFICES ASSUME RestInv, [Next]_vars PROVE RestInv'
  OBVIOUS
<1>0. CommitInv'
  BY CommitInvStep DEF RestInv
<1>1. ASSUME Grounded', \A s \in Requests : RestHandler(s)' PROVE RestInv'
  BY <1>0, <1>1 DEF RestInv, RestHandler, Grounded, SeenIsPast, AnswersNameTheirRow, ThesisKnown
<1>2. ASSUME NEW r \in Requests, Begin(r) PROVE RestInv'
  BY <1>1, <1>2, RestBegin
<1>3. ASSUME NEW r \in Requests, Step(r) PROVE RestInv'
  BY <1>1, <1>3, RestRead, RestShow, RestBuild, RestCheck, RestInsert, RestFinish DEF Step
<1>4. ASSUME NEW b \in Backends, Crash(b) PROVE RestInv'
  BY <1>1, <1>4, RestCrash
<1>5. CASE Environment
  BY <1>1, <1>5, RestEnvironment
<1>6. CASE UNCHANGED vars
  <2>1. \A s \in Requests : RestHandler(s)'
    BY <1>6, RestInvParts, RestBystander DEF vars, authorities
  <2>2. Grounded'
    BY <1>6, RestInvParts, GroundKept DEF vars
  <2> QED BY <1>1, <2>1, <2>2
<1> QED BY <1>2, <1>3, <1>4, <1>5, <1>6 DEF Next

LEMMA RestInvariant == Spec => []RestInv
BY RestInvInit, RestInvStep, PTL DEF Spec

\* A Campaign that was ever ACTIVE has a challenged BUY decision of its own, although
\* the activation command reads the Campaign and the decision, from two databases, in
\* steps of their own and writes later without looking at the decision again.
THEOREM ActiveCampaignsRestOnBuys == Spec => []ActiveRestsOnBuy
<1>1. RestInv => ActiveRestsOnBuy
  BY DEF RestInv
<1> QED BY <1>1, RestInvariant, PTL

\* What a decision says of its Thesis could be known at its as_of, although
\* bindings and deltas land between the reads of a commit.
THEOREM DecisionsDoNotLookAhead == Spec => []NoLookahead
<1>1. RestInv => NoLookahead
  BY DEF RestInv
<1> QED BY <1>1, RestInvariant, PTL

\* The row a commit or a replay reads back is the durable row of the proposal
\* asked for, bound to a challenge whenever the client named one.
THEOREM AnswersAreTheirRows == Spec => []AnswersNameTheirRow
<1>1. RestInv => AnswersNameTheirRow
  BY DEF RestInv
<1> QED BY <1>1, RestInvariant, PTL

(***************************************************************************)
(* The commit path implements the abstract ledger.                         *)
(***************************************************************************)
LEMMA LedgerInit == Init => Ledger!Init
<1> SUFFICES ASSUME Init PROVE Ledger!Init
  OBVIOUS
<1>1. \A c \in Campaigns : status[c] \notin Terminal
  BY DEF Init, Terminal
<1> QED BY <1>1 DEF Init, Ledger!Init

\* A terminal status has no edge out of it.
LEMMA TerminalIsLeftNever ==
  ASSUME NEW s \in Statuses, TransitionGraph[s] # {} PROVE s \notin Terminal
BY DEF TransitionGraph, Statuses, Terminal

LEMMA LedgerStep == CommitInv /\ [Next]_vars => [Ledger!Next]_(Ledger!vars)
<1> SUFFICES ASSUME CommitInv, [Next]_vars PROVE [Ledger!Next]_(Ledger!vars)
  OBVIOUS
<1>0. TypeOK /\ LedgerOK /\ \A s \in Requests : HandlerOK(s)
  BY CommitInvParts
<1> DEFINE open == {c \in Campaigns : status[c] \notin Terminal}
<1>1. ASSUME UNCHANGED <<clock, status, ledger>> PROVE UNCHANGED Ledger!vars
  BY <1>1 DEF Ledger!vars
<1>2. ASSUME NEW r \in Requests, InsertDecision(r) PROVE Ledger!Record
  <2> DEFINE n == Len(ledger)
             row == [marker |-> req[r].asked, committedAt |-> req[r].stamp,
                     challenged |-> req[r].challenged]
  <2>1. /\ n \in Nat /\ Len(ledger') = n + 1 /\ ledger' = Append(ledger, row)
        /\ ledger'[n + 1] = row
    BY <1>2, InsertFacts
  <2>2. req[r].asked.campaign \in Campaigns
    BY <1>0, <1>2 DEF InsertDecision, FrozenRow, At, TypeOK, Proposals
  <2>3. /\ row.marker.campaign \in open
        /\ \A i \in 1 .. n : ledger[i].marker # row.marker
        /\ \A i \in 1 .. n : ledger[i].committedAt <= row.committedAt
        /\ row.committedAt <= clock
    BY <1>0, <1>2, <2>2 DEF InsertDecision, FrozenRow, HandlerOK, At, Committing
  <2>4. clock' = clock /\ open' = open
    BY <1>2 DEF InsertDecision, FrozenRow, authorities
  <2> HIDE DEF row
  <2> QED BY <2>1, <2>3, <2>4 DEF Ledger!Record, Ledger!NewRow
<1>3. ASSUME NEW c \in Campaigns, NEW to \in Statuses, TransitionCampaign(c, to)
      PROVE  Ledger!Close
  <2>1. status[c] \notin Terminal
    BY <1>0, <1>3, TerminalIsLeftNever DEF TransitionCampaign, TypeOK
  <2>2. \A d \in Campaigns : d # c => status'[d] = status[d]
    BY <1>0, <1>3 DEF TransitionCampaign, TypeOK
  <2>3. open' \subseteq open
    BY <2>1, <2>2
  <2> QED BY <1>3, <2>3 DEF TransitionCampaign, others, Ledger!Close
<1>4. ASSUME NEW c \in Campaigns, ActivateCampaign(c) PROVE Ledger!Close
  <2>1. status[c] \notin Terminal
    BY <1>4 DEF ActivateCampaign, Terminal
  <2>2. \A d \in Campaigns : d # c => status'[d] = status[d]
    BY <1>0, <1>4 DEF ActivateCampaign, TypeOK
  <2>3. open' \subseteq open
    BY <2>1, <2>2
  <2> QED BY <1>4, <2>3 DEF ActivateCampaign, others, Ledger!Close
<1>5. ASSUME Tick PROVE Ledger!Tick
  <2>1. clock' > clock
    BY <1>0, <1>5 DEF Tick, TypeOK
  <2> QED BY <1>5, <2>1 DEF Tick, others, Ledger!Tick
<1>6. CASE Environment
  BY <1>1, <1>3, <1>4, <1>5, <1>6
  DEF Environment, BeginActivation, FindDecision, Found, AbandonActivation,
      BindThesis, ConfirmDelta, MarketMoves, others, Ledger!Next
<1>7. ASSUME NEW r \in Requests, Begin(r) PROVE UNCHANGED Ledger!vars
  BY <1>0, <1>1, <1>7, BeginType DEF authorities
<1>8. ASSUME NEW r \in Requests, Step(r), ~InsertDecision(r) PROVE UNCHANGED Ledger!vars
  <2>1. UNCHANGED <<authorities, ledger>>
    BY <1>8 DEF Step, AcquireCommitLock, ReadCampaign, ReadThesis, ReadFrozen, BuildPreview,
       BuildChallenge, AppendChallenge, BuildCommit, HoldCampaign, HoldBusy, CheckMarker,
       StampDecision, PreWriteValidate, InsertAborts, ReadBack, ReadBackFails
  <2> QED BY <1>1, <2>1 DEF authorities
<1>9. ASSUME NEW b \in Backends, Crash(b) PROVE UNCHANGED Ledger!vars
  BY <1>1, <1>9 DEF Crash, authorities
<1>10. CASE UNCHANGED vars
  BY <1>1, <1>10 DEF vars, authorities
<1> QED BY <1>2, <1>6, <1>7, <1>8, <1>9, <1>10 DEF Next, Ledger!Next

\* The detailed commit path, with its locks, crashes and four stores, is a
\* refinement of the append-only ledger.
THEOREM CommitImplementsLedger == Spec => ImplementsLedger
BY LedgerInit, LedgerStep, CommitInvariant, PTL DEF Spec, ImplementsLedger, Ledger!Spec

================================================================================
