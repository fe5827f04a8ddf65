------------------------- MODULE ShortlineReviewProofs -------------------------
(***************************************************************************)
(* Proofs about ShortlineReview: its type invariant, its safety properties, *)
(* and that it implements VersionArchive.                                   *)
(***************************************************************************)
EXTENDS ShortlineReview, TLAPS

Record == [pc : Positions, gen : Generations \cup {None},
           bundle : Bundles \cup {None}, stages : Stages,
           cancelled : BOOLEAN, early : BOOLEAN, answer : {"none", "done"}]

\* RunIsTrue of a record q, a lock w and a table V.
Truth(r, q, w, V) ==
  /\ q.pc \notin {"new", "over"} => q.gen \in Generations /\ q.bundle \in Bundles
  /\ q.pc \in {"new", "lookup", "build"} => q.stages = <<>> /\ ~q.early
  /\ q.pc \in {"run", "append", "begin", "insert", "commit"} =>
       /\ Populated[q.bundle] # {}
       /\ \A i \in 1..Sections : i <= Len(q.stages) =>
            (q.stages[i] # "skipped" <=> i \in Populated[q.bundle])
  /\ q.pc \in {"append", "begin", "insert", "commit"} => Len(q.stages) = Sections + 1
  /\ q.early => q.cancelled
  /\ w = r <=> q.pc \in {"insert", "commit"}
  /\ q.pc = "commit" => ~q.early /\ V[q.gen] = None
  /\ q.answer = "done" => q.pc \in {"finally", "closing", "over"}
  /\ q.pc = "answer" \/ q.answer = "done" =>
       /\ q.gen \in Generations
       /\ V[q.gen] # None /\ V[q.gen].bundle = q.bundle

LEMMA TruthIsRunIsTrue == \A r : RunIsTrue(r) <=> Truth(r, request[r], writer, versions)
  BY DEF RunIsTrue, Truth

LEMMA EmptyStages == <<>> \in Stages /\ Len(<<>>) = 0
  BY ReviewAssumption DEF Stages, ReviewAssumption

\* What is true of a request stays true when the table only grows, the lock's holder is told
\* apart from it as before, and no row appears that it is about to insert.
LEMMA TruthKeeps ==
  ASSUME NEW s, NEW q \in Record, NEW w, NEW w1, NEW V, NEW V1,
         Truth(s, q, w, V), w = s <=> w1 = s,
         q.pc = "commit" => V1[q.gen] = V[q.gen],
         \A g \in Generations : V[g] # None => V1[g] = V[g]
  PROVE  Truth(s, q, w1, V1)
  <1>1. q.pc \in {"insert", "commit"} <=> w1 = s
    BY DEF Truth
  <1>2. q.pc = "answer" \/ q.answer = "done" =>
          /\ q.gen \in Generations
          /\ V1[q.gen] # None /\ V1[q.gen].bundle = q.bundle
    <2>1. HAVE q.pc = "answer" \/ q.answer = "done"
    <2>2. q.gen \in Generations /\ V[q.gen] # None /\ V[q.gen].bundle = q.bundle
      BY <2>1 DEF Truth
    <2>3. V1[q.gen] = V[q.gen]
      BY <2>2
    <2> QED BY <2>2, <2>3
  <1> QED BY <1>1, <1>2 DEF Truth

\* A step of one request that leaves the table as it is.
LEMMA RequestMoves ==
  ASSUME ReviewInv, NEW r \in Requests, NEW q \in Record,
         request' = [request EXCEPT ![r] = q],
         Truth(r, q, writer', versions),
         writer' \in Requests \cup {None},
         \A s \in Requests : s # r => (writer = s <=> writer' = s),
         active' \subseteq Generations, UNCHANGED <<materials, versions, unwanted>>
  PROVE  ReviewInv'
  <1>1. request' \in [Requests -> Record]
    BY DEF ReviewInv, TypeOK, Record
  <1>2. TypeOK' /\ NoCommitAfterCancel'
    BY <1>1 DEF ReviewInv, TypeOK, NoCommitAfterCancel, Record
  <1>3. ASSUME NEW s \in Requests PROVE Truth(s, request'[s], writer', versions')
    <2>1. CASE s = r
      BY <2>1 DEF ReviewInv, TypeOK
    <2>2. CASE s # r
      <3>1. request'[s] = request[s] /\ request[s] \in Record
        BY <2>2 DEF ReviewInv, TypeOK, Record
      <3>2. Truth(s, request[s], writer, versions)
        BY TruthIsRunIsTrue DEF ReviewInv
      <3> QED BY <2>2, <3>1, <3>2, TruthKeeps
    <2> QED BY <2>1, <2>2
  <1>4. \A s \in Requests : RunIsTrue(s)'
    BY <1>3 DEF RunIsTrue, Truth
  <1> QED BY <1>2, <1>4 DEF ReviewInv

LEMMA OwnTruth ==
  ASSUME ReviewInv, NEW r \in Requests
  PROVE  /\ request[r] \in Record
         /\ Truth(r, request[r], writer, versions)
         /\ request \in [Requests -> Record]
  BY TruthIsRunIsTrue DEF ReviewInv, TypeOK, Record

\* Closing a request: what it told its client stays true.
LEMMA OverIsTrue ==
  ASSUME NEW r, NEW q \in Record, NEW w, NEW w1, NEW V, Truth(r, q, w, V), w1 # r
  PROVE  Over(q) \in Record /\ Truth(r, Over(q), w1, V)
  <1> DEFINE p == Over(q)
  <1>1. /\ p.pc = "over" /\ p.answer = q.answer /\ ~p.early
        /\ q.answer = "done" => p.gen = q.gen /\ p.bundle = q.bundle
    BY DEF Over, NewRequest
  <1>2. p \in Record
    <2>1. CASE q.answer = "done"
      BY <2>1, EmptyStages DEF Record, Positions, Over, NewRequest
    <2>2. CASE q.answer # "done"
      BY <2>2, EmptyStages DEF Record, Positions, Over, NewRequest
    <2> QED BY <2>1, <2>2
  <1> HIDE DEF p
  <1>4. Truth(r, p, w1, V)
    BY <1>1 DEF Truth
  <1> QED BY <1>2, <1>4 DEF p

\* Ending the generator, outside its transaction or giving back the lock.
LEMMA FinishIsTrue ==
  ASSUME NEW r, NEW q \in Record, NEW w, NEW w1, NEW V, NEW p,
         Truth(r, q, w, V), w1 # r, q.pc \notin {"new", "over"},
         p.answer = "done" => q.pc = "answer",
         p.pc = "finally", ~p.early, p.gen = q.gen, p.bundle = q.bundle
  PROVE  Truth(r, p, w1, V)
  BY DEF Truth

LEMMA FinishKeeps ==
  ASSUME ReviewInv, NEW r \in Requests, NEW answer \in {"none", "done"},
         Finish(r, answer), request[r].pc \notin {"new", "over"},
         answer = "done" => request[r].pc = "answer",
         \/ writer' = writer /\ request[r].pc \notin {"insert", "commit"}
         \/ writer' = None /\ request[r].pc \in {"insert", "commit"},
         UNCHANGED <<active, materials, versions, unwanted>>
  PROVE  ReviewInv'
  <1> DEFINE p == [request[r] EXCEPT !.pc = "finally", !.answer = answer, !.stages = <<>>,
                                     !.cancelled = TRUE, !.early = FALSE]
  <1>1. request[r] \in Record /\ Truth(r, request[r], writer, versions)
    BY OwnTruth
  <1>2. writer' \in Requests \cup {None} /\ writer' # r
    BY <1>1, ReviewAssumption DEF Truth, ReviewInv, TypeOK, ReviewAssumption
  <1>3. \A s \in Requests : s # r => (writer = s <=> writer' = s)
    BY <1>1, ReviewAssumption DEF Truth, ReviewAssumption
  <1>5. request' = [request EXCEPT ![r] = p] /\ active' \subseteq Generations
    BY DEF Finish, ReviewInv, TypeOK
  <1>6. p \in Record
    BY <1>1, EmptyStages DEF Record, Positions
  <1>7. /\ p.pc = "finally" /\ p.answer = answer /\ ~p.early
        /\ p.gen = request[r].gen /\ p.bundle = request[r].bundle
    BY <1>1 DEF Record
  <1> HIDE DEF p
  <1>4. p \in Record /\ Truth(r, p, writer', versions)
    BY <1>1, <1>2, <1>6, <1>7, FinishIsTrue
  <1> QED BY <1>2, <1>3, <1>4, <1>5, RequestMoves

\* A step that only moves a request on.
LEMMA GotoKeeps ==
  ASSUME ReviewInv, NEW r \in Requests, NEW pc \in Positions,
         Goto(r, pc), active' \subseteq Generations, writer' \in Requests \cup {None},
         \A s \in Requests : s # r => (writer = s <=> writer' = s),
         UNCHANGED <<materials, versions, unwanted>>,
         Truth(r, [request[r] EXCEPT !.pc = pc], writer', versions)
  PROVE  ReviewInv'
  <1> DEFINE p == [request[r] EXCEPT !.pc = pc]
  <1>1. request[r] \in Record
    BY OwnTruth
  <1>2. p \in Record
    BY <1>1 DEF Record
  <1>3. request' = [request EXCEPT ![r] = p]
    BY DEF Goto
  <1>4. Truth(r, p, writer', versions)
    OBVIOUS
  <1> HIDE DEF p
  <1> QED BY <1>2, <1>3, <1>4, RequestMoves

LEMMA GiveUpKeeps ==
  ASSUME ReviewInv, NEW r \in Requests, GiveUp(r),
         request[r].pc \in {"lookup", "build"},
         UNCHANGED <<materials, versions, writer, unwanted>>
  PROVE  ReviewInv'
  <1> DEFINE p == Over(request[r])
  <1>0. request[r] \in Record /\ Truth(r, request[r], writer, versions) /\ writer # r
    BY OwnTruth DEF Truth
  <1>1. p \in Record /\ Truth(r, p, writer, versions)
    BY <1>0, OverIsTrue
  <1>2. request' = [request EXCEPT ![r] = p] /\ active' \subseteq Generations
    BY DEF GiveUp, Close, ReviewInv, TypeOK
  <1>3. writer' = writer /\ writer \in Requests \cup {None}
    BY DEF ReviewInv, TypeOK
  <1> HIDE DEF p
  <1> QED BY <1>1, <1>2, <1>3, RequestMoves

LEMMA AcceptKeeps ==
  ASSUME ReviewInv, NEW r \in Requests, Accept(r)
  PROVE  ReviewInv'
  <1>1. PICK g \in Generations \ active, b \in Bundles :
          /\ active' = active \cup {g}
          /\ request' = [request EXCEPT ![r] =
               [request[r] EXCEPT !.pc = "lookup", !.gen = g, !.bundle = b]]
    BY DEF Accept
  <1> DEFINE p == [request[r] EXCEPT !.pc = "lookup", !.gen = g, !.bundle = b]
  <1>2. request[r] \in Record /\ Truth(r, request[r], writer, versions) /\ request[r].pc = "new"
    BY OwnTruth DEF Accept, At
  <1>3. p \in Record
    BY <1>2 DEF Record, Positions
  <1>4. /\ p.pc = "lookup" /\ p.gen = g /\ p.bundle = b
        /\ p.stages = request[r].stages /\ p.early = request[r].early /\ p.answer = request[r].answer
    BY <1>2 DEF Record
  <1>5. request' = [request EXCEPT ![r] = p]
    BY <1>1
  <1> HIDE DEF p
  <1>6. Truth(r, p, writer, versions)
    BY <1>2, <1>4 DEF Truth
  <1>7. /\ active' \subseteq Generations /\ writer' = writer /\ writer \in Requests \cup {None}
        /\ UNCHANGED <<materials, versions, unwanted>>
    BY <1>1 DEF Accept, ReviewInv, TypeOK
  <1> QED BY <1>3, <1>5, <1>6, <1>7, RequestMoves

LEMMA LookUpKeeps ==
  ASSUME ReviewInv, NEW r \in Requests, LookUp(r)
  PROVE  ReviewInv'
  <1>1. /\ request[r] \in Record /\ Truth(r, request[r], writer, versions)
        /\ request[r].pc = "lookup" /\ writer \in Requests \cup {None} /\ active \subseteq Generations
        /\ UNCHANGED <<materials, versions, writer, unwanted>>
    BY OwnTruth DEF LookUp, At, ReviewInv, TypeOK
  <1>2. CASE versions[Gen(r)] = None
    <2>1. Truth(r, [request[r] EXCEPT !.pc = "build"], writer, versions)
      BY <1>1 DEF Truth, Record
    <2> QED BY <1>1, <1>2, <2>1, GotoKeeps DEF LookUp, Positions
  <1>3. CASE versions[Gen(r)] # None /\ versions[Gen(r)].bundle = request[r].bundle
    <2>1. Truth(r, [request[r] EXCEPT !.pc = "answer"], writer, versions)
      BY <1>1, <1>3 DEF Truth, Record, Gen
    <2> QED BY <1>1, <1>3, <2>1, GotoKeeps DEF LookUp, Positions
  <1>4. CASE versions[Gen(r)] # None /\ versions[Gen(r)].bundle # request[r].bundle
    BY <1>1, <1>4, GiveUpKeeps DEF LookUp
  <1> QED BY <1>2, <1>3, <1>4

LEMMA FindBusyKeeps ==
  ASSUME ReviewInv, NEW r \in Requests, FindBusy(r)
  PROVE  ReviewInv'
  BY GiveUpKeeps DEF FindBusy, At

LEMMA BuildKeeps ==
  ASSUME ReviewInv, NEW r \in Requests, Build(r)
  PROVE  ReviewInv'
  <1>1. /\ request[r] \in Record /\ Truth(r, request[r], writer, versions)
        /\ request[r].pc = "build" /\ writer \in Requests \cup {None} /\ active \subseteq Generations
        /\ UNCHANGED <<materials, versions, writer, unwanted>>
    BY OwnTruth DEF Build, At, ReviewInv, TypeOK
  <1>2. CASE materials = request[r].bundle /\ Populated[materials] # {}
    <2>1. Len(<<>>) = 0 /\ request[r].stages = <<>>
      BY <1>1, EmptyStages DEF Truth
    <2>2. \A i \in 1..Sections : ~(i <= Len(request[r].stages))
      BY <2>1
    <2>3. Truth(r, [request[r] EXCEPT !.pc = "run"], writer, versions)
      BY <1>1, <1>2, <2>2 DEF Truth, Record
    <2> QED BY <1>1, <1>2, <2>3, GotoKeeps DEF Build, Positions
  <1>3. CASE ~(materials = request[r].bundle /\ Populated[materials] # {})
    BY <1>1, <1>3, GiveUpKeeps DEF Build
  <1> QED BY <1>2, <1>3

\* A stage is skipped exactly when its section holds no evidence.
LEMMA RunStageKeeps ==
  ASSUME ReviewInv, NEW r \in Requests, RunStage(r)
  PROVE  ReviewInv'
  <1>1. PICK outcome \in IF HasEvidence(r) THEN {"generated", "requires_review"} ELSE {"skipped"} :
          request' = [request EXCEPT ![r].stages = Append(request[r].stages, outcome)]
    BY DEF RunStage
  <1> DEFINE q == request[r]
             t == Append(q.stages, outcome)
             p == [q EXCEPT !.stages = t]
  <1>2. /\ q \in Record /\ Truth(r, q, writer, versions) /\ q.pc = "run"
        /\ Len(q.stages) <= Sections /\ q.stages \in Seq(Outcomes)
    BY OwnTruth DEF RunStage, At, Record, Stages
  <1>3. outcome \in Outcomes
    BY <1>1 DEF Outcomes
  <1>4. /\ t \in Stages /\ Len(t) = Len(q.stages) + 1 /\ t[Len(q.stages) + 1] = outcome
        /\ Len(q.stages) \in Nat
        /\ \A i \in 1..Len(q.stages) : t[i] = q.stages[i]
    BY <1>2, <1>3, ReviewAssumption DEF Stages, ReviewAssumption
  <1>5. /\ p \in Record /\ p.pc = "run" /\ p.stages = t /\ p.gen = q.gen /\ p.bundle = q.bundle
        /\ p.cancelled = q.cancelled /\ p.early = q.early /\ p.answer = q.answer
    BY <1>2, <1>4 DEF Record
  <1>6. request' = [request EXCEPT ![r] = p]
    BY <1>1
  <1>7. ASSUME NEW i \in 1..Sections, i <= Len(t)
        PROVE  t[i] # "skipped" <=> i \in Populated[q.bundle]
    <2>1. CASE i = Len(q.stages) + 1
      <3>1. HasEvidence(r) <=> i \in Populated[q.bundle]
        BY <2>1, ReviewAssumption DEF HasEvidence, ReviewAssumption
      <3>2. outcome # "skipped" <=> HasEvidence(r)
        BY <1>1
      <3> QED BY <2>1, <3>1, <3>2, <1>4
    <2>2. CASE i # Len(q.stages) + 1
      <3>1. i \in 1..Len(q.stages)
        BY <2>2, <1>4, <1>7, ReviewAssumption DEF ReviewAssumption
      <3> QED BY <3>1, <1>2, <1>4, ReviewAssumption DEF Truth, ReviewAssumption
    <2> QED BY <2>1, <2>2
  <1>8. /\ active' \subseteq Generations /\ writer' = writer /\ writer \in Requests \cup {None}
        /\ UNCHANGED <<materials, versions, unwanted>>
    BY DEF RunStage, ReviewInv, TypeOK
  <1> HIDE DEF p, t
  <1>9. Truth(r, p, writer, versions)
    BY <1>2, <1>5, <1>7 DEF Truth
  <1> QED BY <1>5, <1>6, <1>8, <1>9, RequestMoves

LEMMA AbandonKeeps ==
  ASSUME ReviewInv, NEW r \in Requests, Abandon(r)
  PROVE  ReviewInv'
  BY FinishKeeps DEF Abandon, At

LEMMA EndStagesKeeps ==
  ASSUME ReviewInv, NEW r \in Requests, EndStages(r)
  PROVE  ReviewInv'
  <1>1. /\ request[r] \in Record /\ Truth(r, request[r], writer, versions)
        /\ request[r].pc = "run" /\ writer \in Requests \cup {None} /\ active \subseteq Generations
    BY OwnTruth DEF EndStages, At, ReviewInv, TypeOK
  <1>2. Truth(r, [request[r] EXCEPT !.pc = "append"], writer, versions)
    BY <1>1 DEF Truth, Record, EndStages
  <1> QED BY <1>1, <1>2, GotoKeeps DEF EndStages, Positions

LEMMA CheckAppendKeeps ==
  ASSUME ReviewInv, NEW r \in Requests, CheckAppend(r)
  PROVE  ReviewInv'
  <1>1. /\ request[r] \in Record /\ Truth(r, request[r], writer, versions)
        /\ request[r].pc = "append" /\ writer \in Requests \cup {None} /\ active \subseteq Generations
    BY OwnTruth DEF CheckAppend, At, ReviewInv, TypeOK
  <1>2. CASE request[r].cancelled
    BY <1>1, <1>2, FinishKeeps DEF CheckAppend
  <1>3. CASE ~request[r].cancelled
    <2>1. Truth(r, [request[r] EXCEPT !.pc = "begin"], writer, versions)
      BY <1>1 DEF Truth, Record
    <2> QED BY <1>1, <1>3, <2>1, GotoKeeps DEF CheckAppend, Positions
  <1> QED BY <1>2, <1>3

LEMMA BeginImmediateKeeps ==
  ASSUME ReviewInv, NEW r \in Requests, BeginImmediate(r)
  PROVE  ReviewInv'
  <1>1. /\ request[r] \in Record /\ Truth(r, request[r], writer, versions)
        /\ request[r].pc = "begin" /\ active \subseteq Generations
        /\ writer = None /\ writer' = r /\ None \notin Requests
    BY OwnTruth, ReviewAssumption DEF BeginImmediate, At, ReviewInv, TypeOK, ReviewAssumption
  <1>2. Truth(r, [request[r] EXCEPT !.pc = "insert"], r, versions)
    BY <1>1 DEF Truth, Record
  <1> QED BY <1>1, <1>2, GotoKeeps DEF BeginImmediate, Positions

LEMMA TimeOutOnLockKeeps ==
  ASSUME ReviewInv, NEW r \in Requests, TimeOutOnLock(r)
  PROVE  ReviewInv'
  BY FinishKeeps DEF TimeOutOnLock, At

LEMMA FindVersionKeeps ==
  ASSUME ReviewInv, NEW r \in Requests, FindVersion(r)
  PROVE  ReviewInv'
  <1>1. /\ request[r] \in Record /\ Truth(r, request[r], writer, versions)
        /\ request[r].pc = "insert" /\ active \subseteq Generations
        /\ writer = r /\ writer' = None /\ None \notin Requests
    BY OwnTruth, ReviewAssumption DEF FindVersion, At, ReviewInv, TypeOK, ReviewAssumption, Truth
  <1>2. CASE versions[Gen(r)].bundle = request[r].bundle
    <2>1. Truth(r, [request[r] EXCEPT !.pc = "answer"], None, versions)
      BY <1>1, <1>2 DEF Truth, Record, FindVersion, Gen
    <2> QED BY <1>1, <1>2, <2>1, GotoKeeps DEF FindVersion, Positions
  <1>3. CASE versions[Gen(r)].bundle # request[r].bundle
    BY <1>1, <1>3, FinishKeeps DEF FindVersion
  <1> QED BY <1>2, <1>3

\* The second look at the cancellation: what reaches the commit was not cancelled before it.
LEMMA InsertKeeps ==
  ASSUME ReviewInv, NEW r \in Requests, Insert(r)
  PROVE  ReviewInv'
  <1>1. /\ request[r] \in Record /\ Truth(r, request[r], writer, versions)
        /\ request[r].pc = "insert" /\ active \subseteq Generations /\ writer \in Requests \cup {None}
    BY OwnTruth DEF Insert, At, ReviewInv, TypeOK
  <1>2. CASE request[r].cancelled
    BY <1>1, <1>2, FinishKeeps DEF Insert
  <1>3. CASE ~request[r].cancelled
    <2>1. Truth(r, [request[r] EXCEPT !.pc = "commit"], writer, versions)
      BY <1>1, <1>3 DEF Truth, Record, Insert, Gen
    <2> QED BY <1>1, <1>3, <2>1, GotoKeeps DEF Insert, Positions
  <1> QED BY <1>2, <1>3

\* What a run stores is a complete version.
LEMMA WhatIsStored ==
  ASSUME ReviewInv, NEW r \in Requests, request[r].pc = "commit"
  PROVE  [bundle |-> request[r].bundle, stages |-> request[r].stages] \in Complete
  <1>1. request[r] \in Record /\ Truth(r, request[r], writer, versions)
    BY OwnTruth
  <1> DEFINE b == request[r].bundle
             t == request[r].stages
  <1>2. /\ b \in Bundles /\ Len(t) = Sections + 1 /\ t \in Seq(Outcomes)
        /\ Populated[b] # {}
        /\ \A i \in 1..Sections : i <= Len(t) => (t[i] # "skipped" <=> i \in Populated[b])
    BY <1>1 DEF Truth, Record, Stages
  <1>3. t \in [1..(Sections + 1) -> Outcomes]
    BY <1>2
  <1>4. PICK i \in Populated[b] : TRUE
    BY <1>2
  <1>5. i \in 1..Sections
    BY <1>2, <1>4, ReviewAssumption DEF ReviewAssumption
  <1>6. t[i] # "skipped"
    BY <1>2, <1>4, <1>5, ReviewAssumption DEF ReviewAssumption
  <1> QED BY <1>2, <1>3, <1>5, <1>6 DEF Complete

LEMMA CommitAppends ==
  ASSUME ReviewInv, NEW r \in Requests, Commit(r)
  PROVE  /\ Gen(r) \in Generations /\ versions[Gen(r)] = None
         /\ [bundle |-> request[r].bundle, stages |-> request[r].stages] \in Complete
         /\ versions' = [versions EXCEPT ![Gen(r)] =
                           [bundle |-> request[r].bundle, stages |-> request[r].stages]]
  BY WhatIsStored, OwnTruth DEF Commit, At, Truth, Gen

LEMMA CommitKeeps ==
  ASSUME ReviewInv, NEW r \in Requests, Commit(r)
  PROVE  ReviewInv'
  <1> DEFINE q == request[r]
             v == [bundle |-> q.bundle, stages |-> q.stages]
             p == [q EXCEPT !.pc = "answer"]
  <1>1. /\ q \in Record /\ Truth(r, q, writer, versions) /\ q.pc = "commit"
        /\ writer = r /\ writer' = None /\ None \notin Requests /\ ~q.early /\ q.answer # "done"
    BY OwnTruth, ReviewAssumption DEF Commit, At, Truth, ReviewAssumption
  <1>2. /\ Gen(r) = q.gen /\ q.gen \in Generations /\ versions[q.gen] = None
        /\ v \in Complete /\ v # None
        /\ versions' = [versions EXCEPT ![q.gen] = v]
    BY CommitAppends, VersionAssumption DEF Gen, VersionAssumption
  <1>3. versions \in [Generations -> Complete \cup {None}]
    BY DEF ReviewInv, TypeOK
  <1>4. versions' \in [Generations -> Complete \cup {None}] /\ versions'[q.gen] = v
    BY <1>2, <1>3
  <1>5. \A g \in Generations : g # q.gen => versions'[g] = versions[g]
    BY <1>2, <1>3
  <1>6. \A g \in Generations : versions[g] # None => versions'[g] = versions[g]
    BY <1>2, <1>5
  <1>7. /\ p \in Record /\ p.pc = "answer" /\ p.gen = q.gen /\ p.bundle = q.bundle /\ p.stages = q.stages
        /\ p.early = q.early /\ p.cancelled = q.cancelled /\ p.answer = q.answer
    BY <1>1 DEF Record, Positions
  <1>8. request' = [request EXCEPT ![r] = p]
    BY DEF Commit, Goto
  <1>9. v.bundle = q.bundle
    OBVIOUS
  <1> HIDE DEF p, v
  <1>10. Truth(r, p, None, versions')
    BY <1>1, <1>2, <1>4, <1>7, <1>9 DEF Truth
  <1>11. request \in [Requests -> Record]
    BY OwnTruth
  <1>12. request' \in [Requests -> Record]
    BY <1>7, <1>8, <1>11
  <1>13. TypeOK' /\ NoCommitAfterCancel'
    <2>1. unwanted' = {} /\ active' = active /\ materials' = materials
      BY <1>1 DEF Commit, ReviewInv, NoCommitAfterCancel
    <2> QED BY <1>1, <1>4, <1>12, <2>1 DEF ReviewInv, TypeOK, NoCommitAfterCancel, Record
  <1>14. ASSUME NEW s \in Requests PROVE Truth(s, request'[s], writer', versions')
    <2>1. CASE s = r
      BY <2>1, <1>1, <1>8, <1>10, <1>11
    <2>2. CASE s # r
      <3>1. request'[s] = request[s] /\ request[s] \in Record /\ Truth(s, request[s], writer, versions)
        BY <2>2, <1>8, <1>11, OwnTruth
      <3>2. request[s].pc # "commit"
        BY <2>2, <1>1, <3>1 DEF Truth
      <3>3. writer = s <=> writer' = s
        BY <2>2, <1>1
      <3> QED BY <3>1, <3>2, <3>3, <1>6, TruthKeeps
    <2> QED BY <2>1, <2>2
  <1>15. \A s \in Requests : RunIsTrue(s)'
    BY <1>14 DEF RunIsTrue, Truth
  <1> QED BY <1>13, <1>15 DEF ReviewInv

LEMMA ReplyKeeps ==
  ASSUME ReviewInv, NEW r \in Requests, Reply(r)
  PROVE  ReviewInv'
  BY FinishKeeps DEF Reply, At

LEMMA EndIteratorKeeps ==
  ASSUME ReviewInv, NEW r \in Requests, EndIterator(r)
  PROVE  ReviewInv'
  <1>1. /\ request[r] \in Record /\ Truth(r, request[r], writer, versions)
        /\ request[r].pc = "finally" /\ writer \in Requests \cup {None} /\ active' \subseteq Generations
    BY OwnTruth DEF EndIterator, At, ReviewInv, TypeOK, Release
  <1>2. Truth(r, [request[r] EXCEPT !.pc = "closing"], writer, versions)
    BY <1>1 DEF Truth, Record
  <1> QED BY <1>1, <1>2, GotoKeeps DEF EndIterator, Positions

LEMMA EndResponseKeeps ==
  ASSUME ReviewInv, NEW r \in Requests, EndResponse(r)
  PROVE  ReviewInv'
  <1> DEFINE p == Over(request[r])
  <1>1. /\ request[r] \in Record /\ Truth(r, request[r], writer, versions) /\ writer # r
        /\ request[r].pc = "closing" /\ writer \in Requests \cup {None} /\ active' \subseteq Generations
    BY OwnTruth DEF EndResponse, At, ReviewInv, TypeOK, Release, Truth
  <1>2. p \in Record /\ Truth(r, p, writer, versions)
    BY <1>1, OverIsTrue
  <1>3. request' = [request EXCEPT ![r] = p] /\ UNCHANGED <<materials, versions, writer, unwanted>>
    BY DEF EndResponse, Close
  <1> HIDE DEF p
  <1> QED BY <1>1, <1>2, <1>3, RequestMoves

\* A cancellation after the second look does not count as early.
LEMMA CancelKeeps ==
  ASSUME ReviewInv, NEW r \in Requests, Cancel(r)
  PROVE  ReviewInv'
  <1> DEFINE q == request[r]
             early == q.pc \in {"run", "append", "begin", "insert"}
             p == [q EXCEPT !.cancelled = TRUE, !.early = early]
  <1>1. /\ q \in Record /\ Truth(r, q, writer, versions)
        /\ q.pc \in {"run", "append", "begin", "insert", "commit", "answer"}
        /\ writer' = writer /\ writer \in Requests \cup {None} /\ active' \subseteq Generations
        /\ UNCHANGED <<materials, versions, unwanted>>
    BY OwnTruth DEF Cancel, ReviewInv, TypeOK
  <1>3. request' = [request EXCEPT ![r] = p]
    BY DEF Cancel
  <1>0. early \in BOOLEAN /\ (q.pc = "commit" => ~early)
    OBVIOUS
  <1> HIDE DEF early
  <1>2. /\ p \in Record /\ p.pc = q.pc /\ p.gen = q.gen /\ p.bundle = q.bundle /\ p.stages = q.stages
        /\ p.cancelled /\ p.answer = q.answer
        /\ q.pc = "commit" => ~p.early
    BY <1>0, <1>1 DEF Record
  <1> HIDE DEF p
  <1>4. Truth(r, p, writer, versions)
    BY <1>1, <1>2 DEF Truth
  <1> QED BY <1>1, <1>2, <1>3, <1>4, RequestMoves

LEMMA ChangeMaterialsKeeps ==
  ASSUME ReviewInv, ChangeMaterials
  PROVE  ReviewInv'
  BY DEF ChangeMaterials, ReviewInv, TypeOK, NoCommitAfterCancel, RunIsTrue

\* SQLite rolls an open transaction back: the lock is free and the table as it was.
LEMMA RestartKeeps ==
  ASSUME ReviewInv, Restart
  PROVE  ReviewInv'
  <1>1. None \notin Requests /\ writer' = None /\ active' = {}
        /\ UNCHANGED <<materials, versions, unwanted>>
    BY ReviewAssumption DEF Restart, ReviewAssumption
  <1>2. ASSUME NEW s \in Requests
        PROVE  request'[s] \in Record /\ Truth(s, request'[s], None, versions)
    <2>1. request[s] \in Record /\ Truth(s, request[s], writer, versions) /\ None # s
      BY <1>1, OwnTruth
    <2>2. CASE request[s].pc = "new"
      BY <2>1, <2>2 DEF Restart, At, Truth
    <2>3. CASE request[s].pc # "new"
      BY <2>1, <2>3, OverIsTrue DEF Restart, At
    <2> QED BY <2>2, <2>3
  <1>3. request' \in [Requests -> Record]
    <2>1. request' = [s \in Requests |-> request'[s]]
      BY DEF Restart
    <2> QED BY <1>2, <2>1
  <1>4. TypeOK' /\ NoCommitAfterCancel'
    BY <1>1, <1>3 DEF ReviewInv, TypeOK, NoCommitAfterCancel, Record
  <1>5. \A s \in Requests : RunIsTrue(s)'
    BY <1>1, <1>2 DEF RunIsTrue, Truth
  <1> QED BY <1>4, <1>5 DEF ReviewInv

LEMMA ReviewInit == Init => ReviewInv
  <1> SUFFICES ASSUME Init PROVE ReviewInv
    OBVIOUS
  <1>1. NewRequest \in Record
    BY EmptyStages DEF NewRequest, Record, Positions
  <1>2. TypeOK /\ NoCommitAfterCancel
    BY <1>1, ReviewAssumption DEF Init, TypeOK, NoCommitAfterCancel, Record, ReviewAssumption
  <1>3. ASSUME NEW r \in Requests PROVE RunIsTrue(r)
    BY ReviewAssumption DEF Init, RunIsTrue, NewRequest, ReviewAssumption
  <1> QED BY <1>2, <1>3 DEF ReviewInv

LEMMA ReviewNext == ReviewInv /\ [Next]_vars => ReviewInv'
  <1> SUFFICES ASSUME ReviewInv, [Next]_vars PROVE ReviewInv'
    OBVIOUS
  <1>1. ASSUME NEW r \in Requests, Accept(r) PROVE ReviewInv'
    BY <1>1, AcceptKeeps
  <1>2. ASSUME NEW r \in Requests, Cancel(r) PROVE ReviewInv'
    BY <1>2, CancelKeeps
  <1>3. ASSUME NEW r \in Requests, Serve(r) PROVE ReviewInv'
    BY <1>3, LookUpKeeps, FindBusyKeeps, BuildKeeps, RunStageKeeps, AbandonKeeps, EndStagesKeeps,
       CheckAppendKeeps, BeginImmediateKeeps, TimeOutOnLockKeeps, FindVersionKeeps, InsertKeeps,
       CommitKeeps, ReplyKeeps, EndIteratorKeeps, EndResponseKeeps DEF Serve
  <1>4. CASE UNCHANGED vars
    BY <1>4 DEF vars, ReviewInv, TypeOK, NoCommitAfterCancel, RunIsTrue
  <1> QED BY <1>1, <1>2, <1>3, <1>4, ChangeMaterialsKeeps, RestartKeeps DEF Next

\* The inductive invariant holds in every reachable state.
THEOREM ReviewInvariant == Spec => []ReviewInv
  BY ReviewInit, ReviewNext, PTL DEF Spec

\* Every variable keeps its type; a run never has more stages than its plan and a summary.
THEOREM TypeCorrect == Spec => []TypeOK
  <1>1. ReviewInv => TypeOK
    BY DEF ReviewInv
  <1> QED BY <1>1, ReviewInvariant, PTL

\* A run cancelled before append_version's second look at the cancellation stores nothing
\* (shortline_review_store.py:164).
THEOREM CancelledRunsStoreNothing == Spec => []NoCommitAfterCancel
  <1>1. ReviewInv => NoCommitAfterCancel
    BY DEF ReviewInv
  <1> QED BY <1>1, ReviewInvariant, PTL

\* Whoever is told done finds, under its generation, a version of the materials it previewed.
THEOREM AnswersAreTrue == Spec => []AnswersNameTheirVersion
  <1>1. ReviewInv => AnswersNameTheirVersion
    BY DEF ReviewInv, RunIsTrue, AnswersNameTheirVersion, Gen
  <1> QED BY <1>1, ReviewInvariant, PTL

LEMMA StepImplementsArchive == ReviewInv /\ [Next]_vars => [Archive!Next]_versions
  <1> SUFFICES ASSUME ReviewInv, [Next]_vars, ~UNCHANGED versions PROVE Archive!Next
    OBVIOUS
  <1>1. PICK r \in Requests : Commit(r)
    BY DEF Next, vars, Accept, Cancel, ChangeMaterials, Restart, Serve, LookUp, FindBusy, Build,
       RunStage, Abandon, EndStages, CheckAppend, BeginImmediate, TimeOutOnLock, FindVersion,
       Insert, Reply, EndIterator, EndResponse
  <1> QED BY <1>1, CommitAppends DEF Archive!Next, Archive!Append

\* The table is append-only: a generation gets at most one version, complete when it appears,
\* whatever requests overlap, fail, are cancelled or are killed (append_version).
THEOREM RequestsImplementArchive == Spec => ImplementsArchive
  <1>1. Init => Archive!Init
    BY DEF Init, Archive!Init
  <1> QED BY <1>1, StepImplementsArchive, ReviewInvariant, PTL DEF Spec, ImplementsArchive, Archive!Spec

================================================================================
