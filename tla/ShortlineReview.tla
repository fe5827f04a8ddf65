---------------------------- MODULE ShortlineReview ----------------------------
(***************************************************************************)
(* Segmented market reviews (shortline_review_service.py, the endpoint in   *)
(* app.py, shortline_review_store.py).  A request names a generation and    *)
(* the bundle of materials its user previewed.  It is registered in         *)
(* _ACTIVE, runs one model call per section and one for the summary, and    *)
(* appends one version in one transaction.  A client that lost its answer   *)
(* sends the same generation again.                                         *)
(*                                                                          *)
(* A request gives its registration back twice: in the finally block of its *)
(* body iterator and again when its response is over, because either may be *)
(* skipped.  The two are steps of their own: the last body part is sent     *)
(* between them.                                                            *)
(***************************************************************************)
EXTENDS Integers, FiniteSets, Sequences

CONSTANTS Requests,     \* calls of POST /api/shortline-review/generate
          Generations,  \* generation ids clients send
          Bundles,      \* identities the materials may have
          Populated,    \* the sections of a bundle that hold evidence
          Sections,     \* the sections of the plan: 5 daily, 3 weekly
          MaxActive,    \* MAX_ACTIVE: 2 in the code
          None

ASSUME ReviewAssumption ==
  /\ Sections \in Nat \ {0}
  /\ MaxActive \in Nat \ {0}
  /\ Populated \in [Bundles -> SUBSET (1..Sections)]
  /\ None \notin Requests \cup Generations \cup Bundles

VARIABLES active,     \* _ACTIVE
          materials,  \* the bundle build_bundle would freeze now
          versions,   \* the table shortline_review_versions
          writer,     \* the request whose transaction holds the write lock
          request,    \* each request's position and locals
          unwanted    \* history: generations stored by a run that was cancelled before its last check

vars == <<active, materials, versions, writer, request, unwanted>>

Outcomes == {"generated", "requires_review", "skipped"}
Positions == {"new", "lookup", "build", "run", "append", "begin", "insert", "commit",
              "answer", "finally", "closing", "over"}

NewRequest == [pc |-> "new", gen |-> None, bundle |-> None, stages |-> <<>>,
               cancelled |-> FALSE, early |-> FALSE, answer |-> "none"]

Init ==
  /\ active = {}
  /\ materials \in Bundles
  /\ versions = [g \in Generations |-> None]
  /\ writer = None
  /\ request = [r \in Requests |-> NewRequest]
  /\ unwanted = {}

At(r, pc) == request[r].pc = pc
Goto(r, pc) == request' = [request EXCEPT ![r].pc = pc]
Gen(r) == request[r].gen

\* The locals of a request end with it; what its client was told remains.
Over(q) == [NewRequest EXCEPT !.pc = "over", !.answer = q.answer,
                              !.gen = IF q.answer = "done" THEN q.gen ELSE None,
                              !.bundle = IF q.answer = "done" THEN q.bundle ELSE None]
Close(r) == request' = [request EXCEPT ![r] = Over(request[r])]

\* The generator returns or raises; the iterator's finally block sets the cancel event.
Finish(r, answer) ==
  request' = [request EXCEPT ![r] =
    [request[r] EXCEPT !.pc = "finally", !.answer = answer, !.stages = <<>>,
                       !.cancelled = TRUE, !.early = FALSE]]

(***************************************************************************)
(* acquire and prepare.                                                     *)
(***************************************************************************)
Accept(r) ==
  /\ At(r, "new")
  /\ Cardinality(active) < MaxActive
  /\ \E g \in Generations \ active, b \in Bundles :
       /\ active' = active \cup {g}
       /\ request' = [request EXCEPT ![r] =
            [request[r] EXCEPT !.pc = "lookup", !.gen = g, !.bundle = b]]
  /\ UNCHANGED <<materials, versions, writer, unwanted>>

\* prepare raised: the claim is given back and the client told to look again.
GiveUpKeeping(r) ==             \* Mutant: the claim is forgotten.
  Close(r) /\ UNCHANGED active
GiveUp(r) == Close(r) /\ active' = active \ {Gen(r)}

\* get_version reads the file; it refuses to while a transaction may be half written.
LookUpAnyBundle(r) ==           \* Mutant: the stored bundle is not compared.
  /\ At(r, "lookup")
  /\ IF versions[Gen(r)] = None THEN Goto(r, "build") ELSE Goto(r, "answer")
  /\ UNCHANGED <<active, materials, versions, writer, unwanted>>
LookUp(r) ==
  /\ At(r, "lookup")
  /\ IF versions[Gen(r)] = None THEN Goto(r, "build") /\ UNCHANGED active
     ELSE IF versions[Gen(r)].bundle = request[r].bundle THEN Goto(r, "answer") /\ UNCHANGED active
     ELSE GiveUp(r)
  /\ UNCHANGED <<materials, versions, writer, unwanted>>

FindBusy(r) ==
  /\ At(r, "lookup") /\ writer # None
  /\ GiveUp(r)
  /\ UNCHANGED <<materials, versions, writer, unwanted>>

\* The materials must still be those of the preview, and hold some evidence.
Build(r) ==
  /\ At(r, "build")
  /\ IF materials = request[r].bundle /\ Populated[materials] # {}
     THEN Goto(r, "run") /\ UNCHANGED active
     ELSE GiveUp(r)
  /\ UNCHANGED <<materials, versions, writer, unwanted>>

(***************************************************************************)
(* generate: the sections in order, then a summary of those that were       *)
(* generated without a detected problem.                                    *)
(***************************************************************************)
HasEvidence(r) ==
  LET done == request[r].stages
      next == Len(done) + 1 IN
  IF next <= Sections THEN next \in Populated[request[r].bundle]
  ELSE \E i \in 1..Sections : done[i] = "generated"

RunStage(r) ==
  /\ At(r, "run") /\ ~request[r].cancelled
  /\ Len(request[r].stages) <= Sections
  /\ \E outcome \in IF HasEvidence(r) THEN {"generated", "requires_review"} ELSE {"skipped"} :
       request' = [request EXCEPT ![r].stages = Append(request[r].stages, outcome)]
  /\ UNCHANGED <<active, materials, versions, writer, unwanted>>

\* Cancelled, out of time, or a stream that did not end properly: nothing is saved.
Abandon(r) ==
  /\ At(r, "run")
  /\ Finish(r, "none")
  /\ UNCHANGED <<active, materials, versions, writer, unwanted>>

EndStages(r) ==
  /\ At(r, "run") /\ ~request[r].cancelled
  /\ Len(request[r].stages) = Sections + 1
  /\ Goto(r, "append")
  /\ UNCHANGED <<active, materials, versions, writer, unwanted>>

(***************************************************************************)
(* append_version: one transaction under the write lock of the file.        *)
(***************************************************************************)
CheckAppend(r) ==
  /\ At(r, "append")
  /\ IF request[r].cancelled THEN Finish(r, "none") ELSE Goto(r, "begin")
  /\ UNCHANGED <<active, materials, versions, writer, unwanted>>

BeginImmediate(r) ==
  /\ At(r, "begin") /\ writer = None
  /\ writer' = r
  /\ Goto(r, "insert")
  /\ UNCHANGED <<active, materials, versions, unwanted>>

TimeOutOnLock(r) ==
  /\ At(r, "begin") /\ writer # None
  /\ Finish(r, "none")
  /\ UNCHANGED <<active, materials, versions, writer, unwanted>>

\* The generation is stored: its bundle must be this one, and it is the answer.
FindVersion(r) ==
  /\ At(r, "insert") /\ versions[Gen(r)] # None
  /\ IF versions[Gen(r)].bundle = request[r].bundle THEN Goto(r, "answer") ELSE Finish(r, "none")
  /\ writer' = None
  /\ UNCHANGED <<active, materials, versions, unwanted>>

\* should_cancel() once more, between the insert and the commit.
InsertUnchecked(r) ==           \* Mutant: the second look at the cancellation is missing.
  /\ At(r, "insert") /\ versions[Gen(r)] = None
  /\ Goto(r, "commit")
  /\ UNCHANGED <<active, materials, versions, writer, unwanted>>
InsertBlindly(r) ==             \* Mutant: an existing row is replaced.
  /\ At(r, "insert")
  /\ IF request[r].cancelled THEN Finish(r, "none") /\ writer' = None
     ELSE Goto(r, "commit") /\ UNCHANGED writer
  /\ UNCHANGED <<active, materials, versions, unwanted>>
Insert(r) ==
  /\ At(r, "insert") /\ versions[Gen(r)] = None
  /\ IF request[r].cancelled THEN Finish(r, "none") /\ writer' = None
     ELSE Goto(r, "commit") /\ UNCHANGED writer
  /\ UNCHANGED <<active, materials, versions, unwanted>>

Commit(r) ==
  /\ At(r, "commit")
  /\ versions' = [versions EXCEPT ![Gen(r)] =
                    [bundle |-> request[r].bundle, stages |-> request[r].stages]]
  /\ unwanted' = IF request[r].early THEN unwanted \cup {Gen(r)} ELSE unwanted
  /\ writer' = None
  /\ Goto(r, "answer")
  /\ UNCHANGED <<active, materials>>

\* The events of a run are dropped once it is cancelled, its done with them. A version that
\* was stored before the run (no stage was run) is answered without a look at the cancellation;
\* that answer is lost only if the response has ended already.
Reply(r) ==
  /\ At(r, "answer")
  /\ \/ /\ request[r].cancelled => request[r].stages = <<>>
        /\ Finish(r, "done")
     \/ request[r].cancelled /\ Finish(r, "none")
  /\ UNCHANGED <<active, materials, versions, writer, unwanted>>

(***************************************************************************)
(* The end of a request: the iterator's finally block, the last body part,  *)
(* and the response's finally block.                                        *)
(***************************************************************************)
Release(r) == active' = active \ {Gen(r)}

EndIterator(r) ==
  /\ At(r, "finally")
  /\ Release(r)
  /\ Goto(r, "closing")
  /\ UNCHANGED <<materials, versions, writer, unwanted>>

EndResponse(r) ==
  /\ At(r, "closing")
  /\ Release(r)
  /\ Close(r)
  /\ UNCHANGED <<materials, versions, writer, unwanted>>

(***************************************************************************)
(* The client disconnects or the timer of a section fires; the archives     *)
(* change; the process dies, and SQLite rolls its transaction back.         *)
(***************************************************************************)
Cancel(r) ==
  /\ request[r].pc \in {"run", "append", "begin", "insert", "commit", "answer"}
  /\ ~request[r].cancelled
  /\ request' = [request EXCEPT ![r] =
       [request[r] EXCEPT !.cancelled = TRUE,
                          !.early = request[r].pc \in {"run", "append", "begin", "insert"}]]
  /\ UNCHANGED <<active, materials, versions, writer, unwanted>>

ChangeMaterials ==
  /\ materials' \in Bundles \ {materials}
  /\ UNCHANGED <<active, versions, writer, request, unwanted>>

Restart ==
  /\ active' = {}
  /\ writer' = None
  /\ request' = [r \in Requests |-> IF At(r, "new") THEN request[r] ELSE Over(request[r])]
  /\ UNCHANGED <<materials, versions, unwanted>>

Serve(r) == \/ LookUp(r) \/ FindBusy(r) \/ Build(r)
            \/ RunStage(r) \/ Abandon(r) \/ EndStages(r)
            \/ CheckAppend(r) \/ BeginImmediate(r) \/ TimeOutOnLock(r)
            \/ FindVersion(r) \/ Insert(r) \/ Commit(r) \/ Reply(r)
            \/ EndIterator(r) \/ EndResponse(r)

Next == \/ \E r \in Requests : Accept(r) \/ Serve(r) \/ Cancel(r)
        \/ ChangeMaterials
        \/ Restart

Spec == Init /\ [][Next]_vars

\* An accepted request runs on: every model call and every wait for the lock is bounded.
FairSpec == Spec /\ \A r \in Requests : WF_vars(Serve(r))

(***************************************************************************)
(* Properties.                                                              *)
(***************************************************************************)
Stages == {s \in Seq(Outcomes) : Len(s) <= Sections + 1}

\* A version ready to be stored: every stage of the plan ended, one was generated from evidence.
Complete == [bundle : Bundles,
             stages : {s \in [1..(Sections + 1) -> Outcomes] : \E i \in 1..Sections : s[i] # "skipped"}]

ASSUME VersionAssumption == None \notin Complete

\* Every variable is of its type; no run has more stages than its plan and a summary.
TypeOK ==
  /\ active \subseteq Generations
  /\ materials \in Bundles
  /\ versions \in [Generations -> Complete \cup {None}]
  /\ writer \in Requests \cup {None}
  /\ unwanted \subseteq Generations
  /\ request \in [Requests -> [pc : Positions, gen : Generations \cup {None},
                               bundle : Bundles \cup {None}, stages : Stages,
                               cancelled : BOOLEAN, early : BOOLEAN, answer : {"none", "done"}]]

\* append_version rechecks the cancellation immediately before the commit
\* (shortline_review_store.py:164): a run cancelled before that stores nothing.
NoCommitAfterCancel == unwanted = {}

\* A client that is told done finds under its generation a version of the materials it
\* previewed, also when another request stored it.
AnswersNameTheirVersion ==
  \A r \in Requests : request[r].answer = "done" =>
    /\ versions[Gen(r)] # None
    /\ versions[Gen(r)].bundle = request[r].bundle

\* The requests implement the append-only table of complete versions, although two runs of a
\* generation may overlap.
Archive == INSTANCE VersionArchive
ImplementsArchive == Archive!Spec

\* A generation does not stay registered: every way out of a request gives the claim back
\* (test_task_cancel_during_prepare_releases_capacity).
CapacityComesBack == \A g \in Generations : g \in active ~> g \notin active

\* docs/verification/2026-10-12-segmented-review.md:32: "Simultaneous runs are bounded to two."
RunsAreBounded ==
  Cardinality({r \in Requests : request[r].pc \notin {"new", "closing", "over"}}) <= MaxActive

(***************************************************************************)
(* The inductive invariant.                                                 *)
(***************************************************************************)
\* What a request has found stays true until it has answered: its locals belong to its bundle,
\* the write lock is its own from its look at the table to its commit, and the version it
\* answers with is the one its client asked for.
RunIsTrue(r) ==
  LET q == request[r] IN
  /\ q.pc \notin {"new", "over"} => q.gen \in Generations /\ q.bundle \in Bundles
  /\ q.pc \in {"new", "lookup", "build"} => q.stages = <<>> /\ ~q.early
  /\ q.pc \in {"run", "append", "begin", "insert", "commit"} =>
       /\ Populated[q.bundle] # {}
       /\ \A i \in 1..Sections : i <= Len(q.stages) =>
            (q.stages[i] # "skipped" <=> i \in Populated[q.bundle])
  /\ q.pc \in {"append", "begin", "insert", "commit"} => Len(q.stages) = Sections + 1
  /\ q.early => q.cancelled
  /\ writer = r <=> q.pc \in {"insert", "commit"}
  /\ q.pc = "commit" => ~q.early /\ versions[q.gen] = None
  /\ q.answer = "done" => q.pc \in {"finally", "closing", "over"}
  /\ q.pc = "answer" \/ q.answer = "done" =>
       /\ q.gen \in Generations
       /\ versions[q.gen] # None /\ versions[q.gen].bundle = q.bundle

ReviewInv == TypeOK /\ NoCommitAfterCancel /\ \A r \in Requests : RunIsTrue(r)
===============================================================================
