------------------------------ MODULE ThesisLedger ------------------------------
(***************************************************************************)
(* The Evidence and Thesis ledger.  A Thesis is a row that is edited, a    *)
(* set of links to Evidence rows that are edited too, and an append-only   *)
(* list of revisions, each a snapshot of both.  Every operation is one     *)
(* BEGIN IMMEDIATE transaction; what is not atomic is a client, which      *)
(* reads, thinks, and sends back the revision it has read.                 *)
(***************************************************************************)
EXTENDS Naturals, Sequences, FiniteSets

CONSTANTS
  Clients, Theses, Evidence,
  Matches,        \* <<t, e>>: Thesis and Evidence are about one subject
  Stances,
  MaxRevisions,   \* bound: revisions of a Thesis
  MaxVersions,    \* bound: versions of an Evidence row
  MaxDeltas,      \* bound: deltas of a Thesis
  None

ASSUME MatchesAssumption == Matches \subseteq Theses \X Evidence
ASSUME NoneAssumption == None \notin Stances \union Theses
ASSUME BoundsAssumption == {MaxRevisions, MaxVersions, MaxDeltas} \subseteq Nat \ {0}

VARIABLES
  thesis,      \* investment_theses: formal_state, status, content, current_revision
  links,       \* thesis_evidence_links: the stance of each linked Evidence
  evidence,    \* evidence_records: version of the content, deleted
  revisions,   \* thesis_revisions of each Thesis
  deltas,      \* thesis_deltas of each Thesis
  view,        \* the aggregate each client has read last
  reviewed     \* history: what was read by who confirmed the Thesis

vars == <<thesis, links, evidence, revisions, deltas, view, reviewed>>

Absent == [formal |-> "absent", archived |-> FALSE, content |-> {}, ready |-> FALSE,
           revision |-> 0, frozen |-> 0]
NothingRead == [thesis |-> None, revision |-> 0, content |-> {}, evidence |-> {}]

Init ==
  /\ thesis = [t \in Theses |-> Absent]
  /\ links = [t \in Theses |-> [e \in Evidence |-> None]]
  /\ evidence = [e \in Evidence |-> [version |-> 0, deleted |-> FALSE]]
  /\ revisions = [t \in Theses |-> <<>>]
  /\ deltas = [t \in Theses |-> <<>>]
  /\ view = [c \in Clients |-> NothingRead]
  /\ reviewed = [t \in Theses |-> {}]

--------------------------------------------------------------------------------
(***************************************************************************)
(* Snapshots and reads.  The content of a Thesis is the set of the edits   *)
(* merged in it, each named by the revision it made.                       *)
(***************************************************************************)
Usable(e) == evidence[e].version # 0 /\ ~evidence[e].deleted

\* The Evidence of a Thesis given its links and the Evidence rows.
Linked(lk, ev) ==
  {<<e, ev[e].version, lk[e]>> : e \in {x \in Evidence : lk[x] # None /\ ~ev[x].deleted}}

Snapshot(kind, content, items) == [kind |-> kind, content |-> content, evidence |-> items]

Current(t) == revisions[t][thesis[t].revision]

Live(t) == Snapshot("CONTENT", thesis[t].content, Linked(links[t], evidence))

Exists(t) == thesis[t].formal # "absent"

\* Content that can be edited.
Open(t) == thesis[t].formal \in {"legacy", "draft"} /\ ~thesis[t].archived

Formal(t, state) == thesis[t].formal = state

\* An archived or frozen Thesis is read from its snapshot, another is
\* assembled from the tables.
Aggregate(t) == IF thesis[t].archived \/ Formal(t, "frozen") THEN Current(t) ELSE Live(t)

ReadThesis(c, t) ==
  /\ Exists(t)
  /\ view' = [view EXCEPT ![c] = [thesis |-> t, revision |-> thesis[t].revision,
                                  content |-> Aggregate(t).content,
                                  evidence |-> Aggregate(t).evidence]]
  /\ UNCHANGED <<thesis, links, evidence, revisions, deltas, reviewed>>

--------------------------------------------------------------------------------
(***************************************************************************)
(* Editing a Thesis.  An edit is refused unless it names the current       *)
(* revision.                                                               *)
(***************************************************************************)
\* Mutant: the revision the client sends back is not compared.
ExpectsAny(c, t) == view[c].thesis = t

Expects(c, t) == view[c].thesis = t /\ view[c].revision = thesis[t].revision

Room(t) == thesis[t].revision < MaxRevisions

Created == [formal |-> "legacy", archived |-> FALSE, content |-> {1}, ready |-> FALSE,
            revision |-> 1, frozen |-> 0]

CreateThesis(t) ==
  /\ ~Exists(t)
  /\ thesis' = [thesis EXCEPT ![t] = Created]
  /\ revisions' = [revisions EXCEPT ![t] = <<Snapshot("CONTENT", {1}, {})>>]
  /\ UNCHANGED <<links, evidence, deltas, view, reviewed>>

\* Row and links change, and the next revision is their snapshot.
Revise(t, row, lk) ==
  LET n == thesis[t].revision + 1 IN
  /\ thesis' = [thesis EXCEPT ![t] = [row EXCEPT !.revision = n]]
  /\ links' = [links EXCEPT ![t] = lk]
  /\ revisions' = [revisions EXCEPT ![t] =
                     Append(@, Snapshot("CONTENT", row.content, Linked(lk, evidence)))]

\* The client's whole content replaces the row's. Strategy, horizon and the
\* other things confirmation asks for can only be given to a draft.
UpdateThesis(c, t) ==
  /\ Expects(c, t) /\ Open(t) /\ Room(t)
  /\ \E ready \in IF Formal(t, "draft") THEN BOOLEAN ELSE {FALSE} :
       Revise(t, [thesis[t] EXCEPT !.content = view[c].content \union {thesis[t].revision + 1},
                                   !.ready = ready],
              links[t])
  /\ UNCHANGED <<evidence, deltas, view, reviewed>>

LinkEvidence(c, t, e, stance) ==
  /\ Expects(c, t) /\ Open(t) /\ Room(t)
  /\ Usable(e) /\ <<t, e>> \in Matches /\ links[t][e] = None
  /\ Revise(t, thesis[t], [links[t] EXCEPT ![e] = stance])
  /\ UNCHANGED <<evidence, deltas, view, reviewed>>

\* A stance is changed, or the link is taken away (None).
ChangeLink(c, t, e, stance) ==
  /\ Expects(c, t) /\ Open(t) /\ Room(t)
  /\ links[t][e] # None
  /\ Revise(t, thesis[t], [links[t] EXCEPT ![e] = stance])
  /\ UNCHANGED <<evidence, deltas, view, reviewed>>

ArchiveThesis(c, t) ==
  /\ Expects(c, t) /\ Formal(t, "legacy") /\ ~thesis[t].archived /\ Room(t)
  /\ Revise(t, [thesis[t] EXCEPT !.archived = TRUE], links[t])
  /\ UNCHANGED <<evidence, deltas, view, reviewed>>

--------------------------------------------------------------------------------
(***************************************************************************)
(* Editing Evidence.  The edit token names the version that was read, so   *)
(* an accepted edit is always one of the present version.                  *)
(***************************************************************************)
CreateEvidence(e) ==
  /\ evidence[e].version = 0
  /\ evidence' = [evidence EXCEPT ![e].version = 1]
  /\ UNCHANGED <<thesis, links, revisions, deltas, view, reviewed>>

\* Mutant: a draft is taken for locked.
FollowsLegacy(t, e) == links[t][e] # None /\ Formal(t, "legacy") /\ ~thesis[t].archived

\* Mutant: only archived Theses are exempt.
FollowsConfirmed(t, e) == links[t][e] # None /\ ~thesis[t].archived /\ Exists(t)

\* The Theses that get a revision when their Evidence changes.
Follows(t, e) == links[t][e] # None /\ Open(t)

ChangeEvidence(e, row) ==
  LET ev == [evidence EXCEPT ![e] = row] IN
  /\ \A t \in Theses : Follows(t, e) => Room(t)
  /\ evidence' = ev
  /\ thesis' = [t \in Theses |->
       IF Follows(t, e) THEN [thesis[t] EXCEPT !.revision = thesis[t].revision + 1]
                        ELSE thesis[t]]
  /\ revisions' = [t \in Theses |->
       IF Follows(t, e)
         THEN Append(revisions[t], Snapshot("CONTENT", thesis[t].content, Linked(links[t], ev)))
         ELSE revisions[t]]
  /\ UNCHANGED <<links, deltas, view, reviewed>>

UpdateEvidence(e) ==
  /\ Usable(e) /\ evidence[e].version < MaxVersions
  /\ ChangeEvidence(e, [version |-> evidence[e].version + 1, deleted |-> FALSE])

SoftDeleteEvidence(e) ==
  /\ Usable(e)
  /\ ChangeEvidence(e, [evidence[e] EXCEPT !.deleted = TRUE])

--------------------------------------------------------------------------------
(***************************************************************************)
(* The formal lifecycle: legacy, draft, confirmed, frozen, archived.       *)
(* Beginning and confirming make no revision.                              *)
(***************************************************************************)
BeginFormalization(t) ==
  /\ Formal(t, "legacy") /\ ~thesis[t].archived
  /\ thesis' = [thesis EXCEPT ![t].formal = "draft"]
  /\ UNCHANGED <<links, evidence, revisions, deltas, view, reviewed>>

ConfirmFormalization(c, t) ==
  /\ Formal(t, "draft") /\ Expects(c, t) /\ thesis[t].ready
  /\ thesis' = [thesis EXCEPT ![t].formal = "confirmed"]
  /\ reviewed' = [reviewed EXCEPT ![t] = {<<view[c].content, view[c].evidence>>}]
  /\ UNCHANGED <<links, evidence, revisions, deltas, view>>

\* The frozen snapshot is the stored revision, not the present tables.
FreezeFormalization(c, t) ==
  /\ Formal(t, "confirmed") /\ Expects(c, t) /\ Room(t)
  /\ Current(t).content = thesis[t].content
  /\ thesis' = [thesis EXCEPT ![t].formal = "frozen",
                              ![t].revision = thesis[t].revision + 1,
                              ![t].frozen = thesis[t].revision + 1]
  /\ revisions' = [revisions EXCEPT ![t] = Append(@, [Current(t) EXCEPT !.kind = "FORMAL_FREEZE"])]
  /\ UNCHANGED <<links, evidence, deltas, view, reviewed>>

\* Mutant: the archived snapshot is assembled from the tables.
ArchivedSnapshotLive(t) == [Live(t) EXCEPT !.kind = "FORMAL_ARCHIVE"]

ArchivedSnapshot(t) == [revisions[t][thesis[t].frozen] EXCEPT !.kind = "FORMAL_ARCHIVE"]

ArchiveFormalization(c, t) ==
  /\ Formal(t, "frozen") /\ ~thesis[t].archived /\ Room(t)
  /\ Expects(c, t) /\ thesis[t].revision = thesis[t].frozen
  /\ revisions[t][thesis[t].frozen].kind = "FORMAL_FREEZE"
  /\ thesis' = [thesis EXCEPT ![t].archived = TRUE, ![t].revision = thesis[t].revision + 1]
  /\ revisions' = [revisions EXCEPT ![t] = Append(@, ArchivedSnapshot(t))]
  /\ UNCHANGED <<links, evidence, deltas, view, reviewed>>

--------------------------------------------------------------------------------
(***************************************************************************)
(* Deltas.                                                                 *)
(***************************************************************************)
\* Mutant: the last delta is not looked at.
ContinuesAny(t) == TRUE

\* No delta follows one that disproves or invalidates the Thesis.
Continues(t) == \A i \in DOMAIN deltas[t] : i = Len(deltas[t]) => ~deltas[t][i].terminal

\* Evidence a delta may quote: linked, with the stance of the link, or new,
\* with a stance of its own.
Quotable(t) ==
  {p \in Evidence \X Stances :
     Usable(p[1]) /\ (links[t][p[1]] = p[2] \/ <<t, p[1]>> \in Matches)}

CreateThesisDelta(t, terminal) ==
  /\ Formal(t, "frozen") /\ ~thesis[t].archived
  /\ Continues(t) /\ Len(deltas[t]) < MaxDeltas
  /\ \E quoted \in SUBSET Quotable(t) :
       /\ \A p, q \in quoted : p[1] = q[1] => p = q
       /\ deltas' = [deltas EXCEPT ![t] = Append(@,
            [base |-> thesis[t].frozen, terminal |-> terminal,
             evidence |-> {<<p[1], evidence[p[1]].version, p[2]>> : p \in quoted}])]
  /\ UNCHANGED <<thesis, links, evidence, revisions, view, reviewed>>

--------------------------------------------------------------------------------
ClientNext(c, t) ==
  \/ ReadThesis(c, t)
  \/ UpdateThesis(c, t)
  \/ \E e \in Evidence :
       \/ \E s \in Stances : LinkEvidence(c, t, e, s)
       \/ \E s \in Stances \union {None} : ChangeLink(c, t, e, s)
  \/ ArchiveThesis(c, t)
  \/ ConfirmFormalization(c, t) \/ FreezeFormalization(c, t) \/ ArchiveFormalization(c, t)

Next ==
  \/ \E t \in Theses :
       \/ CreateThesis(t) \/ BeginFormalization(t)
       \/ \E terminal \in BOOLEAN : CreateThesisDelta(t, terminal)
       \/ \E c \in Clients : ClientNext(c, t)
  \/ \E e \in Evidence : CreateEvidence(e) \/ UpdateEvidence(e) \/ SoftDeleteEvidence(e)

Spec == Init /\ [][Next]_vars
--------------------------------------------------------------------------------
(***************************************************************************)
(* Properties.                                                             *)
(***************************************************************************)
Items == Evidence \X Nat \X Stances
Snapshots == [kind : {"CONTENT", "FORMAL_FREEZE", "FORMAL_ARCHIVE"}, content : SUBSET Nat,
              evidence : SUBSET Items]

Rows == [formal : {"absent", "legacy", "draft", "confirmed", "frozen"}, archived : BOOLEAN,
         content : SUBSET Nat, ready : BOOLEAN, revision : Nat, frozen : Nat]
Links == [Evidence -> Stances \union {None}]
Deltas == [base : Nat, terminal : BOOLEAN, evidence : SUBSET Items]
Readings == SUBSET ((SUBSET Nat) \X (SUBSET Items))

\* Type invariant; every revision up to the current one is stored.
TypeOK ==
  /\ thesis \in [Theses -> Rows]
  /\ links \in [Theses -> Links]
  /\ evidence \in [Evidence -> [version : Nat, deleted : BOOLEAN]]
  /\ revisions \in [Theses -> Seq(Snapshots)]
  /\ \A t \in Theses : Len(revisions[t]) = thesis[t].revision
  /\ deltas \in [Theses -> Seq(Deltas)]
  /\ view \in [Clients -> [thesis : Theses \union {None}, revision : Nat, content : SUBSET Nat,
                           evidence : SUBSET Items]]
  /\ reviewed \in [Theses -> Readings]

\* An edit accepted by the ledger never drops one it already holds: of two
\* clients that edit the same revision, the second is refused.
NoLostEdit == [][\A t \in Theses : thesis[t].content \subseteq thesis'[t].content]_vars

\* While a Thesis can be edited its revision number stands for all that is read
\* under it, Evidence edited elsewhere included: who sends it back has read the
\* present state.
RevisionNamesState ==
  \A c \in Clients, t \in Theses :
    Open(t) /\ Expects(c, t) =>
      view[c].content = Live(t).content /\ view[c].evidence = Live(t).evidence

\* What is frozen, and archived later, is what the client who confirmed the
\* Thesis had read, Evidence included, whatever was edited in between.
FrozenAsReviewed ==
  \A t \in Theses : Formal(t, "frozen") =>
    reviewed[t] = {<<Current(t).content, Current(t).evidence>>}

\* The checks every read applies to what is stored: the row alone,
MainRowHolds(t) ==
  LET row == thesis[t] IN
  /\ Formal(t, "draft") => ~row.archived
  /\ Formal(t, "confirmed") => row.ready /\ ~row.archived
  /\ Formal(t, "frozen") =>
       row.ready /\ row.revision = IF row.archived THEN row.frozen + 1 ELSE row.frozen

\* the row and the revisions it rests on,
ChainHolds(t) ==
  LET row == thesis[t]  revs == revisions[t] IN
  /\ Formal(t, "confirmed") => Current(t).content = row.content
  /\ Formal(t, "frozen") =>
       /\ row.frozen \in DOMAIN revs
       /\ revs[row.frozen].kind = "FORMAL_FREEZE" /\ revs[row.frozen].content = row.content
       /\ row.archived => Current(t) = [revs[row.frozen] EXCEPT !.kind = "FORMAL_ARCHIVE"]

\* all the revisions,
HistoryHolds(t) ==
  LET row == thesis[t]  revs == revisions[t] IN
  /\ DOMAIN revs = 1..row.revision
  /\ \A n \in DOMAIN revs :
       revs[n].kind # "CONTENT" => Formal(t, "frozen") /\ n >= row.frozen

\* and the deltas.
DeltasHold(t) ==
  \A i \in DOMAIN deltas[t] :
    /\ Formal(t, "frozen") /\ deltas[t][i].base = thesis[t].frozen
    /\ deltas[t][i].terminal => i = Len(deltas[t])

PassesReadChecks(t) == MainRowHolds(t) /\ ChainHolds(t) /\ HistoryHolds(t) /\ DeltasHold(t)

\* No legal sequence of operations makes the fail-closed reader take the ledger
\* for corrupted.
ReadsNeverFail == \A t \in Theses : Exists(t) => PassesReadChecks(t)

\* Once frozen, a Thesis reads the same for ever, archived or not.
FrozenReadsAreFinal ==
  [][\A t \in Theses : Formal(t, "frozen") =>
       /\ Aggregate(t)'.content = Aggregate(t).content
       /\ Aggregate(t)'.evidence = Aggregate(t).evidence]_vars

================================================================================
