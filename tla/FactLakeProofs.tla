----------------------------- MODULE FactLakeProofs ----------------------------
(***************************************************************************)
(* Proofs about FactLake for every set of processes, requests,             *)
(* observations, publications and keys.                                    *)
(***************************************************************************)
EXTENDS FactLake, TLAPS

(***************************************************************************)
(* LakeInv speaks of the rows and files, and of each request by itself.    *)
(***************************************************************************)
SharedInv ==
  /\ observation \in [Observations -> ObservationRows]
  /\ normalized \subseteq Observations
  /\ publication \in [Publications -> PublicationRows]
  /\ \A q \in Publications : publication[q].hash = None <=> publication[q].state # "COMMITTED"
  /\ file \in [Paths -> Payloads \union Artifacts \union {None}]
  /\ synced \subseteq Paths
  /\ CommittedIsDurable /\ VintagesAreDistinct /\ RowsAreSound /\ FilesAreTrue

LocksTyped == lock \in [Processes -> Requests \union {None}]

RequestInv(c) ==
  /\ c \in LocalStates
  /\ c.answer # "corrupted"
  /\ c.answer = "conflict" =>
       IF c.publication = None THEN observation[c.observation].payload # c.payload
                               ELSE \E e1, e2 \in Encodings : e1 # e2
  /\ IF c.pc = "idle" THEN Refused(c) ELSE InFlight(c)

EveryRequest == \A r \in Requests : RequestInv(req[r])

ReqIsFunction == req = [r \in Requests |-> req[r]]

Inv == ReqIsFunction /\ SharedInv /\ LocksTyped /\ EveryRequest

LEMMA InvSplits ==
  LakeInv <=> Inv
<1>1. req \in [Requests -> LocalStates]
        <=> ReqIsFunction /\ \A r \in Requests : req[r] \in LocalStates
  BY DEF ReqIsFunction
<1>2. RefusalsAreEarned /\ RequestsAreTrue /\ (\A r \in Requests : req[r] \in LocalStates)
        <=> EveryRequest
  BY DEF RefusalsAreEarned, RequestsAreTrue, EveryRequest, RequestInv, At
<1>3. LakeInv <=> SharedInv /\ LocksTyped /\ req \in [Requests -> LocalStates]
                    /\ RefusalsAreEarned /\ RequestsAreTrue
  BY Zenon DEF LakeInv, TypeOK, SharedInv, LocksTyped
<1>4. EveryRequest => \A r \in Requests : req[r] \in LocalStates
  BY DEF EveryRequest, RequestInv
<1> QED BY <1>1, <1>2, <1>3, <1>4, Zenon DEF Inv

LEMMA IdleInv == ASSUME NEW c, c = IdleRequest PROVE RequestInv(c)
BY BoundAssumption DEF RequestInv, IdleRequest, Refused, LocalStates, Pcs, Answers

(***************************************************************************)
(* Rows and files only grow, and what is true of a request stays true.     *)
(***************************************************************************)
Grows ==
  /\ \A o \in Observations : observation[o].state # "ABSENT" =>
       /\ observation'[o].state # "ABSENT"
       /\ observation'[o].payload = observation[o].payload
       /\ observation[o].state = "COMMITTED" => observation'[o].state = "COMMITTED"
  /\ normalized \subseteq normalized'
  /\ \A q \in Publications : publication[q].state # "ABSENT" =>
       /\ publication'[q].state # "ABSENT"
       /\ publication'[q].vintage = publication[q].vintage
       /\ publication'[q].source = publication[q].source
  /\ \A x \in Paths : file[x] # None => file'[x] = file[x]
  /\ synced \subseteq synced'

LEMMA GrowsInFlight ==
  ASSUME NEW c, Grows, InFlight(c)
  PROVE  InFlight(c)'
<1>1. c.observation \in Observations /\ c.answer = "none"
  BY DEF InFlight
<1>2. ASSUME c.pc \in StorePcs, StoreIsTrue(c)
      PROVE  StoreIsTrue(c)'
  <2>1. c.payload \in Payloads /\ c.payload \in Paths /\ c.payload # None
    BY <1>2, NoneAssumption DEF StoreIsTrue, Paths
  <2> QED BY <1>1, <1>2, <2>1 DEF StoreIsTrue, Grows
<1>3. ASSUME c.pc \in PublishPcs, PublishIsTrue(c)
      PROVE  PublishIsTrue(c)'
  <2>1. c.publication \in Publications /\ c.publication \in Paths
    BY <1>3 DEF PublishIsTrue, Paths
  <2>2. CASE c.pc = "reserve"
    BY <1>1, <1>3, <2>1, <2>2 DEF PublishIsTrue, Grows, Publishable
  <2>3. CASE c.pc # "reserve"
    BY <1>3, <2>1, <2>3 DEF PublishIsTrue, Grows
  <2> QED BY <2>2, <2>3
<1> QED BY <1>1, <1>2, <1>3, Zenon DEF InFlight

LEMMA GrowsRequest ==
  ASSUME NEW c, Grows, RequestInv(c)
  PROVE  RequestInv(c)'
<1>1. CASE c.pc = "idle"
  BY <1>1 DEF RequestInv, Refused, Grows
<1>2. CASE c.pc # "idle"
  <2>1. InFlight(c) /\ InFlight(c)' /\ c.answer = "none"
    BY <1>2, GrowsInFlight DEF RequestInv, InFlight
  <2> QED BY <1>2, <2>1 DEF RequestInv
<1> QED BY <1>1, <1>2

LEMMA StillGrows ==
  ASSUME SharedInv, UNCHANGED <<rows, files>>
  PROVE  SharedInv' /\ Grows
<1>1. UNCHANGED <<observation, normalized, publication, file, synced>>
  BY DEF rows, files
<1>2. SharedInv'
  BY <1>1 DEF SharedInv, CommittedIsDurable, VintagesAreDistinct, Vintages, RowsAreSound,
              Publishable, FilesAreTrue
<1> QED BY <1>1, <1>2 DEF Grows

\* The step of one request, which leaves it in state d.
LEMMA RequestMoves ==
  ASSUME Inv, SharedInv', Grows, LocksTyped', NEW r \in Requests, NEW d,
         req' = [req EXCEPT ![r] = d], RequestInv(d)'
  PROVE  Inv'
<1>1. ReqIsFunction'
  BY DEF Inv, ReqIsFunction
<1>2. ASSUME NEW x \in Requests PROVE RequestInv(req[x])'
  <2>1. CASE x = r
    <3>1. req'[x] = d
      BY <2>1 DEF Inv, ReqIsFunction
    <3> QED BY <3>1, Zenon DEF RequestInv, Refused, InFlight, StoreIsTrue, PublishIsTrue, Publishable
  <2>2. CASE x # r
    <3>1. PICK c : c = req[x]
      OBVIOUS
    <3>2. RequestInv(c) /\ req'[x] = c
      BY <2>2, <3>1 DEF Inv, ReqIsFunction, EveryRequest
    <3>3. RequestInv(c)'
      BY <3>2, GrowsRequest
    <3> QED BY <3>2, <3>3, Zenon DEF RequestInv, Refused, InFlight, StoreIsTrue, PublishIsTrue, Publishable
  <2> QED BY <2>1, <2>2
<1>3. EveryRequest'
  BY <1>2 DEF EveryRequest
<1> QED BY <1>1, <1>3 DEF Inv

(***************************************************************************)
(* The two ways a request moves: on to its next label, or out.             *)
(***************************************************************************)
LEMMA GotoKeeps ==
  ASSUME Inv, SharedInv', Grows, LocksTyped', NEW r \in Requests, NEW c, c = req[r],
         c.pc # "idle", NEW pc \in Pcs \ {"idle"}, Goto(r, pc),
         InFlight([c EXCEPT !.pc = pc])'
  PROVE  Inv'
<1>1. RequestInv(c)
  BY DEF Inv, EveryRequest
<1>2. PICK d : d = [c EXCEPT !.pc = pc]
  OBVIOUS
<1>3. d \in LocalStates /\ d.answer = c.answer /\ d.pc = pc
  BY <1>1, <1>2 DEF RequestInv, LocalStates
<1>4. c.answer = "none"
  BY <1>1 DEF RequestInv, InFlight
<1>5. InFlight(d)'
  BY <1>2, Zenon DEF InFlight, StoreIsTrue, PublishIsTrue, Publishable
<1>6. RequestInv(d)'
  BY <1>3, <1>4, <1>5 DEF RequestInv
<1>7. req' = [req EXCEPT ![r] = d]
  BY <1>1, <1>2 DEF Goto, Inv, ReqIsFunction
<1> QED BY <1>6, <1>7, RequestMoves

\* What a refusal of request c rests on.
Conflicts(c) ==
  IF c.publication = None
    THEN /\ c.observation \in Observations
         /\ observation[c.observation].state # "ABSENT"
         /\ observation[c.observation].payload # c.payload
    ELSE \E e1, e2 \in Encodings : e1 # e2

LEMMA AnswerKeeps ==
  ASSUME Inv, SharedInv', Grows, NEW r \in Requests, NEW a \in Answers, Answer(r, a),
         a # "corrupted", a = "conflict" => Conflicts(req[r])
  PROVE  Inv'
<1>1. LocksTyped'
  BY ProcessOfAssumption DEF Inv, LocksTyped, Answer
<1>2. PICK c : c = req[r]
  OBVIOUS
<1>3. RequestInv(c)
  BY <1>2 DEF Inv, EveryRequest
<1>4. PICK d : d = [c EXCEPT !.pc = "idle", !.answer = a]
  OBVIOUS
<1>5. /\ d \in LocalStates /\ d.answer = a /\ d.pc = "idle"
      /\ d.publication = c.publication /\ d.observation = c.observation
      /\ d.payload = c.payload
  BY <1>3, <1>4 DEF RequestInv, LocalStates, Pcs
<1>6. a = "conflict" => Conflicts(d)
  BY <1>2, <1>5, Zenon DEF Conflicts
<1>7. a = "conflict" => Conflicts(d)'
  BY <1>6 DEF Conflicts, Grows
<1>8. RequestInv(d)'
  BY <1>5, <1>7 DEF RequestInv, Refused, Conflicts
<1>9. req' = [req EXCEPT ![r] = d]
  BY <1>2, <1>3, <1>4 DEF Answer, Inv, ReqIsFunction
<1> QED BY <1>1, <1>8, <1>9, RequestMoves

\* Where a request is says what it works on.
LEMMA Storing ==
  ASSUME Inv, NEW r \in Requests, req[r].pc \in {"lock", "stage", "blob", "commit"}
  PROVE  /\ req[r] \in LocalStates /\ RequestInv(req[r])
         /\ req[r].observation \in Observations
         /\ req[r].publication = None /\ StoreIsTrue(req[r])
BY DEF Inv, EveryRequest, RequestInv, InFlight, PublishPcs

LEMMA Publishing ==
  ASSUME Inv, NEW r \in Requests,
         req[r].pc \in {"reserve", "artifact", "link", "readback", "publish"}
  PROVE  /\ req[r] \in LocalStates /\ RequestInv(req[r])
         /\ req[r].observation \in Observations
         /\ req[r].publication # None /\ PublishIsTrue(req[r])
BY DEF Inv, EveryRequest, RequestInv, InFlight, StorePcs

(***************************************************************************)
(* Steps that change rows.                                                 *)
(***************************************************************************)
LEMMA ObservationsGrow ==
  ASSUME SharedInv, UNCHANGED <<normalized, publication, file, synced>>,
         observation' \in [Observations -> ObservationRows],
         \A o \in Observations : observation[o].state # "ABSENT" =>
           /\ observation'[o].state # "ABSENT"
           /\ observation'[o].payload = observation[o].payload
           /\ observation[o].state = "COMMITTED" => observation'[o].state = "COMMITTED",
         \A o \in Observations :
           observation'[o].state = "COMMITTED" /\ observation[o].state # "COMMITTED" =>
             /\ file[observation'[o].payload] = observation'[o].payload
             /\ observation'[o].payload \in synced
  PROVE  SharedInv' /\ Grows
<1>1. Grows
  BY DEF Grows
<1>2. CommittedIsDurable'
  BY DEF SharedInv, CommittedIsDurable
<1>3. VintagesAreDistinct'
  BY DEF SharedInv, VintagesAreDistinct, Vintages
<1>4. RowsAreSound'
  <2>1. ASSUME NEW q \in Publications, publication[q].state # "ABSENT"
        PROVE  /\ observation[publication[q].source].state = "COMMITTED"
               /\ publication[q].source \in Observations /\ publication[q].source \in normalized
               /\ PublishedAs[observation[publication[q].source].payload] = q
    BY <2>1 DEF SharedInv, RowsAreSound, Publishable
  <2> QED BY <2>1 DEF RowsAreSound, Publishable
<1>5. FilesAreTrue'
  BY DEF SharedInv, FilesAreTrue
<1> QED BY <1>1, <1>2, <1>3, <1>4, <1>5 DEF SharedInv

LEMMA StageObservationKeeps ==
  ASSUME Inv, NEW r \in Requests, StageObservation(r) PROVE Inv'
<1> PICK c : c = req[r]
  OBVIOUS
<1>1. /\ c \in LocalStates /\ RequestInv(c) /\ c.pc = "stage"
      /\ c.observation \in Observations /\ c.publication = None /\ StoreIsTrue(c)
  BY Storing, Zenon DEF StageObservation, At
<1>2. c.payload \in Payloads /\ c.answer = "none"
  BY <1>1 DEF StoreIsTrue, RequestInv, InFlight
<1>3. UNCHANGED <<normalized, publication, file, synced>>
  BY DEF StageObservation, files
<1>4. ASSUME UNCHANGED lock, Goto(r, "blob"), SharedInv', Grows,
             observation'[c.observation].state # "ABSENT",
             observation'[c.observation].payload = c.payload
      PROVE  Inv'
  <2>1. PICK d : d = [c EXCEPT !.pc = "blob"]
    OBVIOUS
  <2>2. /\ d.pc = "blob" /\ d.publication = None /\ d.observation = c.observation
        /\ d.payload = c.payload /\ d.answer = "none"
    BY <1>1, <1>2, <2>1 DEF LocalStates
  <2>3. InFlight(d)'
    BY <1>1, <1>2, <1>4, <2>2 DEF InFlight, StoreIsTrue, StorePcs
  <2>4. InFlight([c EXCEPT !.pc = "blob"])'
    BY <2>1, <2>3, Zenon DEF InFlight, StoreIsTrue, PublishIsTrue, Publishable
  <2>5. LocksTyped'
    BY <1>4 DEF Inv, LocksTyped
  <2> QED BY <1>1, <1>4, <2>4, <2>5, GotoKeeps DEF Pcs
<1>5. CASE observation[c.observation].state = "ABSENT"
  <2>1. /\ observation' = [observation EXCEPT ![c.observation] =
                             [state |-> "STAGING", payload |-> c.payload]]
        /\ Goto(r, "blob") /\ UNCHANGED lock
    BY <1>5 DEF StageObservation
  <2>2. observation' \in [Observations -> ObservationRows]
    BY <1>1, <1>2, <2>1 DEF Inv, SharedInv, ObservationRows
  <2>3. SharedInv' /\ Grows
    BY <1>1, <1>3, <1>5, <2>1, <2>2, ObservationsGrow DEF Inv, SharedInv
  <2> QED BY <1>1, <1>4, <2>1, <2>3 DEF Inv, SharedInv
<1>6. CASE observation[c.observation].state # "ABSENT"
  <2>1. /\ UNCHANGED observation
        /\ IF Staged(r) = "resume" THEN Goto(r, "blob") /\ UNCHANGED lock
                                   ELSE Answer(r, Staged(r))
    BY <1>6 DEF StageObservation
  <2>2. UNCHANGED <<rows, files>>
    BY <1>3, <2>1 DEF rows, files
  <2>3. SharedInv' /\ Grows
    BY <2>2, StillGrows DEF Inv
  <2>4. /\ Staged(r) \in {"conflict", "stored", "resume"}
        /\ Staged(r) = "resume" => observation[c.observation].payload = c.payload
        /\ Staged(r) = "conflict" => observation[c.observation].payload # c.payload
    BY <1>1 DEF Staged, Inv, SharedInv, CommittedIsDurable
  <2>5. CASE Staged(r) = "resume"
    BY <1>4, <1>6, <2>1, <2>3, <2>4, <2>5
  <2>6. CASE Staged(r) # "resume"
    <3>1. Staged(r) = "conflict" => Conflicts(req[r])
      BY <1>1, <1>6, <2>4 DEF Conflicts
    <3>2. PICK a \in Answers : a = Staged(r)
      BY <2>4, <2>6 DEF Answers
    <3>3. Answer(r, a) /\ a # "corrupted" /\ (a = "conflict" => Conflicts(req[r]))
      BY <2>1, <2>4, <2>6, <3>1, <3>2
    <3> QED BY <2>3, <3>3, AnswerKeeps
  <2> QED BY <2>5, <2>6
<1> QED BY <1>5, <1>6

LEMMA CommitObservationKeeps ==
  ASSUME Inv, NEW r \in Requests, CommitObservation(r) PROVE Inv'
<1> PICK c : c = req[r]
  OBVIOUS
<1>1. /\ c \in LocalStates /\ RequestInv(c) /\ c.pc = "commit"
      /\ c.observation \in Observations /\ c.publication = None /\ StoreIsTrue(c)
  BY Storing, Zenon DEF CommitObservation, At
<1>2. /\ c.payload \in Payloads /\ observation[c.observation].state # "ABSENT"
      /\ observation[c.observation].payload = c.payload
      /\ file[c.payload] = c.payload /\ c.payload \in synced
  BY <1>1 DEF StoreIsTrue
<1>3. UNCHANGED <<normalized, publication, file, synced>>
  BY DEF CommitObservation, files
<1>4. observation' = IF observation[c.observation].state = "STAGING"
                       THEN [observation EXCEPT ![c.observation].state = "COMMITTED"]
                       ELSE observation
  BY DEF CommitObservation
<1>5. observation[c.observation] \in [state : {"STAGING", "COMMITTED"}, payload : Payloads]
  BY <1>1, <1>2 DEF Inv, SharedInv, ObservationRows, NoObservation
<1>6. PICK row : row = [observation[c.observation] EXCEPT !.state = "COMMITTED"]
  OBVIOUS
<1>7. /\ row \in ObservationRows /\ row.state = "COMMITTED"
      /\ row.payload = observation[c.observation].payload
  BY <1>5, <1>6 DEF ObservationRows
<1>8. observation \in [Observations -> ObservationRows]
  BY DEF Inv, SharedInv
<1>9. observation' = observation
        \/ observation' = [observation EXCEPT ![c.observation] = row]
  BY <1>1, <1>4, <1>6, <1>8
<1>10. observation' \in [Observations -> ObservationRows]
  BY <1>7, <1>8, <1>9
<1>11. SharedInv' /\ Grows
  BY <1>1, <1>2, <1>3, <1>7, <1>8, <1>9, <1>10, ObservationsGrow DEF Inv
<1>12. Answer(r, "stored")
  BY <1>2 DEF CommitObservation
<1> QED BY <1>11, <1>12, AnswerKeeps DEF Answers

LEMMA NormalizeObservationKeeps ==
  ASSUME Inv, NEW r \in Requests, NormalizeObservation(r) PROVE Inv'
<1>1. /\ UNCHANGED <<observation, publication, file, synced, lock, req>>
      /\ normalized \subseteq normalized' /\ normalized' \subseteq Observations
  BY DEF NormalizeObservation, files, Inv, SharedInv
<1>2. Grows
  BY <1>1 DEF Grows
<1>3. SharedInv'
  BY <1>1 DEF Inv, SharedInv, CommittedIsDurable, VintagesAreDistinct, Vintages, RowsAreSound,
              Publishable, FilesAreTrue
<1>4. PICK d : d = req[r]
  OBVIOUS
<1>5. RequestInv(d)'
  BY <1>2, <1>4, GrowsRequest DEF Inv, EveryRequest
<1>6. req' = [req EXCEPT ![r] = d] /\ LocksTyped'
  BY <1>1, <1>4 DEF Inv, ReqIsFunction, LocksTyped
<1> QED BY <1>2, <1>3, <1>5, <1>6, RequestMoves

\* A new publication takes the vintage after the last of its key.
LEMMA StagedRowKeeps ==
  ASSUME SharedInv, NEW q \in Publications, publication[q].state = "ABSENT",
         NEW o \in Observations, Publishable(o), PublishedAs[observation[o].payload] = q,
         NEW n \in 1 .. MaxVintage, NextVintage(n, KeyOf[q]),
         UNCHANGED <<observation, normalized, file, synced>>,
         publication' = [publication EXCEPT ![q] =
                           [state |-> "STAGING", vintage |-> n, source |-> o, hash |-> None]]
  PROVE  SharedInv' /\ Grows
<1>1. publication \in [Publications -> PublicationRows] /\ n \in Nat /\ n >= 1
  BY BoundAssumption DEF SharedInv
<1>2. PICK row : row = [state |-> "STAGING", vintage |-> n, source |-> o, hash |-> None]
  OBVIOUS
<1>3. /\ row \in PublicationRows /\ row.state = "STAGING" /\ row.vintage = n
      /\ row.source = o /\ row.hash = None
  BY <1>2 DEF PublicationRows
<1>4. /\ publication' \in [Publications -> PublicationRows]
      /\ publication'[q] = row
      /\ \A x \in Publications : x # q => publication'[x] = publication[x]
  BY <1>1, <1>2, <1>3
<1> HIDE DEF PublicationRows
<1>5. Grows
  BY <1>4 DEF Grows
<1>6. CommittedIsDurable' /\ RowsAreSound' /\ FilesAreTrue'
  <2>1. CommittedIsDurable'
    BY <1>3, <1>4 DEF SharedInv, CommittedIsDurable
  <2>2. RowsAreSound'
    BY <1>3, <1>4 DEF SharedInv, RowsAreSound, Publishable
  <2>3. FilesAreTrue'
    BY <1>4 DEF SharedInv, FilesAreTrue
  <2> QED BY <2>1, <2>2, <2>3
<1>7. VintagesAreDistinct'
  <2>1. \A x \in Publications : publication[x].vintage \in Nat
    BY <1>1, BoundAssumption DEF PublicationRows, NoPublication
  <2>2. \A x \in Publications : x # q /\ KeyOf[x] = KeyOf[q] => publication[x].vintage < n
    BY DEF NextVintage, Vintages
  <2>3. publication[q].vintage = 0
    BY <1>1 DEF PublicationRows, NoPublication
  <2>4. ASSUME NEW q1 \in Publications, NEW q2 \in Publications,
               "ABSENT" \notin {publication'[q1].state, publication'[q2].state},
               KeyOf[q1] = KeyOf[q2], publication'[q1].vintage = publication'[q2].vintage
        PROVE  q1 = q2
    BY <1>1, <1>3, <1>4, <2>1, <2>2, <2>4 DEF SharedInv, VintagesAreDistinct
  <2>5. ASSUME NEW q1 \in Publications, publication'[q1].vintage > 1
        PROVE  \E x \in Publications : /\ KeyOf[x] = KeyOf[q1]
                                       /\ publication'[x].vintage = publication'[q1].vintage - 1
    <3>1. CASE q1 = q
      <4>1. PICK x \in Publications : KeyOf[x] = KeyOf[q] /\ publication[x].vintage = n - 1
        BY <1>1, <1>3, <1>4, <2>5, <3>1 DEF NextVintage, Vintages
      <4>2. x # q
        BY <1>1, <1>3, <1>4, <2>3, <2>5, <3>1, <4>1
      <4> QED BY <1>3, <1>4, <3>1, <4>1, <4>2
    <3>2. CASE q1 # q
      <4>1. PICK x \in Publications : /\ KeyOf[x] = KeyOf[q1]
                                      /\ publication[x].vintage = publication[q1].vintage - 1
        BY <1>4, <2>5, <3>2 DEF SharedInv, VintagesAreDistinct, Vintages
      <4>2. x # q
        BY <1>4, <2>1, <2>3, <2>5, <3>2, <4>1
      <4> QED BY <1>4, <3>2, <4>1, <4>2
    <3> QED BY <3>1, <3>2
  <2>6. \A q1 \in Publications : publication'[q1].vintage > 1 =>
          publication'[q1].vintage - 1 \in Vintages(KeyOf[q1])'
    BY <2>5 DEF Vintages
  <2> QED BY <2>4, <2>6 DEF VintagesAreDistinct
<1>8. \A x \in Publications : publication'[x].hash = None <=> publication'[x].state # "COMMITTED"
  BY <1>3, <1>4 DEF SharedInv
<1> QED BY <1>4, <1>5, <1>6, <1>7, <1>8 DEF SharedInv

\* Committing a publication keeps its vintage and names the file that is there.
LEMMA CommittedRowKeeps ==
  ASSUME SharedInv, NEW q \in Publications, publication[q].state = "STAGING",
         NEW h, h # None, file[q] = h, q \in synced,
         UNCHANGED <<observation, normalized, file, synced>>,
         publication' = [publication EXCEPT ![q] = CommittedRow(publication[q], h)]
  PROVE  SharedInv' /\ Grows
<1>1. publication \in [Publications -> PublicationRows] /\ h \in Artifacts
  BY DEF SharedInv, FilesAreTrue
<1>2. PICK row : row = CommittedRow(publication[q], h)
  OBVIOUS
<1>3. /\ row \in PublicationRows /\ row.state = "COMMITTED" /\ row.hash = h
      /\ row.vintage = publication[q].vintage /\ row.source = publication[q].source
  <2>1. PICK old : old = publication[q]
    OBVIOUS
  <2>2. old \in [state : {"STAGING", "COMMITTED"}, vintage : 1 .. MaxVintage,
                 source : Observations, hash : Artifacts \union {None}]
    BY <1>1, <2>1 DEF PublicationRows, NoPublication
  <2>3. row = [old EXCEPT !.state = "COMMITTED", !.hash = h]
    BY <1>2, <2>1, Zenon DEF CommittedRow
  <2> HIDE DEF Artifacts
  <2>4. /\ row.state = "COMMITTED" /\ row.hash = h
        /\ row.vintage = old.vintage /\ row.source = old.source
        /\ row \in [state : {"STAGING", "COMMITTED"}, vintage : 1 .. MaxVintage,
                    source : Observations, hash : Artifacts \union {None}]
    BY <1>1, <2>2, <2>3
  <2> QED BY <2>1, <2>4 DEF PublicationRows
<1>4. /\ publication' \in [Publications -> PublicationRows]
      /\ publication'[q] = row
      /\ \A x \in Publications : x # q => publication'[x] = publication[x]
  BY <1>1, <1>2, <1>3
<1>5. Grows
  BY <1>3, <1>4 DEF Grows
<1>6. CommittedIsDurable'
  BY <1>3, <1>4 DEF SharedInv, CommittedIsDurable
<1>7. RowsAreSound'
  BY <1>3, <1>4 DEF SharedInv, RowsAreSound, Publishable
<1>8. FilesAreTrue'
  BY <1>3, <1>4 DEF SharedInv, FilesAreTrue
<1>9. /\ \A x \in Publications : publication'[x].vintage = publication[x].vintage
      /\ \A x \in Publications :
           publication'[x].state = "ABSENT" <=> publication[x].state = "ABSENT"
  BY <1>3, <1>4
<1>10. VintagesAreDistinct'
  <2>1. \A k : Vintages(k)' = Vintages(k)
    BY <1>9 DEF Vintages
  <2> QED BY <1>9, <2>1 DEF SharedInv, VintagesAreDistinct
<1>11. \A x \in Publications : publication'[x].hash = None <=> publication'[x].state # "COMMITTED"
  BY <1>3, <1>4 DEF SharedInv
<1> QED BY <1>4, <1>5, <1>6, <1>7, <1>8, <1>10, <1>11 DEF SharedInv

(***************************************************************************)
(* Steps that change files.                                                *)
(***************************************************************************)
LEMMA FilesGrow ==
  ASSUME SharedInv, UNCHANGED <<observation, normalized, publication>>,
         file' \in [Paths -> Payloads \union Artifacts \union {None}],
         \A x \in Paths : file[x] # None => file'[x] = file[x],
         synced \subseteq synced', synced' \subseteq Paths, FilesAreTrue'
  PROVE  SharedInv' /\ Grows
<1>1. Grows
  BY DEF Grows
<1>2. CommittedIsDurable'
  <2>1. ASSUME NEW o \in Observations, observation[o].state = "COMMITTED"
        PROVE  LET v == observation[o].payload IN file'[v] = v /\ v \in synced'
    <3>1. observation[o].payload \in Payloads
      BY <2>1 DEF SharedInv, ObservationRows, NoObservation
    <3> QED BY <2>1, <3>1, NoneAssumption DEF SharedInv, CommittedIsDurable, Paths
  <2>2. ASSUME NEW q \in Publications, publication[q].state = "COMMITTED"
        PROVE  file'[q] = publication[q].hash /\ q \in synced'
    BY <2>2 DEF SharedInv, CommittedIsDurable, Paths
  <2> QED BY <2>1, <2>2 DEF CommittedIsDurable
<1>3. VintagesAreDistinct' /\ RowsAreSound'
  BY DEF SharedInv, VintagesAreDistinct, Vintages, RowsAreSound, Publishable
<1> QED BY <1>1, <1>2, <1>3 DEF SharedInv

LEMMA PublishBlobKeeps ==
  ASSUME Inv, NEW r \in Requests, PublishBlob(r) PROVE Inv'
<1> PICK c : c = req[r]
  OBVIOUS
<1>1. /\ c \in LocalStates /\ RequestInv(c) /\ c.pc = "blob"
      /\ c.observation \in Observations /\ c.publication = None /\ StoreIsTrue(c)
  BY Storing, Zenon DEF PublishBlob, At
<1>2. PICK v \in Payloads : v = c.payload
  BY <1>1 DEF StoreIsTrue
<1>3. /\ UNCHANGED <<observation, normalized, publication, synced, lock>>
      /\ file' = IF file[v] = None THEN [file EXCEPT ![v] = v] ELSE file
      /\ Goto(r, "sync")
  BY <1>2 DEF PublishBlob, Link, AfterBlob, rows
<1>4. /\ v \in Paths /\ v \notin Publications /\ v # None
  BY NoneAssumption, DisjointAssumption DEF Paths
<1>5. file[v] \in {v, None} /\ file \in [Paths -> Payloads \union Artifacts \union {None}]
  BY DEF Inv, SharedInv, FilesAreTrue
<1>6. /\ file' \in [Paths -> Payloads \union Artifacts \union {None}]
      /\ file'[v] = v
      /\ \A x \in Paths : x # v => file'[x] = file[x]
  BY <1>3, <1>4, <1>5
<1>7. FilesAreTrue'
  BY <1>3, <1>4, <1>6 DEF Inv, SharedInv, FilesAreTrue, Paths
<1>8. SharedInv' /\ Grows
  BY <1>3, <1>5, <1>6, <1>7, FilesGrow DEF Inv, SharedInv
<1>9. PICK d : d = [c EXCEPT !.pc = "sync"]
  OBVIOUS
<1>10. /\ d.pc = "sync" /\ d.publication = None /\ d.observation = c.observation
       /\ d.payload = v /\ d.answer = "none"
  BY <1>1, <1>2, <1>9 DEF LocalStates, RequestInv, InFlight
<1>11. InFlight(d)'
  BY <1>1, <1>2, <1>3, <1>6, <1>10 DEF InFlight, StoreIsTrue, StorePcs
<1>12. InFlight([c EXCEPT !.pc = "sync"])'
  BY <1>9, <1>11, Zenon DEF InFlight, StoreIsTrue, PublishIsTrue, Publishable
<1>13. LocksTyped'
  BY <1>3 DEF Inv, LocksTyped
<1> QED BY <1>1, <1>3, <1>8, <1>12, <1>13, GotoKeeps DEF Pcs

LEMMA SyncDirectoryKeeps ==
  ASSUME Inv, NEW r \in Requests, SyncDirectory(r) PROVE Inv'
<1> PICK c : c = req[r]
  OBVIOUS
<1>1. RequestInv(c) /\ InFlight(c) /\ c.pc = "sync"
  BY DEF SyncDirectory, At, Inv, EveryRequest, RequestInv
<1> DEFINE x == IF c.publication = None THEN c.payload ELSE c.publication
           pc == IF c.publication = None THEN "commit" ELSE "readback"
<1>2. /\ UNCHANGED <<observation, normalized, publication, file, lock>>
      /\ synced' = synced \union {x} /\ Goto(r, pc)
  BY DEF SyncDirectory, rows
<1>3. x \in Paths
  BY <1>1 DEF InFlight, StoreIsTrue, PublishIsTrue, Paths
<1>4. SharedInv' /\ Grows
  <2>1. FilesAreTrue'
    BY <1>2 DEF Inv, SharedInv, FilesAreTrue
  <2>2. /\ file' \in [Paths -> Payloads \union Artifacts \union {None}]
        /\ synced \subseteq synced' /\ synced' \subseteq Paths
    BY <1>2, <1>3 DEF Inv, SharedInv
  <2> QED BY <1>2, <2>1, <2>2, FilesGrow DEF Inv
<1>5. PICK d : d = [c EXCEPT !.pc = pc]
  OBVIOUS
<1>6. /\ d.pc = pc /\ d.publication = c.publication /\ d.observation = c.observation
      /\ d.payload = c.payload /\ d.answer = c.answer /\ d.vintage = c.vintage
      /\ d.source = c.source /\ d.hash = c.hash
  BY <1>1, <1>5 DEF LocalStates, RequestInv
<1>7. InFlight(c)'
  BY <1>1, <1>4, GrowsInFlight
<1>8. InFlight(d)'
  <2>1. CASE c.publication = None
    BY <1>1, <1>2, <1>6, <1>7, <2>1 DEF InFlight, StoreIsTrue, StorePcs
  <2>2. CASE c.publication # None
    BY <1>1, <1>2, <1>6, <1>7, <2>2 DEF InFlight, PublishIsTrue, PublishPcs
  <2> QED BY <2>1, <2>2
<1>9. InFlight([c EXCEPT !.pc = pc])'
  BY <1>5, <1>8, Zenon DEF InFlight, StoreIsTrue, PublishIsTrue, Publishable
<1>10. LocksTyped'
  BY <1>2 DEF Inv, LocksTyped
<1>11. PICK l \in Pcs \ {"idle"} : l = pc
  BY DEF Pcs
<1> HIDE DEF pc
<1> QED BY <1>1, <1>2, <1>4, <1>9, <1>10, <1>11, GotoKeeps

(***************************************************************************)
(* Steps of a publication.                                                 *)
(***************************************************************************)
\* A request that goes on with what the stored row says.
LEMMA WritesFromRow ==
  ASSUME Inv, SharedInv', Grows, NEW r \in Requests, req[r].pc = "reserve",
         NEW row, WriteFrom(r, row),
         publication'[req[r].publication].state # "ABSENT",
         row = publication'[req[r].publication]
  PROVE  Inv'
<1> PICK c : c = req[r]
  OBVIOUS
<1>1. /\ c \in LocalStates /\ RequestInv(c)
      /\ c.observation \in Observations /\ c.publication # None /\ PublishIsTrue(c)
  BY Publishing, Zenon
<1>2. c.publication \in Publications /\ c.answer = "none"
  BY <1>1 DEF PublishIsTrue, RequestInv, InFlight
<1>3. row.vintage \in 0 .. MaxVintage /\ row.source \in Observations
  BY <1>2, BoundAssumption DEF SharedInv, PublicationRows, NoPublication
<1>4. PICK d : d = [c EXCEPT !.pc = "artifact", !.vintage = row.vintage, !.source = row.source]
  OBVIOUS
<1>5. /\ d \in LocalStates /\ d.pc = "artifact" /\ d.publication = c.publication
      /\ d.observation = c.observation /\ d.answer = "none" /\ d.payload = c.payload
      /\ d.vintage = row.vintage /\ d.source = row.source
  <2> HIDE DEF Artifacts
  <2> QED BY <1>1, <1>2, <1>3, <1>4 DEF LocalStates, Pcs
<1>6. InFlight(d)'
  BY <1>1, <1>2, <1>5 DEF InFlight, PublishIsTrue, PublishPcs
<1>7. RequestInv(d)'
  BY <1>5, <1>6 DEF RequestInv
<1>8. req' = [req EXCEPT ![r] = d] /\ LocksTyped'
  BY <1>4 DEF WriteFrom, Persisted, Inv, ReqIsFunction, LocksTyped
<1> QED BY <1>7, <1>8, RequestMoves

LEMMA StagePublicationKeeps ==
  ASSUME Inv, NEW r \in Requests, StagePublication(r) PROVE Inv'
<1> PICK c : c = req[r]
  OBVIOUS
<1>1. /\ c \in LocalStates /\ RequestInv(c) /\ c.pc = "reserve"
      /\ c.observation \in Observations /\ c.publication # None /\ PublishIsTrue(c)
  BY Publishing, Zenon DEF StagePublication, At
<1>2. PICK q \in Publications : q = c.publication
  BY <1>1 DEF PublishIsTrue
<1>3. Publishable(c.observation) /\ PublishedAs[observation[c.observation].payload] = q
  BY <1>1, <1>2 DEF PublishIsTrue
<1>4. UNCHANGED <<observation, normalized, file, synced>>
  BY DEF StagePublication, files
<1>5. CASE publication[q].state = "ABSENT"
  <2>1. PICK n \in 1 .. MaxVintage :
          LET row == [state |-> "STAGING", vintage |-> n, source |-> c.observation,
                      hash |-> None]
          IN  /\ NextVintage(n, KeyOf[q])
              /\ publication' = [publication EXCEPT ![q] = row]
              /\ WriteFrom(r, row)
    BY <1>2, <1>5 DEF StagePublication
  <2>2. SharedInv' /\ Grows
    BY <1>1, <1>3, <1>4, <1>5, <2>1, StagedRowKeeps DEF Inv
  <2>3. PICK row : row = [state |-> "STAGING", vintage |-> n, source |-> c.observation,
                          hash |-> None]
    OBVIOUS
  <2>4. publication'[q] = row /\ row.state # "ABSENT"
    BY <2>1, <2>3 DEF Inv, SharedInv
  <2> QED BY <1>1, <1>2, <2>1, <2>2, <2>3, <2>4, WritesFromRow
<1>6. CASE publication[q].state # "ABSENT"
  <2>1. /\ UNCHANGED publication
        /\ WriteFrom(r, publication[q])
             \/ /\ publication[q].state = "COMMITTED"
                /\ Answer(r, IF file[q] = publication[q].hash THEN "published" ELSE "corrupted")
    BY <1>2, <1>6 DEF StagePublication
  <2>2. SharedInv' /\ Grows
    BY <1>4, <2>1, StillGrows DEF Inv, rows, files
  <2>3. CASE WriteFrom(r, publication[q])
    <3>1. PICK row : row = publication[q]
      OBVIOUS
    <3> QED BY <1>1, <1>2, <1>6, <2>1, <2>2, <2>3, <3>1, WritesFromRow
  <2>4. CASE publication[q].state = "COMMITTED" /\ ~WriteFrom(r, publication[q])
    <3>1. Answer(r, "published")
      BY <2>1, <2>4 DEF Inv, SharedInv, CommittedIsDurable
    <3> QED BY <2>2, <3>1, AnswerKeeps DEF Answers
  <2> QED BY <2>1, <2>3, <2>4
<1> QED BY <1>5, <1>6

LEMMA FindArtifactKeeps ==
  ASSUME Inv, NEW r \in Requests, FindArtifact(r) PROVE Inv'
<1> PICK c : c = req[r]
  OBVIOUS
<1>1. /\ c \in LocalStates /\ RequestInv(c) /\ c.pc = "artifact"
      /\ c.observation \in Observations /\ c.publication # None /\ PublishIsTrue(c)
  BY Publishing, Zenon DEF FindArtifact, At
<1>2. c.publication \in Publications /\ c.answer = "none"
  BY <1>1 DEF PublishIsTrue, RequestInv, InFlight
<1>3. SharedInv' /\ Grows /\ LocksTyped'
  BY StillGrows DEF FindArtifact, Inv, LocksTyped
<1>4. UNCHANGED <<observation, normalized, publication, file, synced>>
  BY DEF FindArtifact, rows, files
<1>5. PICK h : h = file[c.publication]
  OBVIOUS
<1>6. h \in Artifacts \union {None}
  BY <1>2, <1>5 DEF Inv, SharedInv, FilesAreTrue
<1>7. PICK d : d = [c EXCEPT !.pc = IF h = None THEN "link" ELSE "sync", !.hash = h]
  OBVIOUS
<1>8. /\ d \in LocalStates /\ d.pc = (IF h = None THEN "link" ELSE "sync") /\ d.hash = h
      /\ d.publication = c.publication /\ d.observation = c.observation /\ d.answer = "none"
      /\ d.vintage = c.vintage /\ d.source = c.source
  <2> HIDE DEF Artifacts
  <2> QED BY <1>1, <1>2, <1>6, <1>7 DEF LocalStates, Pcs
<1>9. InFlight(d)'
  BY <1>1, <1>2, <1>4, <1>5, <1>8 DEF InFlight, PublishIsTrue, PublishPcs
<1>10. RequestInv(d)'
  BY <1>8, <1>9 DEF RequestInv
<1>11. req' = [req EXCEPT ![r] = d]
  BY <1>5, <1>7 DEF FindArtifact, Inv, ReqIsFunction
<1> QED BY <1>3, <1>10, <1>11, RequestMoves

LEMMA LinkArtifactKeeps ==
  ASSUME Inv, NEW r \in Requests, LinkArtifact(r) PROVE Inv'
<1> PICK c : c = req[r]
  OBVIOUS
<1>1. /\ c \in LocalStates /\ RequestInv(c) /\ c.pc = "link"
      /\ c.observation \in Observations /\ c.publication # None /\ PublishIsTrue(c)
  BY Publishing, Zenon DEF LinkArtifact, At
<1>2. PICK q \in Publications : q = c.publication
  BY <1>1 DEF PublishIsTrue
<1>3. /\ publication[q].state # "ABSENT" /\ c.answer = "none"
      /\ c.vintage = publication[q].vintage /\ c.source = publication[q].source
  BY <1>1, <1>2 DEF PublishIsTrue, RequestInv, InFlight
<1>4. PICK e \in Encodings :
        LET bytes == [vintage |-> c.vintage, source |-> c.source, encoding |-> e] IN
        /\ Link(q, bytes)
        /\ IF file[q] \in {None, bytes}
             THEN /\ req' = [req EXCEPT ![r].pc = "sync", ![r].hash = bytes]
                  /\ UNCHANGED lock
             ELSE Answer(r, "conflict")
  BY <1>2 DEF LinkArtifact
<1>5. PICK bytes : bytes = [vintage |-> c.vintage, source |-> c.source, encoding |-> e]
  OBVIOUS
<1>6. c.vintage \in 1 .. MaxVintage /\ c.source \in Observations
  <2>1. publication[q] \in [state : {"STAGING", "COMMITTED"}, vintage : 1 .. MaxVintage,
                            source : Observations, hash : Artifacts \union {None}]
    BY <1>3 DEF Inv, SharedInv, PublicationRows, NoPublication
  <2> QED BY <1>3, <2>1
<1>7. /\ bytes \in Artifacts /\ bytes # None
      /\ bytes.vintage = c.vintage /\ bytes.source = c.source
  BY <1>5, <1>6, NoneAssumption DEF Artifacts
<1>8. /\ UNCHANGED <<observation, normalized, publication, synced>>
      /\ file' = IF file[q] = None THEN [file EXCEPT ![q] = bytes] ELSE file
  BY <1>4, <1>5 DEF Link, LinkArtifact, rows
<1>9. /\ q \in Paths /\ q \notin Payloads
      /\ file \in [Paths -> Payloads \union Artifacts \union {None}]
  BY DisjointAssumption DEF Paths, Inv, SharedInv
<1>10. /\ file' \in [Paths -> Payloads \union Artifacts \union {None}]
       /\ \A x \in Paths : x # q => file'[x] = file[x]
       /\ file'[q] = IF file[q] = None THEN bytes ELSE file[q]
  <2> HIDE DEF Artifacts
  <2> QED BY <1>7, <1>8, <1>9
<1>11. FilesAreTrue'
  <2> HIDE DEF Artifacts
  <2>1. \A v \in Payloads : file'[v] \in {v, None}
    BY <1>9, <1>10 DEF Inv, SharedInv, FilesAreTrue, Paths
  <2>2. ASSUME NEW x \in Publications, file'[x] # None
        PROVE  /\ publication'[x].state # "ABSENT" /\ file'[x] \in Artifacts
               /\ file'[x].vintage = publication'[x].vintage
               /\ file'[x].source = publication'[x].source
    BY <1>3, <1>7, <1>8, <1>9, <1>10, <2>2 DEF Inv, SharedInv, FilesAreTrue, Paths
  <2> QED BY <2>1, <2>2 DEF FilesAreTrue
<1>12. SharedInv' /\ Grows
  <2>1. synced \subseteq synced' /\ synced' \subseteq Paths
    BY <1>8 DEF Inv, SharedInv
  <2> QED BY <1>8, <1>9, <1>10, <1>11, <2>1, FilesGrow DEF Inv
<1>13. CASE file[q] \in {None, bytes}
  <2>1. PICK d : d = [c EXCEPT !.pc = "sync", !.hash = bytes]
    OBVIOUS
  <2>2. /\ d \in LocalStates /\ d.pc = "sync" /\ d.hash = bytes
        /\ d.publication = q /\ d.observation = c.observation /\ d.answer = "none"
        /\ d.vintage = c.vintage /\ d.source = c.source
    <3> HIDE DEF Artifacts
    <3> QED BY <1>1, <1>2, <1>3, <1>7, <2>1 DEF LocalStates, Pcs
  <2>3. InFlight(d)'
    BY <1>1, <1>2, <1>3, <1>7, <1>8, <1>10, <1>13, <2>2 DEF InFlight, PublishIsTrue, PublishPcs
  <2>4. RequestInv(d)'
    BY <2>2, <2>3 DEF RequestInv
  <2>5. req' = [req EXCEPT ![r] = d] /\ LocksTyped'
    BY <1>4, <1>5, <1>13, <2>1 DEF Inv, ReqIsFunction, LocksTyped
  <2> QED BY <1>12, <2>4, <2>5, RequestMoves
<1>14. CASE file[q] \notin {None, bytes}
  <2>1. Answer(r, "conflict")
    BY <1>4, <1>5, <1>14
  <2>2. PICK f \in Artifacts : f = file[q] /\ f.vintage = c.vintage /\ f.source = c.source
    BY <1>3, <1>14 DEF Inv, SharedInv, FilesAreTrue
  <2>3. f.encoding \in Encodings /\ f.encoding # e
    BY <1>5, <1>14, <2>2 DEF Artifacts
  <2>4. Conflicts(req[r])
    BY <1>1, <2>3 DEF Conflicts
  <2> QED BY <1>12, <2>1, <2>4, AnswerKeeps DEF Answers
<1> QED BY <1>13, <1>14

LEMMA ReadBackKeeps ==
  ASSUME Inv, NEW r \in Requests, ReadBack(r) PROVE Inv'
<1> PICK c : c = req[r]
  OBVIOUS
<1>1. /\ c \in LocalStates /\ RequestInv(c) /\ c.pc = "readback"
      /\ c.observation \in Observations /\ c.publication # None /\ PublishIsTrue(c)
  BY Publishing, Zenon DEF ReadBack, At
<1>2. /\ c.publication \in Publications /\ publication[c.publication].state # "ABSENT"
      /\ c.vintage = publication[c.publication].vintage
      /\ c.source = publication[c.publication].source
      /\ c.hash # None /\ file[c.publication] = c.hash /\ c.publication \in synced
      /\ c.answer = "none"
  BY <1>1 DEF PublishIsTrue, RequestInv, InFlight
<1>3. c.hash.vintage = c.vintage /\ c.hash.source = c.source
  BY <1>2 DEF Inv, SharedInv, FilesAreTrue
<1>4. Goto(r, "publish") /\ UNCHANGED <<rows, files, lock>>
  BY <1>2, <1>3 DEF ReadBack
<1>5. SharedInv' /\ Grows /\ LocksTyped'
  BY <1>4, StillGrows DEF Inv, LocksTyped
<1>6. PICK d : d = [c EXCEPT !.pc = "publish"]
  OBVIOUS
<1>7. /\ d.pc = "publish" /\ d.publication = c.publication /\ d.observation = c.observation
      /\ d.answer = "none" /\ d.vintage = c.vintage /\ d.source = c.source /\ d.hash = c.hash
  BY <1>1, <1>2, <1>6 DEF LocalStates
<1>8. UNCHANGED <<observation, normalized, publication, file, synced>>
  BY <1>4 DEF rows, files
<1>9. InFlight(d)'
  BY <1>1, <1>2, <1>7, <1>8 DEF InFlight, PublishIsTrue, PublishPcs
<1>10. InFlight([c EXCEPT !.pc = "publish"])'
  BY <1>6, <1>9, Zenon DEF InFlight, StoreIsTrue, PublishIsTrue, Publishable
<1> QED BY <1>1, <1>4, <1>5, <1>10, GotoKeeps DEF Pcs

LEMMA CommitPublicationKeeps ==
  ASSUME Inv, NEW r \in Requests, CommitPublication(r) PROVE Inv'
<1> PICK c : c = req[r]
  OBVIOUS
<1>1. /\ c \in LocalStates /\ RequestInv(c) /\ c.pc = "publish"
      /\ c.observation \in Observations /\ c.publication # None /\ PublishIsTrue(c)
  BY Publishing, Zenon DEF CommitPublication, At
<1>2. /\ c.publication \in Publications /\ publication[c.publication].state # "ABSENT"
      /\ c.hash # None /\ file[c.publication] = c.hash /\ c.publication \in synced
  BY <1>1 DEF PublishIsTrue
<1>3. PICK q, h : q \in Publications /\ q = c.publication /\ h = c.hash
  BY <1>2
<1>4. UNCHANGED <<observation, normalized, file, synced>>
  BY DEF CommitPublication, files
<1>5. CASE publication[q].state = "STAGING"
  <2>1. /\ publication' = [publication EXCEPT ![q] = CommittedRow(publication[q], h)]
        /\ Answer(r, "published")
    BY <1>2, <1>3, <1>5 DEF CommitPublication
  <2>2. SharedInv' /\ Grows
    BY <1>2, <1>3, <1>4, <1>5, <2>1, CommittedRowKeeps DEF Inv
  <2> QED BY <2>1, <2>2, AnswerKeeps DEF Answers
<1>6. CASE publication[q].state # "STAGING"
  <2>1. publication[q].state = "COMMITTED"
    BY <1>2, <1>3, <1>6 DEF Inv, SharedInv, PublicationRows, NoPublication
  <2>2. publication[q].hash = h
    BY <1>2, <1>3, <2>1 DEF Inv, SharedInv, CommittedIsDurable
  <2>3. UNCHANGED publication /\ Answer(r, "published")
    BY <1>2, <1>3, <1>6, <2>2 DEF CommitPublication
  <2>4. SharedInv' /\ Grows
    BY <1>4, <2>3, StillGrows DEF Inv, rows, files
  <2> QED BY <2>3, <2>4, AnswerKeeps DEF Answers
<1> QED BY <1>5, <1>6

(***************************************************************************)
(* Requests arrive, wait and fail.                                         *)
(***************************************************************************)
LEMMA ArrivalKeeps ==
  ASSUME Inv, NEW r \in Requests, RequestObservation(r) \/ RequestPublication(r) PROVE Inv'
<1> PICK fresh : fresh = IdleRequest
  OBVIOUS
<1>0. fresh \in LocalStates /\ fresh.publication = None /\ fresh.answer = "none"
  BY BoundAssumption DEF IdleRequest, LocalStates, Pcs, Answers
<1>1. SharedInv' /\ Grows /\ LocksTyped'
  BY StillGrows DEF RequestObservation, RequestPublication, Inv, LocksTyped
<1>2. UNCHANGED <<observation, normalized, publication, file, synced>>
  BY DEF RequestObservation, RequestPublication, rows, files
<1>3. CASE RequestObservation(r)
  <2>1. PICK o \in Observations, v \in Payloads :
          req' = [req EXCEPT ![r] =
                    [IdleRequest EXCEPT !.pc = "lock", !.observation = o, !.payload = v]]
    BY <1>3 DEF RequestObservation
  <2>2. PICK d : d = [IdleRequest EXCEPT !.pc = "lock", !.observation = o, !.payload = v]
    OBVIOUS
  <2>3. /\ d \in LocalStates /\ d.pc = "lock" /\ d.observation = o /\ d.payload = v
        /\ d.publication = None /\ d.answer = "none"
    <3>1. PICK e : e = [fresh EXCEPT !.pc = "lock"]
      OBVIOUS
    <3> HIDE DEF Artifacts, IdleRequest
    <3>2. e \in LocalStates /\ e.pc = "lock" /\ e.publication = None /\ e.answer = "none"
      BY <1>0, <3>1 DEF LocalStates, Pcs
    <3>3. d = [e EXCEPT !.observation = o, !.payload = v]
      BY <1>0, <2>2, <3>1 DEF LocalStates
    <3> QED BY <2>1, <3>2, <3>3 DEF LocalStates
  <2>4. InFlight(d)'
    BY <2>3 DEF InFlight, StoreIsTrue, StorePcs
  <2>5. RequestInv(d)'
    BY <2>3, <2>4 DEF RequestInv
  <2> QED BY <1>1, <2>1, <2>2, <2>5, RequestMoves
<1>4. CASE RequestPublication(r)
  <2>1. PICK o \in Observations :
          /\ Publishable(o)
          /\ req' = [req EXCEPT ![r] =
                       [IdleRequest EXCEPT !.pc = "reserve", !.observation = o,
                          !.publication = PublishedAs[observation[o].payload]]]
    BY <1>4 DEF RequestPublication
  <2>2. PICK q : q = PublishedAs[observation[o].payload]
    OBVIOUS
  <2>3. q \in Publications /\ q # None
    <3>1. observation[o].payload \in Payloads
      BY <2>1 DEF Publishable, Inv, SharedInv, ObservationRows, NoObservation
    <3> QED BY <2>2, <3>1, PublishedAsAssumption, NoneAssumption
  <2>4. PICK d : d = [IdleRequest EXCEPT !.pc = "reserve", !.observation = o, !.publication = q]
    OBVIOUS
  <2>5. /\ d \in LocalStates /\ d.pc = "reserve" /\ d.observation = o
        /\ d.publication = q /\ d.answer = "none"
    <3>1. PICK e : e = [fresh EXCEPT !.pc = "reserve"]
      OBVIOUS
    <3> HIDE DEF Artifacts, IdleRequest
    <3>2. e \in LocalStates /\ e.pc = "reserve" /\ e.publication = None /\ e.answer = "none"
      BY <1>0, <3>1 DEF LocalStates, Pcs
    <3>3. d = [e EXCEPT !.observation = o, !.publication = q]
      BY <1>0, <2>4, <3>1 DEF LocalStates
    <3> QED BY <2>1, <2>3, <3>2, <3>3 DEF LocalStates
  <2>6. InFlight(d)'
    BY <1>2, <2>1, <2>2, <2>3, <2>5 DEF InFlight, PublishIsTrue, Publishable, PublishPcs
  <2>7. RequestInv(d)'
    BY <2>5, <2>6 DEF RequestInv
  <2> QED BY <1>1, <2>1, <2>2, <2>4, <2>7, RequestMoves
<1> QED BY <1>3, <1>4

LEMMA AcquireLockKeeps ==
  ASSUME Inv, NEW r \in Requests, AcquireLock(r) PROVE Inv'
<1> PICK c : c = req[r]
  OBVIOUS
<1>1. /\ c \in LocalStates /\ RequestInv(c) /\ c.pc = "lock"
      /\ c.observation \in Observations /\ c.publication = None /\ StoreIsTrue(c)
  BY Storing, Zenon DEF AcquireLock, At
<1>2. SharedInv' /\ Grows /\ LocksTyped'
  BY StillGrows DEF AcquireLock, Inv, LocksTyped
<1>3. PICK d : d = [c EXCEPT !.pc = "stage"]
  OBVIOUS
<1>4. /\ d.pc = "stage" /\ d.publication = None /\ d.observation = c.observation
      /\ d.payload = c.payload /\ d.answer = "none"
  BY <1>1, <1>3 DEF LocalStates, RequestInv, InFlight
<1>5. InFlight(d)'
  BY <1>1, <1>4 DEF InFlight, StoreIsTrue, StorePcs
<1>6. InFlight([c EXCEPT !.pc = "stage"])'
  BY <1>3, <1>5, Zenon DEF InFlight, StoreIsTrue, PublishIsTrue, Publishable
<1>7. Goto(r, "stage")
  BY DEF AcquireLock
<1> QED BY <1>1, <1>2, <1>6, <1>7, GotoKeeps DEF Pcs

LEMMA FailsKeeps ==
  ASSUME Inv, NEW r \in Requests, Fails(r) PROVE Inv'
<1>1. SharedInv' /\ Grows
  BY StillGrows DEF Fails, Inv
<1> QED BY <1>1, AnswerKeeps DEF Fails, Answers

LEMMA ProcessDiesKeeps ==
  ASSUME Inv, NEW p \in Processes, ProcessDies(p) PROVE Inv'
<1>1. SharedInv' /\ Grows /\ LocksTyped'
  BY StillGrows DEF ProcessDies, Inv, LocksTyped
<1>2. ReqIsFunction'
  BY DEF ProcessDies, ReqIsFunction
<1>3. ASSUME NEW r \in Requests PROVE RequestInv(req[r])'
  <2>1. PICK d : d = req'[r]
    OBVIOUS
  <2>2. RequestInv(d)
    BY <2>1, IdleInv DEF ProcessDies, Inv, EveryRequest
  <2>3. RequestInv(d)'
    BY <1>1, <2>2, GrowsRequest
  <2> QED BY <2>1, <2>3, Zenon DEF RequestInv, Refused, InFlight, StoreIsTrue, PublishIsTrue, Publishable
<1> QED BY <1>1, <1>2, <1>3 DEF Inv, EveryRequest

\* A power failure takes files that no committed row names, and every request.
LEMMA PowerFailsKeeps ==
  ASSUME Inv, PowerFails PROVE Inv'
<1>1. PICK kept \in SUBSET {x \in Paths \ synced : file[x] # None} :
        file' = [x \in Paths |-> IF x \in synced \union kept THEN file[x] ELSE None]
  BY DEF PowerFails
<1>2. UNCHANGED <<observation, normalized, publication, synced>>
  BY DEF PowerFails, rows
<1>3. /\ file' \in [Paths -> Payloads \union Artifacts \union {None}]
      /\ \A x \in Paths : file'[x] \in {file[x], None}
      /\ \A x \in synced : file'[x] = file[x]
  BY <1>1 DEF Inv, SharedInv
<1>4. CommittedIsDurable'
  BY <1>2, <1>3 DEF Inv, SharedInv, CommittedIsDurable
<1>5. FilesAreTrue'
  BY <1>2, <1>3 DEF Inv, SharedInv, FilesAreTrue, Paths
<1>6. VintagesAreDistinct' /\ RowsAreSound'
  BY <1>2 DEF Inv, SharedInv, VintagesAreDistinct, Vintages, RowsAreSound, Publishable
<1>7. SharedInv'
  BY <1>2, <1>3, <1>4, <1>5, <1>6 DEF Inv, SharedInv
<1>8. ReqIsFunction' /\ LocksTyped'
  BY DEF PowerFails, ReqIsFunction, LocksTyped
<1>9. ASSUME NEW r \in Requests PROVE RequestInv(req[r])'
  <2>1. PICK d : d = IdleRequest
    OBVIOUS
  <2>2. RequestInv(d) /\ d.pc = "idle" /\ d.answer = "none"
    BY <2>1, IdleInv DEF IdleRequest
  <2>3. RequestInv(d)'
    BY <2>2 DEF RequestInv, Refused
  <2>4. req'[r] = d
    BY <2>1 DEF PowerFails
  <2> QED BY <2>3, <2>4, Zenon DEF RequestInv, Refused, InFlight, StoreIsTrue, PublishIsTrue, Publishable
<1> QED BY <1>7, <1>8, <1>9 DEF Inv, EveryRequest

(***************************************************************************)
(* The invariant.                                                          *)
(***************************************************************************)
LEMMA InitInv == Init => Inv
<1> SUFFICES ASSUME Init PROVE Inv
  OBVIOUS
<1>1. /\ observation \in [Observations -> ObservationRows]
      /\ publication \in [Publications -> PublicationRows]
      /\ \A o \in Observations : observation[o].state = "ABSENT"
      /\ \A q \in Publications : /\ publication[q].state = "ABSENT" /\ publication[q].vintage = 0
                                 /\ publication[q].hash = None
  BY DEF Init, ObservationRows, PublicationRows, NoObservation, NoPublication
<1>2. \A x \in Paths : file[x] = None
  BY DEF Init
<1>3. CommittedIsDurable /\ VintagesAreDistinct /\ RowsAreSound
  BY <1>1 DEF CommittedIsDurable, VintagesAreDistinct, RowsAreSound
<1>4. FilesAreTrue
  BY <1>2 DEF FilesAreTrue, Paths
<1>5. SharedInv
  BY <1>1, <1>3, <1>4 DEF SharedInv, Init
<1>6. EveryRequest
  BY IdleInv DEF Init, EveryRequest
<1> QED BY <1>5, <1>6 DEF Inv, ReqIsFunction, LocksTyped, Init

LEMMA InvNext == Inv /\ [Next]_vars => Inv'
<1> SUFFICES ASSUME Inv, [Next]_vars PROVE Inv'
  OBVIOUS
<1>1. ASSUME NEW r \in Requests, Step(r) PROVE Inv'
  BY <1>1, AcquireLockKeeps, StageObservationKeeps, PublishBlobKeeps, CommitObservationKeeps,
     StagePublicationKeeps, FindArtifactKeeps, LinkArtifactKeeps, SyncDirectoryKeeps,
     ReadBackKeeps, CommitPublicationKeeps DEF Step
<1>2. ASSUME NEW r \in Requests,
             \/ RequestObservation(r) \/ NormalizeObservation(r) \/ RequestPublication(r)
             \/ Fails(r)
      PROVE  Inv'
  BY <1>2, ArrivalKeeps, NormalizeObservationKeeps, FailsKeeps
<1>3. CASE UNCHANGED vars
  <2>1. UNCHANGED <<rows, files>> /\ UNCHANGED <<lock, req>>
    BY <1>3 DEF vars
  <2>2. SharedInv' /\ Grows /\ LocksTyped' /\ ReqIsFunction'
    BY <2>1, StillGrows DEF Inv, LocksTyped, ReqIsFunction
  <2>3. ASSUME NEW r \in Requests PROVE RequestInv(req[r])'
    <3>1. PICK d : d = req[r]
      OBVIOUS
    <3>2. RequestInv(d)' /\ req'[r] = d
      BY <2>1, <2>2, <3>1, GrowsRequest DEF Inv, EveryRequest
    <3> QED BY <3>2, Zenon DEF RequestInv, Refused, InFlight, StoreIsTrue, PublishIsTrue, Publishable
  <2> QED BY <2>2, <2>3 DEF Inv, EveryRequest
<1> QED BY <1>1, <1>2, <1>3, ProcessDiesKeeps, PowerFailsKeeps DEF Next

LEMMA Invariant == Spec => []Inv
BY InitInv, InvNext, PTL DEF Spec

\* What a request has found stays true until it commits, whoever writes beside it
\* and whatever dies: the inductive invariant of the Fact Lake.
THEOREM LakeInvariant == Spec => []LakeInv
BY Invariant, InvSplits, PTL

\* Every reachable state of the Fact Lake has the declared types, and exactly the
\* COMMITTED publications carry a hash.
THEOREM LakeTypes == Spec => []TypeOK
<1>1. LakeInv => TypeOK
  BY DEF LakeInv
<1> QED BY <1>1, LakeInvariant, PTL

\* A COMMITTED row has its bytes, whole and durable, after any crash of any
\* process and of the machine (fact_lake_store.py:1216-1281, 1939-2009).
THEOREM CommittedStaysDurable == Spec => []CommittedIsDurable
<1>1. LakeInv => CommittedIsDurable
  BY DEF LakeInv
<1> QED BY <1>1, LakeInvariant, PTL

\* The artifact of a COMMITTED publication agrees with its row, and the row with
\* committed and normalized evidence, whoever finished whose publication.
THEOREM ManifestsMatch == Spec => []ManifestMatchesArtifact
<1>1. LakeInv => ManifestMatchesArtifact
  <2> SUFFICES ASSUME LakeInv, NEW q \in Publications, publication[q].state = "COMMITTED"
               PROVE  /\ publication[q].hash.vintage = publication[q].vintage
                      /\ publication[q].hash.source = publication[q].source
                      /\ Publishable(publication[q].source)
                      /\ PublishedAs[observation[publication[q].source].payload] = q
    BY DEF ManifestMatchesArtifact
  <2>1. file[q] = publication[q].hash /\ publication[q].hash # None
    BY DEF LakeInv, TypeOK, CommittedIsDurable
  <2>2. file[q].vintage = publication[q].vintage /\ file[q].source = publication[q].source
    BY <2>1 DEF LakeInv, FilesAreTrue
  <2> QED BY <2>1, <2>2 DEF LakeInv, RowsAreSound
<1> QED BY <1>1, LakeInvariant, PTL

\* However publications of one key race, their vintages are distinct and have no
\* gap (fact_lake_store.py:1875-1879).
THEOREM VintagesStayDistinct == Spec => []VintagesAreDistinct
<1>1. LakeInv => VintagesAreDistinct
  BY DEF LakeInv
<1> QED BY <1>1, LakeInvariant, PTL

\* No crash leaves anything behind that a later request is refused for.
THEOREM RefusalsStayEarned == Spec => []RefusalsAreEarned
<1>1. LakeInv => RefusalsAreEarned
  BY DEF LakeInv
<1> QED BY <1>1, LakeInvariant, PTL

(***************************************************************************)
(* The refinement.  What a verified read returns is what the row says, so  *)
(* only the commits of rows are steps of the archive.                      *)
(***************************************************************************)
Items == Observations \union Publications

Recorded(i) ==
  IF i \in Observations
    THEN IF observation[i].state = "COMMITTED" THEN observation[i].payload ELSE None
    ELSE IF publication[i].state = "COMMITTED" THEN publication[i].hash ELSE None

AsRecorded == \A i \in Items : Archived(i) = Recorded(i)

LEMMA ArchivedIsRecorded == Inv => AsRecorded
BY DEF AsRecorded, Inv, SharedInv, CommittedIsDurable, Archived, ReadPayload, ReadArtifact, Recorded, Items

LEMMA ArchiveUnchanged ==
  ASSUME Inv, Inv', \A i \in Items : Recorded(i)' = Recorded(i)
  PROVE  UNCHANGED [i \in Observations \union Publications |-> Archived(i)]
<1>1. \A i \in Items : Archived(i) = Recorded(i)
  BY ArchivedIsRecorded DEF AsRecorded
<1>2. \A i \in Items : Archived(i)' = Recorded(i)'
  <2>1. AsRecorded'
    BY ArchivedIsRecorded, PTL
  <2> QED BY <2>1 DEF AsRecorded, Items
<1> QED BY <1>1, <1>2 DEF Items

\* Item i alone gets its content.
LEMMA ArchiveGrows ==
  ASSUME Inv, Inv', NEW i \in Items, Recorded(i) = None,
         Recorded(i)' \in Payloads \union Artifacts,
         \A j \in Items : j # i => Recorded(j)' = Recorded(j)
  PROVE  Archive!Next
<1>1. \A j \in Items : Archived(j) = Recorded(j)
  BY ArchivedIsRecorded DEF AsRecorded
<1>2. \A j \in Items : Archived(j)' = Recorded(j)'
  <2>1. AsRecorded'
    BY ArchivedIsRecorded, PTL
  <2> QED BY <2>1 DEF AsRecorded, Items
<1>3. Archived(i) = None /\ Archived(i)' \in Payloads \union Artifacts
  BY <1>1, <1>2
<1>4. \A j \in Items : j # i => Archived(j)' = Archived(j)
  BY <1>1, <1>2
<1> DEFINE archived == [j \in Observations \union Publications |-> Archived(j)]
           later == [j \in Observations \union Publications |-> Archived(j)']
<1>5. later = [archived EXCEPT ![i] = later[i]]
  BY <1>4 DEF Items
<1>6. archived[i] = None /\ later[i] \in Payloads \union Artifacts
  BY <1>3 DEF Items
<1>7. Archive!Archive(i)
  BY <1>5, <1>6 DEF Archive!Archive
<1> QED BY <1>7 DEF Archive!Next, Items

ArchiveSteps == UNCHANGED [i \in Observations \union Publications |-> Archived(i)] \/ Archive!Next

\* A row that is staged is not read yet.
LEMMA StagingArchivesNothing ==
  ASSUME Inv, Inv', NEW r \in Requests, StageObservation(r) \/ StagePublication(r)
  PROVE  ArchiveSteps
<1>1. CASE StageObservation(r)
  <2>1. PICK o : o = req[r].observation
    OBVIOUS
  <2>2. /\ UNCHANGED publication
        /\ \/ UNCHANGED observation
           \/ /\ observation[o].state = "ABSENT"
              /\ \E row : /\ row.state = "STAGING"
                         /\ observation' = [observation EXCEPT ![o] = row]
    <3>1. PICK row : row = [state |-> "STAGING", payload |-> req[r].payload]
      OBVIOUS
    <3>2. row.state = "STAGING"
      BY <3>1
    <3> QED BY <1>1, <2>1, <3>1, <3>2 DEF StageObservation
  <2>3. \A x \in Observations : observation'[x] = observation[x]
          \/ (observation'[x].state # "COMMITTED" /\ observation[x].state # "COMMITTED")
    <3>1. observation \in [Observations -> ObservationRows]
      BY DEF Inv, SharedInv
    <3>2. ASSUME NEW row, row.state = "STAGING", observation[o].state = "ABSENT",
                 observation' = [observation EXCEPT ![o] = row],
                 NEW x \in Observations
          PROVE  observation'[x] = observation[x]
                   \/ (observation'[x].state # "COMMITTED" /\ observation[x].state # "COMMITTED")
      <4>1. x = o => observation'[x] = row
        BY <3>1, <3>2
      <4>2. x # o => observation'[x] = observation[x]
        BY <3>1, <3>2
      <4> QED BY <3>2, <4>1, <4>2
    <3> QED BY <2>2, <3>2
  <2>4. \A i \in Items : Recorded(i)' = Recorded(i)
    BY <2>2, <2>3 DEF Recorded
  <2> QED BY <2>4, ArchiveUnchanged DEF ArchiveSteps
<1>2. CASE StagePublication(r)
  <2>1. PICK q : q = req[r].publication
    OBVIOUS
  <2>2. /\ UNCHANGED observation
        /\ \/ UNCHANGED publication
           \/ /\ publication[q].state = "ABSENT"
              /\ \E row : /\ row.state = "STAGING"
                         /\ publication' = [publication EXCEPT ![q] = row]
    <3>1. CASE publication[q].state = "ABSENT"
      <4>1. PICK n \in 1 .. MaxVintage :
              publication' = [publication EXCEPT ![q] =
                                [state |-> "STAGING", vintage |-> n,
                                 source |-> req[r].observation, hash |-> None]]
        BY <1>2, <2>1, <3>1 DEF StagePublication
      <4>2. PICK row : row = [state |-> "STAGING", vintage |-> n,
                              source |-> req[r].observation, hash |-> None]
        OBVIOUS
      <4>3. row.state = "STAGING"
        BY <4>2
      <4>4. publication' = [publication EXCEPT ![q] = row]
        BY <4>1, <4>2
      <4>5. UNCHANGED observation
        BY <1>2 DEF StagePublication
      <4> QED BY <3>1, <4>3, <4>4, <4>5
    <3>2. CASE publication[q].state # "ABSENT"
      BY <1>2, <2>1, <3>2 DEF StagePublication
    <3> QED BY <3>1, <3>2
  <2>3. \A x \in Publications : publication'[x] = publication[x]
          \/ (publication'[x].state # "COMMITTED" /\ publication[x].state # "COMMITTED")
    <3>1. publication \in [Publications -> PublicationRows]
      BY DEF Inv, SharedInv
    <3>2. ASSUME NEW row, row.state = "STAGING", publication[q].state = "ABSENT",
                 publication' = [publication EXCEPT ![q] = row],
                 NEW x \in Publications
          PROVE  publication'[x] = publication[x]
                   \/ (publication'[x].state # "COMMITTED" /\ publication[x].state # "COMMITTED")
      <4>1. x = q => publication'[x] = row
        BY <3>1, <3>2
      <4>2. x # q => publication'[x] = publication[x]
        BY <3>1, <3>2
      <4> QED BY <3>2, <4>1, <4>2
    <3> QED BY <2>2, <3>2
  <2>4. \A i \in Items : Recorded(i)' = Recorded(i)
    BY <2>2, <2>3 DEF Recorded, Items
  <2> QED BY <2>4, ArchiveUnchanged DEF ArchiveSteps
<1> QED BY <1>1, <1>2

LEMMA CommitArchivesObservation ==
  ASSUME Inv, Inv', NEW r \in Requests, CommitObservation(r)
  PROVE  ArchiveSteps
<1>1. PICK o \in Observations : o = req[r].observation
  BY Storing DEF CommitObservation, At
<1>2. UNCHANGED <<publication, normalized>>
  BY DEF CommitObservation
<1>3. observation \in [Observations -> ObservationRows]
  BY DEF Inv, SharedInv
<1>4. CASE observation[o].state = "STAGING"
  <2>1. observation' = [observation EXCEPT ![o].state = "COMMITTED"]
    BY <1>1, <1>4 DEF CommitObservation
  <2>2. observation[o] \in [state : {"STAGING", "COMMITTED"}, payload : Payloads]
    BY <1>3, <1>4 DEF ObservationRows, NoObservation
  <2>3. /\ \A x \in Observations : x # o => observation'[x] = observation[x]
        /\ observation'[o].state = "COMMITTED"
        /\ observation'[o].payload = observation[o].payload
    BY <1>3, <2>1, <2>2
  <2>4. Recorded(o) = None /\ Recorded(o)' \in Payloads
    BY <1>4, <2>2, <2>3 DEF Recorded
  <2>5. \A j \in Items : j # o => Recorded(j)' = Recorded(j)
    BY <1>2, <2>3 DEF Recorded
  <2>6. o \in Items
    BY DEF Items
  <2> HIDE DEF Artifacts
  <2>7. Recorded(o)' \in Payloads \union Artifacts
    BY <2>4
  <2> QED BY <2>4, <2>5, <2>6, <2>7, ArchiveGrows DEF ArchiveSteps
<1>5. CASE observation[o].state # "STAGING"
  <2>1. UNCHANGED observation
    BY <1>1, <1>5 DEF CommitObservation
  <2>2. \A i \in Items : Recorded(i)' = Recorded(i)
    BY <1>2, <2>1 DEF Recorded
  <2> QED BY <2>2, ArchiveUnchanged DEF ArchiveSteps
<1> QED BY <1>4, <1>5

LEMMA CommitArchivesPublication ==
  ASSUME Inv, Inv', NEW r \in Requests, CommitPublication(r)
  PROVE  ArchiveSteps
<1>1. /\ req[r].pc = "publish" /\ PublishIsTrue(req[r])
  BY Publishing DEF CommitPublication, At
<1>2. PICK q, h : /\ q \in Publications /\ q = req[r].publication /\ h = req[r].hash
                 /\ h # None /\ file[q] = h
  BY <1>1 DEF PublishIsTrue
<1>3. UNCHANGED <<observation, normalized>>
  BY DEF CommitPublication
<1>4. publication \in [Publications -> PublicationRows] /\ h \in Artifacts
      /\ q \notin Observations
  BY <1>2, DisjointAssumption DEF Inv, SharedInv, FilesAreTrue
<1>5. CASE publication[q].state = "STAGING"
  <2>1. publication' = [publication EXCEPT ![q] = CommittedRow(publication[q], h)]
    BY <1>2, <1>5 DEF CommitPublication
  <2>2. PICK old : old = publication[q]
    OBVIOUS
  <2>3. old \in [state : {"STAGING", "COMMITTED"}, vintage : 1 .. MaxVintage,
                 source : Observations, hash : Artifacts \union {None}]
    BY <1>2, <1>4, <1>5, <2>2 DEF PublicationRows, NoPublication
  <2>4. PICK row : row = [old EXCEPT !.state = "COMMITTED", !.hash = h]
    OBVIOUS
  <2> HIDE DEF Artifacts
  <2>5. row.state = "COMMITTED" /\ row.hash = h
    BY <2>3, <2>4
  <2>6. /\ publication'[q] = row
        /\ \A x \in Publications : x # q => publication'[x] = publication[x]
    BY <1>2, <1>4, <2>1, <2>2, <2>4 DEF CommittedRow
  <2>7. Recorded(q) = None /\ Recorded(q)' = h
    BY <1>2, <1>4, <1>5, <2>5, <2>6 DEF Recorded
  <2>8. \A j \in Items : j # q => Recorded(j)' = Recorded(j)
    BY <1>3, <2>6 DEF Recorded, Items
  <2>9. q \in Items /\ h \in Payloads \union Artifacts
    BY <1>2, <1>4 DEF Items
  <2> QED BY <2>7, <2>8, <2>9, ArchiveGrows DEF ArchiveSteps
<1>6. CASE publication[q].state # "STAGING"
  <2>1. UNCHANGED publication
    BY <1>2, <1>6 DEF CommitPublication
  <2>2. \A i \in Items : Recorded(i)' = Recorded(i)
    BY <1>3, <2>1 DEF Recorded
  <2> QED BY <2>2, ArchiveUnchanged DEF ArchiveSteps
<1> QED BY <1>5, <1>6

LEMMA EveryStepArchives == Inv /\ Inv' /\ [Next]_vars => ArchiveSteps
<1> SUFFICES ASSUME Inv, Inv', [Next]_vars PROVE ArchiveSteps
  OBVIOUS
<1>1. ASSUME UNCHANGED <<observation, publication>> PROVE ArchiveSteps
  <2>1. \A i \in Items : Recorded(i)' = Recorded(i)
    BY <1>1 DEF Recorded
  <2> QED BY <2>1, ArchiveUnchanged DEF ArchiveSteps
<1>2. ASSUME NEW r \in Requests, Step(r) PROVE ArchiveSteps
  <2>1. CASE StageObservation(r) \/ StagePublication(r)
    BY <2>1, StagingArchivesNothing
  <2>2. CASE CommitObservation(r)
    BY <2>2, CommitArchivesObservation
  <2>3. CASE CommitPublication(r)
    BY <2>3, CommitArchivesPublication
  <2>4. CASE \/ AcquireLock(r) \/ PublishBlob(r) \/ FindArtifact(r) \/ LinkArtifact(r)
             \/ SyncDirectory(r) \/ ReadBack(r)
    <3>1. UNCHANGED <<observation, publication>>
      BY <2>4 DEF AcquireLock, PublishBlob, FindArtifact, LinkArtifact, SyncDirectory, ReadBack, rows
    <3> QED BY <1>1, <3>1
  <2> QED BY <1>2, <2>1, <2>2, <2>3, <2>4 DEF Step
<1>3. ASSUME NEW r \in Requests,
             \/ RequestObservation(r) \/ NormalizeObservation(r) \/ RequestPublication(r)
             \/ Fails(r)
      PROVE  ArchiveSteps
  <2>1. UNCHANGED <<observation, publication>>
    BY <1>3 DEF RequestObservation, NormalizeObservation, RequestPublication, Fails, rows
  <2> QED BY <1>1, <2>1
<1>4. ASSUME (\E p \in Processes : ProcessDies(p)) \/ PowerFails \/ UNCHANGED vars
      PROVE  ArchiveSteps
  <2>1. UNCHANGED <<observation, publication>>
    BY <1>4 DEF ProcessDies, PowerFails, vars, rows
  <2> QED BY <1>1, <2>1
<1> QED BY <1>2, <1>3, <1>4 DEF Next

\* Every behaviour of the write path is one of the abstract archive: an item is
\* archived once and reads the same for ever, through every crash.
THEOREM LakeImplementsArchive == Spec => ImplementsArchive
<1>1. Init => Archive!Init
  BY DEF Init, Archive!Init, Archived, ReadPayload, ReadArtifact, NoObservation, NoPublication
<1>2. Inv /\ Inv' /\ [Next]_vars
        => [Archive!Next]_([i \in Observations \union Publications |-> Archived(i)])
  BY EveryStepArchives DEF ArchiveSteps
<1> QED BY <1>1, <1>2, Invariant, PTL DEF Spec, ImplementsArchive, Archive!Spec

================================================================================
