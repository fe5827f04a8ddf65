-------------------------------- MODULE FactLake -------------------------------
(***************************************************************************)
(* The write path of the Fact Lake: raw observations and canonical         *)
(* publications.  A row of the control database says what is COMMITTED,    *)
(* the bytes are in files beside it.  No transaction spans both, so a      *)
(* writer stages the row, publishes the file without replacing another,    *)
(* makes its directory entry durable, and only then commits the row.       *)
(*                                                                         *)
(* Writers run in several processes.  _WRITE_LOCK orders those of one; of  *)
(* others a writer sees the database and the directory.  A file that is    *)
(* linked but not yet synced is seen by everybody and lost when the power  *)
(* fails.                                                                  *)
(***************************************************************************)
EXTENDS Naturals, FiniteSets

CONSTANTS
  Requests, Processes,
  ProcessOf,      \* the process each request runs in
  Observations,   \* observation ids
  Payloads,       \* what an observation says; its bytes are in the blob of its hash
  Publications,   \* publication ids, one per canonical state and artifact path
  PublishedAs,    \* the publication of the canonical fact of each payload
  Keys,
  KeyOf,          \* canonical key of each publication
  Encodings,      \* byte strings the Parquet writer may make of one record
  MaxVintage,     \* bound: last vintage of a key
  None

ASSUME ProcessOfAssumption == ProcessOf \in [Requests -> Processes]
ASSUME PublishedAsAssumption == PublishedAs \in [Payloads -> Publications]
ASSUME KeyOfAssumption == KeyOf \in [Publications -> Keys]
ASSUME DisjointAssumption ==
  /\ Observations \intersect Publications = {}
  /\ Payloads \intersect Publications = {}
ASSUME BoundAssumption == MaxVintage \in Nat

VARIABLES
  observation,   \* observations: commit_state and the rest of the row
  normalized,    \* observations with a normalization row
  publication,   \* canonical_publications: commit_state, vintage, source, hash
  file,          \* what each path of raw/ and canonical/ holds
  synced,        \* paths whose directory entry is durable
  lock,          \* _WRITE_LOCK of each process
  req            \* local state of each request

rows == <<observation, normalized, publication>>
files == <<file, synced>>
vars == <<rows, files, lock, req>>

\* The record in an artifact, as encoded; its hash tells two apart.
Artifacts == [vintage : 1 .. MaxVintage, source : Observations, encoding : Encodings]

ASSUME NoneAssumption ==
  None \notin Requests \union Payloads \union Observations \union Publications \union Artifacts

Paths == Payloads \union Publications

NoObservation == [state |-> "ABSENT", payload |-> None]
NoPublication == [state |-> "ABSENT", vintage |-> 0, source |-> None, hash |-> None]

IdleRequest ==
  [pc |-> "idle", observation |-> None, payload |-> None,
   publication |-> None, vintage |-> 0, source |-> None, hash |-> None, answer |-> "none"]

Init ==
  /\ observation = [o \in Observations |-> NoObservation]
  /\ normalized = {}
  /\ publication = [q \in Publications |-> NoPublication]
  /\ file = [x \in Paths |-> None]
  /\ synced = {}
  /\ lock = [p \in Processes |-> None]
  /\ req = [r \in Requests |-> IdleRequest]

--------------------------------------------------------------------------------
At(r, pc) == req[r].pc = pc
Free(r) == lock[ProcessOf[r]] = None

Goto(r, pc) == req' = [req EXCEPT ![r].pc = pc]

\* A request that returns or raises leaves the with block it may be in.
Answer(r, answer) ==
  /\ req' = [req EXCEPT ![r].pc = "idle", ![r].answer = answer]
  /\ lock' = IF lock[ProcessOf[r]] = r THEN [lock EXCEPT ![ProcessOf[r]] = None] ELSE lock

\* Mutant: os.replace.
LinkReplacing(x, content) ==
  /\ file' = [file EXCEPT ![x] = content]
  /\ UNCHANGED synced

\* os.link: the destination appears, or it is there and is left alone.
Link(x, content) ==
  /\ file' = IF file[x] = None THEN [file EXCEPT ![x] = content] ELSE file
  /\ UNCHANGED synced

(***************************************************************************)
(* Raw observations.                                                       *)
(***************************************************************************)
\* store_observation: the hash of the bytes is that of the observation.
RequestObservation(r) ==
  /\ At(r, "idle")
  /\ \E o \in Observations, v \in Payloads :
       req' = [req EXCEPT ![r] =
                 [IdleRequest EXCEPT !.pc = "lock", !.observation = o, !.payload = v]]
  /\ UNCHANGED <<rows, files, lock>>

AcquireLock(r) ==
  /\ At(r, "lock")
  /\ Free(r)
  /\ lock' = [lock EXCEPT ![ProcessOf[r]] = r]
  /\ Goto(r, "stage")
  /\ UNCHANGED <<rows, files>>

\* Mutant: a row that another attempt has left STAGING is taken for a conflict.
StagedElsewhere(r) ==
  LET row == observation[req[r].observation] IN
  IF row.state = "STAGING" THEN "conflict"
  ELSE IF row.payload # req[r].payload THEN "conflict" ELSE "stored"

\* What a store meets: a COMMITTED row is verified before it is compared.
Staged(r) ==
  LET row == observation[req[r].observation] IN
  IF row.state = "COMMITTED" /\ file[row.payload] # row.payload THEN "corrupted"
  ELSE IF row.payload # req[r].payload THEN "conflict"
  ELSE IF row.state = "COMMITTED" THEN "stored"
  ELSE "resume"

\* _ensure_staging_row, one transaction.
StageObservation(r) ==
  /\ At(r, "stage")
  /\ LET o == req[r].observation IN
     IF observation[o].state = "ABSENT"
       THEN /\ observation' = [observation EXCEPT ![o] =
                                 [state |-> "STAGING", payload |-> req[r].payload]]
            /\ Goto(r, "blob")
            /\ UNCHANGED lock
       ELSE /\ IF Staged(r) = "resume"
                 THEN Goto(r, "blob") /\ UNCHANGED lock
                 ELSE Answer(r, Staged(r))
            /\ UNCHANGED observation
  /\ UNCHANGED <<normalized, publication, files>>

\* Mutant: a blob that is there already is taken to be durable.
AfterBlobTrusted(v) == IF file[v] = None THEN "sync" ELSE "commit"

\* The barrier is repeated for a blob another attempt has linked.
AfterBlob(v) == "sync"

\* _publish_blob: the path is the hash of the bytes, so who finds the file, or
\* loses the link, finds the same bytes.
PublishBlob(r) ==
  /\ At(r, "blob")
  /\ Link(req[r].payload, req[r].payload)
  /\ Goto(r, AfterBlob(req[r].payload))
  /\ UNCHANGED <<rows, lock>>

\* _commit_observation, one transaction, and the verified read after it.
CommitObservation(r) ==
  /\ At(r, "commit")
  /\ LET o == req[r].observation IN
     /\ observation' = IF observation[o].state = "STAGING"
                         THEN [observation EXCEPT ![o].state = "COMMITTED"] ELSE observation
     /\ Answer(r, IF /\ observation[o].state # "ABSENT"
                     /\ file[observation[o].payload] = observation[o].payload
                    THEN "stored" ELSE "corrupted")
  /\ UNCHANGED <<normalized, publication, files>>

(***************************************************************************)
(* Normalization and canonical publication.  The lock is held for one      *)
(* transaction each, so taking it and giving it back is no step.           *)
(***************************************************************************)
\* store_normalization: its output is a function of the observation.
NormalizeObservation(r) ==
  /\ At(r, "idle")
  /\ Free(r)
  /\ \E o \in Observations :
       /\ observation[o].state = "COMMITTED"
       /\ normalized' = normalized \union {o}
  /\ UNCHANGED <<observation, publication, files, lock, req>>

\* What stage_canonical_publication requires, and none of it ever ends.
Publishable(o) == observation[o].state = "COMMITTED" /\ o \in normalized

RequestPublication(r) ==
  /\ At(r, "idle")
  /\ \E o \in Observations :
       /\ Publishable(o)
       /\ req' = [req EXCEPT ![r] =
                    [IdleRequest EXCEPT !.pc = "reserve", !.observation = o,
                       !.publication = PublishedAs[observation[o].payload]]]
  /\ UNCHANGED <<rows, files, lock>>

Vintages(k) == {publication[q].vintage : q \in {x \in Publications : KeyOf[x] = k}}

\* COALESCE(MAX(vintage_sequence), 0) + 1 over every row of the key.
NextVintage(n, k) ==
  /\ \A m \in Vintages(k) : m < n
  /\ n = 1 \/ n - 1 \in Vintages(k)

\* Mutant: a resumed publication is written from the caller's own fact.
PersistedAsCalled(r, row) == [vintage |-> row.vintage, source |-> req[r].observation]

\* What goes into the artifact: the fact and the vintage of the stored row, which
\* an equivalent observation may have staged.
Persisted(r, row) == [vintage |-> row.vintage, source |-> row.source]

WriteFrom(r, row) ==
  /\ req' = [req EXCEPT ![r].pc = "artifact",
                        ![r].vintage = Persisted(r, row).vintage,
                        ![r].source = Persisted(r, row).source]
  /\ UNCHANGED lock

\* stage_canonical_publication, one transaction.
StagePublication(r) ==
  /\ At(r, "reserve")
  /\ Free(r)
  /\ LET q == req[r].publication IN
     \/ /\ publication[q].state = "ABSENT"
        /\ \E n \in 1 .. MaxVintage :
             LET row == [state |-> "STAGING", vintage |-> n,
                         source |-> req[r].observation, hash |-> None] IN
             /\ NextVintage(n, KeyOf[q])
             /\ publication' = [publication EXCEPT ![q] = row]
             /\ WriteFrom(r, row)
     \/ /\ publication[q].state = "STAGING"
        /\ WriteFrom(r, publication[q])
        /\ UNCHANGED publication
     \/ /\ publication[q].state = "COMMITTED"
        /\ Answer(r, IF file[q] = publication[q].hash THEN "published" ELSE "corrupted")
        /\ UNCHANGED publication
  /\ UNCHANGED <<observation, normalized, files>>

\* publish_canonical_artifact: an artifact that is there is not written again.
FindArtifact(r) ==
  /\ At(r, "artifact")
  /\ LET q == req[r].publication IN
     req' = [req EXCEPT ![r].pc = IF file[q] = None THEN "link" ELSE "sync",
                        ![r].hash = file[q]]
  /\ UNCHANGED <<rows, files, lock>>

\* The candidate is written and synced under a name of its own, then linked; who
\* loses the link compares the bytes.
LinkArtifact(r) ==
  /\ At(r, "link")
  /\ \E e \in Encodings :
       LET q == req[r].publication
           bytes == [vintage |-> req[r].vintage, source |-> req[r].source,
                     encoding |-> e] IN
       /\ Link(q, bytes)
       /\ IF file[q] \in {None, bytes}
            THEN /\ req' = [req EXCEPT ![r].pc = "sync", ![r].hash = bytes]
                 /\ UNCHANGED lock
            ELSE Answer(r, "conflict")
  /\ UNCHANGED rows

\* _fsync_directory.
SyncDirectory(r) ==
  /\ At(r, "sync")
  /\ LET raw == req[r].publication = None IN
     /\ synced' = synced \union {IF raw THEN req[r].payload ELSE req[r].publication}
     /\ Goto(r, IF raw THEN "commit" ELSE "readback")
  /\ UNCHANGED <<rows, file, lock>>

\* _read_tushare_daily_publication: the artifact agrees with the staged row.
ReadBack(r) ==
  /\ At(r, "readback")
  /\ LET bytes == file[req[r].publication] IN
     IF /\ bytes # None /\ bytes = req[r].hash
        /\ bytes.vintage = req[r].vintage /\ bytes.source = req[r].source
       THEN Goto(r, "publish") /\ UNCHANGED lock
       ELSE Answer(r, "corrupted")
  /\ UNCHANGED <<rows, files>>

CommittedRow(row, hash) == [row EXCEPT !.state = "COMMITTED", !.hash = hash]

\* commit_canonical_publication, one transaction.
CommitPublication(r) ==
  /\ At(r, "publish")
  /\ Free(r)
  /\ LET q == req[r].publication
         hash == req[r].hash IN
     \/ /\ publication[q].state # "STAGING"
        /\ Answer(r, IF publication[q].hash # hash THEN "conflict"
                     ELSE IF file[q] = hash THEN "published" ELSE "corrupted")
        /\ UNCHANGED publication
     \/ /\ publication[q].state = "STAGING"
        /\ IF file[q] = hash
             THEN /\ publication' = [publication EXCEPT ![q] =
                                         CommittedRow(publication[q], hash)]
                  /\ Answer(r, "published")
             ELSE Answer(r, "corrupted") /\ UNCHANGED publication
  /\ UNCHANGED <<observation, normalized, files>>

--------------------------------------------------------------------------------
(***************************************************************************)
(* Failures.                                                               *)
(***************************************************************************)
\* The database stays busy past its timeout, or the file system refuses.
Fails(r) ==
  /\ req[r].pc \notin {"idle", "lock"}
  /\ Answer(r, "failed")
  /\ UNCHANGED <<rows, files>>

ProcessDies(p) ==
  /\ \E r \in Requests : ProcessOf[r] = p /\ ~At(r, "idle")
  /\ req' = [r \in Requests |-> IF ProcessOf[r] = p THEN IdleRequest ELSE req[r]]
  /\ lock' = [lock EXCEPT ![p] = None]
  /\ UNCHANGED <<rows, files>>

\* The machine stops: committed rows and synced entries are there afterwards, of
\* the other entries any may be.
PowerFails ==
  /\ \E kept \in SUBSET {x \in Paths \ synced : file[x] # None} :
       file' = [x \in Paths |-> IF x \in synced \union kept THEN file[x] ELSE None]
  /\ req' = [r \in Requests |-> IdleRequest]
  /\ lock' = [p \in Processes |-> None]
  /\ UNCHANGED <<rows, synced>>

--------------------------------------------------------------------------------
Step(r) ==
  \/ AcquireLock(r) \/ StageObservation(r) \/ PublishBlob(r) \/ CommitObservation(r)
  \/ StagePublication(r) \/ FindArtifact(r) \/ LinkArtifact(r) \/ SyncDirectory(r)
  \/ ReadBack(r) \/ CommitPublication(r)

Next ==
  \/ \E r \in Requests :
       \/ RequestObservation(r) \/ NormalizeObservation(r) \/ RequestPublication(r)
       \/ Step(r) \/ Fails(r)
  \/ \E p \in Processes : ProcessDies(p)
  \/ PowerFails

Spec == Init /\ [][Next]_vars

--------------------------------------------------------------------------------
Pcs == {"idle", "lock", "stage", "blob", "sync", "commit", "reserve", "artifact",
        "link", "readback", "publish"}
Answers == {"none", "stored", "published", "conflict", "corrupted", "failed"}

ObservationRows ==
  {NoObservation} \union [state : {"STAGING", "COMMITTED"}, payload : Payloads]
PublicationRows ==
  {NoPublication} \union
  [state : {"STAGING", "COMMITTED"}, vintage : 1 .. MaxVintage, source : Observations,
   hash : Artifacts \union {None}]
LocalStates ==
  [pc : Pcs, observation : Observations \union {None}, payload : Payloads \union {None},
   publication : Publications \union {None}, vintage : 0 .. MaxVintage,
   source : Observations \union {None}, hash : Artifacts \union {None}, answer : Answers]

\* The state is of the declared types, a COMMITTED publication carries the hash of
\* its artifact and a STAGING one none.
TypeOK ==
  /\ observation \in [Observations -> ObservationRows]
  /\ normalized \subseteq Observations
  /\ publication \in [Publications -> PublicationRows]
  /\ \A q \in Publications : publication[q].hash = None <=> publication[q].state # "COMMITTED"
  /\ file \in [Paths -> Payloads \union Artifacts \union {None}]
  /\ synced \subseteq Paths
  /\ lock \in [Processes -> Requests \union {None}]
  /\ req \in [Requests -> LocalStates]

\* What a COMMITTED row names is on disk, whole and synced: no crash, of a process
\* or of the machine, leaves a committed row without its bytes.
CommittedIsDurable ==
  /\ \A o \in Observations : observation[o].state = "COMMITTED" =>
       LET v == observation[o].payload IN file[v] = v /\ v \in synced
  /\ \A q \in Publications : publication[q].state = "COMMITTED" =>
       file[q] = publication[q].hash /\ q \in synced

\* The artifact of a committed publication says what its row says, whichever of
\* the observations that support it was published by whom, and that observation
\* is committed and normalized.
ManifestMatchesArtifact ==
  \A q \in Publications : publication[q].state = "COMMITTED" =>
    /\ publication[q].hash.vintage = publication[q].vintage
    /\ publication[q].hash.source = publication[q].source
    /\ Publishable(publication[q].source)
    /\ PublishedAs[observation[publication[q].source].payload] = q

\* Two publications of a key never share a vintage, and none is skipped.
VintagesAreDistinct ==
  \A q1, q2 \in Publications :
    /\ (/\ "ABSENT" \notin {publication[q1].state, publication[q2].state}
        /\ KeyOf[q1] = KeyOf[q2]
        /\ publication[q1].vintage = publication[q2].vintage) => q1 = q2
    /\ publication[q1].vintage > 1 =>
         publication[q1].vintage - 1 \in Vintages(KeyOf[q1])

\* A crash leaves nothing behind that a later request is refused for: an
\* observation is refused only when its id was used for another one, an artifact
\* only when two encodings of one record met, and nothing is found corrupted.
RefusalsAreEarned ==
  \A r \in Requests :
    /\ req[r].answer # "corrupted"
    /\ req[r].answer = "conflict" =>
         IF req[r].publication = None
           THEN observation[req[r].observation].payload # req[r].payload
           ELSE \E e1, e2 \in Encodings : e1 # e2

\* (a read verifies that the bytes have the committed hash)
ReadPayload(o) ==
  IF observation[o].state = "COMMITTED" THEN file[observation[o].payload] ELSE None

ReadArtifact(p) == IF publication[p].state = "COMMITTED" THEN file[p] ELSE None

Archived(i) == IF i \in Observations THEN ReadPayload(i) ELSE ReadArtifact(i)

\* The write path is the abstract archive: what a verified read returns of an item
\* appears once and never changes, through every crash.
Archive == INSTANCE FactArchive WITH
  Items <- Observations \union Publications,
  Contents <- Payloads \union Artifacts,
  Nothing <- None,
  archived <- [i \in Observations \union Publications |-> Archived(i)]

ImplementsArchive == Archive!Spec

(***************************************************************************)
(* Why it holds: short of a power failure rows and files only grow, so     *)
(* what a request has found stays true until it commits, whoever runs      *)
(* beside it; and a power failure takes nothing that is synced, and leaves *)
(* no request to be wrong about the rest.                                  *)
(***************************************************************************)
\* A publication row rests on committed evidence of its canonical state.
RowsAreSound ==
  \A q \in Publications : publication[q].state # "ABSENT" =>
    /\ Publishable(publication[q].source)
    /\ PublishedAs[observation[publication[q].source].payload] = q

\* A path holds what belongs there, or nothing.
FilesAreTrue ==
  /\ \A v \in Payloads : file[v] \in {v, None}
  /\ \A q \in Publications : file[q] # None =>
       /\ publication[q].state # "ABSENT"
       /\ file[q] \in Artifacts
       /\ file[q].vintage = publication[q].vintage
       /\ file[q].source = publication[q].source

\* The row of the observation that request c stores.
StoreIsTrue(c) ==
  /\ c.payload \in Payloads
  /\ c.pc \in {"blob", "sync", "commit"} =>
       /\ observation[c.observation].state # "ABSENT"
       /\ observation[c.observation].payload = c.payload
  /\ c.pc \in {"sync", "commit"} => file[c.payload] = c.payload
  /\ c.pc = "commit" => c.payload \in synced

\* The row and the artifact of the publication that request c publishes.
PublishIsTrue(c) ==
  /\ c.publication \in Publications
  /\ IF c.pc = "reserve"
       THEN /\ Publishable(c.observation)
            /\ PublishedAs[observation[c.observation].payload] = c.publication
       ELSE /\ publication[c.publication].state # "ABSENT"
            /\ c.vintage = publication[c.publication].vintage
            /\ c.source = publication[c.publication].source
  /\ c.pc \in {"sync", "readback", "publish"} =>
       c.hash # None /\ file[c.publication] = c.hash
  /\ c.pc \in {"readback", "publish"} => c.publication \in synced

StorePcs == {"lock", "stage", "blob", "sync", "commit"}
PublishPcs == {"reserve", "artifact", "link", "sync", "readback", "publish"}

InFlight(c) ==
  /\ c.observation \in Observations
  /\ c.answer = "none"
  /\ \/ c.publication = None /\ c.pc \in StorePcs /\ StoreIsTrue(c)
     \/ c.publication # None /\ c.pc \in PublishPcs /\ PublishIsTrue(c)

\* A refused store met another row of its observation, which stays.
Refused(c) ==
  c.answer = "conflict" /\ c.publication = None =>
    c.observation \in Observations /\ observation[c.observation].state # "ABSENT"

RequestsAreTrue ==
  \A r \in Requests : IF At(r, "idle") THEN Refused(req[r]) ELSE InFlight(req[r])

\* The inductive invariant of the Fact Lake.
LakeInv ==
  /\ TypeOK
  /\ CommittedIsDurable /\ VintagesAreDistinct /\ RefusalsAreEarned
  /\ RowsAreSound /\ FilesAreTrue /\ RequestsAreTrue
================================================================================
