-------------------------- MODULE ThesisLedgerProofs --------------------------
(***************************************************************************)
(* Proofs about ThesisLedger for every set of clients, Theses, Evidence    *)
(* and stances, and for every bound.                                       *)
(***************************************************************************)
EXTENDS ThesisLedger, TLAPS

EvidenceRows == [Evidence -> [version : Nat, deleted : BOOLEAN]]

(***************************************************************************)
(* The inductive invariant speaks of one Thesis at a time, as values: its  *)
(* row, its links, its revisions, its deltas and what was reviewed, and    *)
(* the Evidence rows.                                                      *)
(***************************************************************************)
Last(revs) == revs[Len(revs)]
OpenRow(row) == row.formal \in {"legacy", "draft"} /\ ~row.archived

SoundTypes(row, lk, revs, ds, rd) ==
  /\ row \in Rows /\ lk \in Links /\ revs \in Seq(Snapshots) /\ ds \in Seq(Deltas)
  /\ rd \in Readings
  /\ Len(revs) = row.revision

LinksAreSound(lk, ev) == \A e \in Evidence : lk[e] # None => ev[e].version # 0

\* The last revision is the present content and, while it can be edited, the
\* present Evidence.
LastIsPresent(row, lk, ev, revs) ==
  /\ row.formal = "absent" <=> row.revision = 0
  /\ row.formal = "absent" => row.content = {} /\ \A e \in Evidence : lk[e] = None
  /\ row.formal # "absent" => Last(revs).content = row.content
  /\ OpenRow(row) => Last(revs).evidence = Linked(lk, ev)

\* Before freezing there are only plain revisions and no deltas.
BeforeFreeze(row, revs, ds) ==
  row.formal # "frozen" =>
    /\ ds = <<>>
    /\ \A n \in 1..Len(revs) : revs[n].kind = "CONTENT"

\* From confirmation on the last revision is what was reviewed.
ReviewIsKept(row, revs, rd) ==
  /\ row.formal \in {"draft", "confirmed"} => ~row.archived
  /\ row.formal \in {"confirmed", "frozen"} =>
       row.ready /\ rd = {<<Last(revs).content, Last(revs).evidence>>}

\* The shape of a frozen Thesis: the frozen revision is the last but for the
\* archived copy of it.
FrozenShape(row, revs) ==
  row.formal = "frozen" =>
    /\ row.frozen \in 1..Len(revs)
    /\ revs[row.frozen].kind = "FORMAL_FREEZE" /\ revs[row.frozen].content = row.content
    /\ ~row.archived => Len(revs) = row.frozen
    /\ row.archived =>
         /\ Len(revs) = row.frozen + 1
         /\ Last(revs) = [revs[row.frozen] EXCEPT !.kind = "FORMAL_ARCHIVE"]
    /\ \A n \in 1..Len(revs) : revs[n].kind # "CONTENT" => n >= row.frozen

DeltasAreSound(row, ds) ==
  row.formal = "frozen" =>
    \A i \in 1..Len(ds) :
      /\ ds[i].base = row.frozen
      /\ ds[i].terminal => i = Len(ds)

Sound(row, lk, ev, revs, ds, rd) ==
  /\ SoundTypes(row, lk, revs, ds, rd)
  /\ LinksAreSound(lk, ev)
  /\ LastIsPresent(row, lk, ev, revs)
  /\ BeforeFreeze(row, revs, ds)
  /\ ReviewIsKept(row, revs, rd)
  /\ FrozenShape(row, revs)
  /\ DeltasAreSound(row, ds)

\* What a client has read names a revision that exists, and the present state
\* if it is the present revision of a Thesis that can be edited.
Names(v, t, row, lk, ev) ==
  v.thesis = t =>
    /\ v.revision \in 1..row.revision
    /\ OpenRow(row) /\ v.revision = row.revision =>
         v.content = row.content /\ v.evidence = Linked(lk, ev)

Shapes ==
  /\ thesis \in [Theses -> Rows] /\ links \in [Theses -> Links]
  /\ evidence \in EvidenceRows
  /\ revisions \in [Theses -> Seq(Snapshots)] /\ deltas \in [Theses -> Seq(Deltas)]
  /\ reviewed \in [Theses -> Readings]
  /\ view \in [Clients -> [thesis : Theses \union {None}, revision : Nat, content : SUBSET Nat,
                           evidence : SUBSET Items]]

SoundAt(t) == Sound(thesis[t], links[t], evidence, revisions[t], deltas[t], reviewed[t])
NamesAt(c, t) == Names(view[c], t, thesis[t], links[t], evidence)

ThesisInv ==
  /\ Shapes
  /\ \A t \in Theses : SoundAt(t)
  /\ \A c \in Clients, t \in Theses : NamesAt(c, t)

--------------------------------------------------------------------------------
(***************************************************************************)
(* Linked.                                                                 *)
(***************************************************************************)
LEMMA LinkedType ==
  ASSUME NEW lk \in Links, NEW ev \in EvidenceRows
  PROVE  Linked(lk, ev) \in SUBSET Items
BY DEF Linked, Links, EvidenceRows, Items

\* Evidence that is not linked can change.
LEMMA LinkedDepends ==
  ASSUME NEW lk \in Links, NEW ev \in EvidenceRows, NEW ev2 \in EvidenceRows,
         \A e \in Evidence : lk[e] # None => ev2[e] = ev[e]
  PROVE  Linked(lk, ev2) = Linked(lk, ev)
BY DEF Linked

LEMMA SnapshotType ==
  ASSUME NEW kind \in {"CONTENT", "FORMAL_FREEZE", "FORMAL_ARCHIVE"},
         NEW content \in SUBSET Nat, NEW items \in SUBSET Items
  PROVE  /\ Snapshot(kind, content, items) \in Snapshots
         /\ Snapshot(kind, content, items).kind = kind
         /\ Snapshot(kind, content, items).content = content
         /\ Snapshot(kind, content, items).evidence = items
BY DEF Snapshot, Snapshots

\* A copy of a revision under another kind.
LEMMA CopyType ==
  ASSUME NEW s \in Snapshots, NEW kind \in {"CONTENT", "FORMAL_FREEZE", "FORMAL_ARCHIVE"}
  PROVE  /\ [s EXCEPT !.kind = kind] \in Snapshots
         /\ [s EXCEPT !.kind = kind].kind = kind
         /\ [s EXCEPT !.kind = kind].content = s.content
         /\ [s EXCEPT !.kind = kind].evidence = s.evidence
BY DEF Snapshots

LEMMA Appended ==
  ASSUME NEW S, NEW s \in Seq(S), NEW x \in S
  PROVE  /\ Append(s, x) \in Seq(S)
         /\ Len(Append(s, x)) = Len(s) + 1
         /\ Last(Append(s, x)) = x
         /\ Append(s, x)[Len(s) + 1] = x
         /\ \A n \in 1..Len(s) : Append(s, x)[n] = s[n]
         /\ Len(s) \in Nat
BY DEF Last

--------------------------------------------------------------------------------
(***************************************************************************)
(* What each operation does to a sound Thesis, as values.                  *)
(***************************************************************************)
\* Editing the row, the links or the Evidence under a new revision.
LEMMA ReviseSound ==
  ASSUME NEW row, NEW lk, NEW ev, NEW revs, NEW ds, NEW rd,
         NEW row2 \in Rows, NEW lk2 \in Links, NEW ev2 \in EvidenceRows,
         Sound(row, lk, ev, revs, ds, rd), OpenRow(row),
         row2.formal = row.formal, row2.archived => row.formal = "legacy",
         row2.revision = row.revision + 1,
         LinksAreSound(lk2, ev2)
  PROVE  Sound(row2, lk2, ev2,
               Append(revs, Snapshot("CONTENT", row2.content, Linked(lk2, ev2))), ds, rd)
<1> DEFINE s == Snapshot("CONTENT", row2.content, Linked(lk2, ev2))
           revs2 == Append(revs, s)
<1>1. /\ s \in Snapshots /\ s.kind = "CONTENT" /\ s.content = row2.content
      /\ s.evidence = Linked(lk2, ev2)
  BY LinkedType, SnapshotType DEF Rows
<1>2. revs \in Seq(Snapshots) /\ Len(revs) = row.revision /\ row \in Rows
  BY DEF Sound, SoundTypes
<1>3. /\ revs2 \in Seq(Snapshots) /\ Len(revs2) = Len(revs) + 1
      /\ Last(revs2) = s /\ revs2[Len(revs) + 1] = s
      /\ \A n \in 1..Len(revs) : revs2[n] = revs[n]
      /\ Len(revs) \in Nat
  BY <1>1, <1>2, Appended
<1> HIDE DEF s, revs2
<1>4. SoundTypes(row2, lk2, revs2, ds, rd)
  BY <1>2, <1>3 DEF Sound, SoundTypes
<1>5. LastIsPresent(row2, lk2, ev2, revs2)
  BY <1>1, <1>2, <1>3 DEF LastIsPresent, OpenRow, Rows
<1>6. BeforeFreeze(row2, revs2, ds)
  <2>1. ds = <<>> /\ \A n \in 1..Len(revs) : revs[n].kind = "CONTENT"
    BY DEF Sound, BeforeFreeze, OpenRow
  <2>2. \A n \in 1..Len(revs2) : n \in 1..Len(revs) \/ n = Len(revs) + 1
    BY <1>3
  <2> QED BY <1>1, <1>3, <2>1, <2>2 DEF BeforeFreeze
<1>7. ReviewIsKept(row2, revs2, rd) /\ FrozenShape(row2, revs2) /\ DeltasAreSound(row2, ds)
  BY DEF ReviewIsKept, FrozenShape, DeltasAreSound, OpenRow
<1> QED BY <1>4, <1>5, <1>6, <1>7 DEF Sound, revs2, s

\* Evidence changes that do not concern the Thesis, or come too late for it.
LEMMA EvidenceSound ==
  ASSUME NEW row, NEW lk, NEW ev \in EvidenceRows, NEW revs, NEW ds, NEW rd,
         NEW ev2 \in EvidenceRows,
         Sound(row, lk, ev, revs, ds, rd),
         LinksAreSound(lk, ev2),
         OpenRow(row) => \A e \in Evidence : lk[e] # None => ev2[e] = ev[e]
  PROVE  Sound(row, lk, ev2, revs, ds, rd)
<1>1. lk \in Links BY DEF Sound, SoundTypes
<1>2. OpenRow(row) => Linked(lk, ev2) = Linked(lk, ev)
  BY <1>1, LinkedDepends
<1>3. LastIsPresent(row, lk, ev2, revs)
  BY <1>2 DEF Sound, LastIsPresent
<1> QED BY <1>3 DEF Sound

LEMMA AbsentType ==
  Absent \in Rows /\ Absent.formal = "absent" /\ Absent.revision = 0 /\ Absent.content = {}
BY DEF Absent, Rows

LEMMA AbsentSound ==
  ASSUME NEW ev, NEW lk \in Links, \A e \in Evidence : lk[e] = None
  PROVE  Sound(Absent, lk, ev, <<>>, <<>>, {})
<1>1. Absent \in Rows /\ Absent.formal = "absent" /\ Absent.revision = 0 /\ Absent.content = {}
  BY AbsentType
<1>2. SoundTypes(Absent, lk, <<>>, <<>>, {})
  BY <1>1 DEF SoundTypes, Readings
<1>3. LinksAreSound(lk, ev)
  BY DEF LinksAreSound
<1> QED
  BY <1>1, <1>2, <1>3 DEF Sound, LastIsPresent, BeforeFreeze, ReviewIsKept, FrozenShape, DeltasAreSound,
                    OpenRow

\* The first revision of a new Thesis.
LEMMA CreateSound ==
  ASSUME NEW row, NEW lk, NEW ev \in EvidenceRows, NEW revs, NEW ds, NEW rd,
         NEW row2 \in Rows,
         Sound(row, lk, ev, revs, ds, rd), row.formal = "absent",
         row2.formal = "legacy", ~row2.archived, row2.revision = 1
  PROVE  Sound(row2, lk, ev, <<Snapshot("CONTENT", row2.content, {})>>, ds, rd)
<1> DEFINE s == Snapshot("CONTENT", row2.content, {})
<1>1. s \in Snapshots /\ s.kind = "CONTENT" /\ s.content = row2.content /\ s.evidence = {}
  BY SnapshotType DEF Rows
<1> HIDE DEF s
<1>2. SoundTypes(row2, lk, <<s>>, ds, rd)
  BY <1>1 DEF Sound, SoundTypes
<1>3. LastIsPresent(row2, lk, ev, <<s>>)
  <2>1. Linked(lk, ev) = {}
    BY DEF Linked, Sound, LastIsPresent
  <2> QED BY <1>1, <2>1 DEF LastIsPresent, Last, OpenRow
<1>4. BeforeFreeze(row2, <<s>>, ds)
  BY <1>1 DEF Sound, BeforeFreeze
<1>5. ReviewIsKept(row2, <<s>>, rd) /\ FrozenShape(row2, <<s>>) /\ DeltasAreSound(row2, ds)
  BY DEF ReviewIsKept, FrozenShape, DeltasAreSound
<1> QED BY <1>2, <1>3, <1>4, <1>5 DEF Sound, s

\* Beginning and confirming change only the formal state.
LEMMA BeginSound ==
  ASSUME NEW row, NEW lk, NEW ev, NEW revs, NEW ds, NEW rd, NEW row2 \in Rows,
         Sound(row, lk, ev, revs, ds, rd), row.formal = "legacy", ~row.archived,
         row2.formal = "draft", ~row2.archived,
         row2.content = row.content, row2.revision = row.revision
  PROVE  Sound(row2, lk, ev, revs, ds, rd)
<1>1. row \in Rows BY DEF Sound, SoundTypes
<1>2. SoundTypes(row2, lk, revs, ds, rd)
  BY DEF Sound, SoundTypes
<1>3. LastIsPresent(row2, lk, ev, revs)
  BY <1>1 DEF Sound, LastIsPresent, OpenRow, Rows
<1>4. BeforeFreeze(row2, revs, ds)
  BY DEF Sound, BeforeFreeze
<1>5. ReviewIsKept(row2, revs, rd) /\ FrozenShape(row2, revs) /\ DeltasAreSound(row2, ds)
  BY DEF ReviewIsKept, FrozenShape, DeltasAreSound
<1> QED BY <1>2, <1>3, <1>4, <1>5 DEF Sound

LEMMA ConfirmSound ==
  ASSUME NEW row, NEW lk, NEW ev, NEW revs, NEW ds, NEW rd, NEW row2 \in Rows,
         NEW rd2 \in Readings,
         Sound(row, lk, ev, revs, ds, rd), row.formal = "draft",
         row2.formal = "confirmed", ~row2.archived, row2.ready,
         row2.content = row.content, row2.revision = row.revision,
         rd2 = {<<row.content, Linked(lk, ev)>>}
  PROVE  Sound(row2, lk, ev, revs, ds, rd2)
<1>1. row \in Rows BY DEF Sound, SoundTypes
<1>2. SoundTypes(row2, lk, revs, ds, rd2)
  BY DEF Sound, SoundTypes
<1>3. Last(revs).content = row.content /\ Last(revs).evidence = Linked(lk, ev)
  BY DEF Sound, LastIsPresent, ReviewIsKept, OpenRow
<1>4. LastIsPresent(row2, lk, ev, revs)
  BY <1>1, <1>3 DEF Sound, LastIsPresent, OpenRow, Rows
<1>5. BeforeFreeze(row2, revs, ds)
  BY DEF Sound, BeforeFreeze
<1>6. ReviewIsKept(row2, revs, rd2)
  BY <1>3 DEF ReviewIsKept
<1>7. FrozenShape(row2, revs) /\ DeltasAreSound(row2, ds)
  BY DEF FrozenShape, DeltasAreSound
<1> QED BY <1>2, <1>4, <1>5, <1>6, <1>7 DEF Sound

\* Freezing copies the last revision, whose content is the row's.
LEMMA FreezeSound ==
  ASSUME NEW row, NEW lk, NEW ev, NEW revs, NEW ds, NEW rd, NEW row2 \in Rows,
         Sound(row, lk, ev, revs, ds, rd), row.formal = "confirmed",
         row2.formal = "frozen", ~row2.archived, row2.ready,
         row2.content = row.content, row2.revision = row.revision + 1,
         row2.frozen = row.revision + 1
  PROVE  Sound(row2, lk, ev, Append(revs, [Last(revs) EXCEPT !.kind = "FORMAL_FREEZE"]), ds, rd)
<1> DEFINE s == [Last(revs) EXCEPT !.kind = "FORMAL_FREEZE"]
           revs2 == Append(revs, s)
<1>1. /\ row \in Rows /\ revs \in Seq(Snapshots) /\ Len(revs) = row.revision
      /\ row.revision # 0
  BY DEF Sound, SoundTypes, LastIsPresent, Rows
<1>2. Last(revs) \in Snapshots
  BY <1>1 DEF Last, Rows
<1>3. /\ s \in Snapshots /\ s.kind = "FORMAL_FREEZE"
      /\ s.content = Last(revs).content /\ s.evidence = Last(revs).evidence
  BY <1>2, CopyType
<1>4. /\ revs2 \in Seq(Snapshots) /\ Len(revs2) = Len(revs) + 1
      /\ Last(revs2) = s /\ revs2[Len(revs) + 1] = s
      /\ \A n \in 1..Len(revs) : revs2[n] = revs[n]
      /\ Len(revs) \in Nat
  BY <1>1, <1>3, Appended
<1> HIDE DEF s, revs2
<1>5. SoundTypes(row2, lk, revs2, ds, rd)
  BY <1>1, <1>4 DEF Sound, SoundTypes
<1>6. s.content = row.content /\ rd = {<<s.content, s.evidence>>}
  BY <1>3 DEF Sound, LastIsPresent, ReviewIsKept
<1>7. LastIsPresent(row2, lk, ev, revs2)
  BY <1>1, <1>4, <1>6 DEF LastIsPresent, OpenRow, Rows
<1>8. BeforeFreeze(row2, revs2, ds)
  BY DEF BeforeFreeze
<1>9. ReviewIsKept(row2, revs2, rd)
  BY <1>4, <1>6 DEF ReviewIsKept
<1>10. FrozenShape(row2, revs2)
  <2>1. \A n \in 1..Len(revs) : revs[n].kind = "CONTENT"
    BY DEF Sound, BeforeFreeze
  <2>2. \A n \in 1..Len(revs2) : n \in 1..Len(revs) \/ n = Len(revs) + 1
    BY <1>4
  <2>3. \A n \in 1..Len(revs2) : revs2[n].kind # "CONTENT" => n >= row2.frozen
    BY <1>1, <1>4, <2>1, <2>2
  <2>4. row2.frozen \in 1..Len(revs2) /\ Len(revs2) = row2.frozen /\ revs2[row2.frozen] = s
    BY <1>1, <1>4
  <2> QED BY <1>3, <1>6, <2>3, <2>4 DEF FrozenShape
<1>11. DeltasAreSound(row2, ds)
  BY DEF Sound, BeforeFreeze, DeltasAreSound
<1> QED BY <1>5, <1>7, <1>8, <1>9, <1>10, <1>11 DEF Sound, revs2, s

\* The archived snapshot is a copy of the frozen one.
LEMMA ArchiveSound ==
  ASSUME NEW row, NEW lk, NEW ev, NEW revs, NEW ds, NEW rd, NEW row2 \in Rows,
         Sound(row, lk, ev, revs, ds, rd), row.formal = "frozen", ~row.archived,
         row2.formal = "frozen", row2.archived, row2.ready,
         row2.content = row.content, row2.revision = row.revision + 1,
         row2.frozen = row.frozen
  PROVE  Sound(row2, lk, ev,
               Append(revs, [revs[row.frozen] EXCEPT !.kind = "FORMAL_ARCHIVE"]), ds, rd)
<1> DEFINE s == [revs[row.frozen] EXCEPT !.kind = "FORMAL_ARCHIVE"]
           revs2 == Append(revs, s)
<1>1. /\ row \in Rows /\ revs \in Seq(Snapshots) /\ Len(revs) = row.revision
      /\ row.frozen \in 1..Len(revs) /\ Len(revs) = row.frozen
  BY DEF Sound, SoundTypes, FrozenShape
<1>2. revs[row.frozen] \in Snapshots /\ revs[row.frozen] = Last(revs)
  BY <1>1 DEF Last
<1>3. /\ s \in Snapshots /\ s.kind = "FORMAL_ARCHIVE"
      /\ s.content = Last(revs).content /\ s.evidence = Last(revs).evidence
  <2> DEFINE f == revs[row.frozen]
  <2>1. f \in Snapshots /\ f = Last(revs) /\ s = [f EXCEPT !.kind = "FORMAL_ARCHIVE"]
    BY <1>2
  <2> HIDE DEF f, s
  <2> QED BY <2>1 DEF Snapshots
<1>4. /\ revs2 \in Seq(Snapshots) /\ Len(revs2) = Len(revs) + 1
      /\ Last(revs2) = s /\ revs2[Len(revs) + 1] = s
      /\ \A n \in 1..Len(revs) : revs2[n] = revs[n]
      /\ Len(revs) \in Nat
  BY <1>1, <1>3, Appended
<1>5. s = [revs2[row2.frozen] EXCEPT !.kind = "FORMAL_ARCHIVE"]
  BY <1>1, <1>4
<1> HIDE DEF s, revs2
<1>6. SoundTypes(row2, lk, revs2, ds, rd)
  BY <1>1, <1>4 DEF Sound, SoundTypes
<1>7. s.content = row.content /\ rd = {<<s.content, s.evidence>>}
  BY <1>3 DEF Sound, LastIsPresent, ReviewIsKept
<1>8. LastIsPresent(row2, lk, ev, revs2)
  BY <1>1, <1>4, <1>7 DEF LastIsPresent, OpenRow, Rows
<1>9. BeforeFreeze(row2, revs2, ds)
  BY DEF BeforeFreeze
<1>10. ReviewIsKept(row2, revs2, rd)
  BY <1>4, <1>7 DEF ReviewIsKept
<1>11. FrozenShape(row2, revs2)
  <2>1. /\ \A n \in 1..Len(revs) : revs[n].kind # "CONTENT" => n >= row.frozen
        /\ revs[row.frozen].kind = "FORMAL_FREEZE" /\ revs[row.frozen].content = row.content
    BY DEF Sound, FrozenShape
  <2>2. \A n \in 1..Len(revs2) : n \in 1..Len(revs) \/ n = Len(revs) + 1
    BY <1>4
  <2>3. \A n \in 1..Len(revs2) : revs2[n].kind # "CONTENT" => n >= row2.frozen
    BY <1>1, <1>4, <2>1, <2>2
  <2>4. row2.frozen \in 1..Len(revs2) /\ Len(revs2) = row2.frozen + 1
        /\ revs2[row2.frozen] = revs[row.frozen]
    BY <1>1, <1>4
  <2>5. Last(revs2) = [revs2[row2.frozen] EXCEPT !.kind = "FORMAL_ARCHIVE"]
    BY <1>4, <1>5
  <2> HIDE DEF Last
  <2> QED BY <2>1, <2>3, <2>4, <2>5 DEF FrozenShape
<1>12. DeltasAreSound(row2, ds)
  BY DEF Sound, DeltasAreSound
<1> QED BY <1>6, <1>8, <1>9, <1>10, <1>11, <1>12 DEF Sound, revs2, s

LEMMA DeltaSound ==
  ASSUME NEW row, NEW lk, NEW ev, NEW revs, NEW ds, NEW rd, NEW d \in Deltas,
         Sound(row, lk, ev, revs, ds, rd), row.formal = "frozen",
         d.base = row.frozen,
         \A i \in DOMAIN ds : i = Len(ds) => ~ds[i].terminal
  PROVE  Sound(row, lk, ev, revs, Append(ds, d), rd)
<1>1. ds \in Seq(Deltas)
  BY DEF Sound, SoundTypes
<1>2. DOMAIN ds = 1..Len(ds)
  BY <1>1
<1> DEFINE ds2 == Append(ds, d)
<1>3. /\ ds2 \in Seq(Deltas) /\ Len(ds2) = Len(ds) + 1 /\ ds2[Len(ds) + 1] = d
      /\ \A n \in 1..Len(ds) : ds2[n] = ds[n]
      /\ Len(ds) \in Nat
  BY <1>1, Appended
<1>4. \A n \in 1..Len(ds2) : n \in 1..Len(ds) \/ n = Len(ds) + 1
  BY <1>3
<1> HIDE DEF ds2
<1>5. \A i \in 1..Len(ds) : ds[i].base = row.frozen /\ ~ds[i].terminal
  BY <1>2, <1>3 DEF Sound, DeltasAreSound
<1>6. DeltasAreSound(row, ds2)
  BY <1>3, <1>4, <1>5 DEF DeltasAreSound
<1>7. SoundTypes(row, lk, revs, ds2, rd)
  BY <1>3 DEF Sound, SoundTypes
<1>8. BeforeFreeze(row, revs, ds2)
  BY DEF BeforeFreeze
<1> QED BY <1>6, <1>7, <1>8 DEF Sound, ds2

--------------------------------------------------------------------------------
(***************************************************************************)
(* What a client has read goes on naming what it has read.                 *)
(***************************************************************************)
\* A Thesis that gets another revision.
LEMMA NamesOlder ==
  ASSUME NEW v, NEW t, NEW row \in Rows, NEW lk, NEW ev, NEW row2 \in Rows, NEW lk2, NEW ev2,
         Names(v, t, row, lk, ev), row2.revision = row.revision + 1
  PROVE  Names(v, t, row2, lk2, ev2)
BY DEF Names, Rows

\* A Thesis whose present state stays.
LEMMA NamesKept ==
  ASSUME NEW v, NEW t, NEW row, NEW lk, NEW ev, NEW row2, NEW ev2,
         Names(v, t, row, lk, ev),
         row2.revision = row.revision, row2.content = row.content,
         OpenRow(row2) => OpenRow(row) /\ Linked(lk, ev2) = Linked(lk, ev)
  PROVE  Names(v, t, row2, lk, ev2)
BY DEF Names

\* A Thesis nobody can have read.
LEMMA NamesAbsent ==
  ASSUME NEW v, NEW t, NEW row, NEW lk, NEW ev, NEW row2, NEW lk2, NEW ev2,
         Names(v, t, row, lk, ev), row.revision = 0
  PROVE  Names(v, t, row2, lk2, ev2)
BY DEF Names

--------------------------------------------------------------------------------
(***************************************************************************)
(* Initial states.                                                         *)
(***************************************************************************)
LEMMA InitThesisInv ==
  ASSUME Init
  PROVE  ThesisInv
<1>1. Absent \in Rows
  BY AbsentType
<1>2. evidence \in EvidenceRows
  BY DEF Init, EvidenceRows
<1>3. \A t \in Theses : /\ thesis[t] = Absent /\ links[t] \in Links
                        /\ \A e \in Evidence : links[t][e] = None
                        /\ revisions[t] = <<>> /\ deltas[t] = <<>> /\ reviewed[t] = {}
  BY DEF Init, Links
<1>4. \A c \in Clients : /\ view[c] = NothingRead /\ view[c].thesis = None
  BY DEF Init, NothingRead
<1>5. Shapes
  <2>1. NothingRead \in [thesis : Theses \union {None}, revision : Nat, content : SUBSET Nat,
                         evidence : SUBSET Items]
    BY DEF NothingRead
  <2>2. /\ thesis \in [Theses -> Rows] /\ links \in [Theses -> Links]
        /\ revisions \in [Theses -> Seq(Snapshots)] /\ deltas \in [Theses -> Seq(Deltas)]
        /\ reviewed \in [Theses -> Readings]
    BY <1>1 DEF Init, Links, Readings
  <2>3. view \in [Clients -> [thesis : Theses \union {None}, revision : Nat,
                              content : SUBSET Nat, evidence : SUBSET Items]]
    BY <2>1 DEF Init
  <2> QED BY <1>2, <2>2, <2>3 DEF Shapes
<1>6. ASSUME NEW t \in Theses PROVE SoundAt(t)
  BY <1>3, AbsentSound DEF SoundAt
<1>7. ASSUME NEW c \in Clients, NEW t \in Theses PROVE NamesAt(c, t)
  BY <1>4, NoneAssumption DEF NamesAt, Names
<1> QED BY <1>5, <1>6, <1>7 DEF ThesisInv

--------------------------------------------------------------------------------
(***************************************************************************)
(* Rows that differ in several columns.                                    *)
(***************************************************************************)
LEMMA FrozenRow ==
  ASSUME NEW row \in Rows
  PROVE  LET n == row.revision + 1
             row2 == [row EXCEPT !.formal = "frozen", !.revision = n, !.frozen = n]
         IN  /\ row2 \in Rows /\ row2.formal = "frozen" /\ row2.archived = row.archived
             /\ row2.content = row.content /\ row2.revision = row.revision + 1
             /\ row2.ready = row.ready /\ row2.frozen = row.revision + 1
<1> DEFINE n == row.revision + 1
           row2 == [row EXCEPT !.formal = "frozen", !.revision = n, !.frozen = n]
<1>1. n \in Nat BY DEF Rows
<1> HIDE DEF n
<1>2. row2 \in Rows BY <1>1 DEF Rows
<1>3. row2.formal = "frozen" /\ row2.archived = row.archived BY DEF Rows
<1>4. row2.content = row.content /\ row2.revision = n BY DEF Rows
<1>5. row2.ready = row.ready /\ row2.frozen = n BY DEF Rows
<1> HIDE DEF row2
<1>6. n = row.revision + 1 BY DEF n
<1> QED BY <1>2, <1>3, <1>4, <1>5, <1>6 DEF row2

LEMMA ArchivedRow ==
  ASSUME NEW row \in Rows
  PROVE  LET row2 == [row EXCEPT !.archived = TRUE, !.revision = row.revision + 1]
         IN  /\ row2 \in Rows /\ row2.formal = row.formal /\ row2.archived
             /\ row2.content = row.content /\ row2.revision = row.revision + 1
             /\ row2.ready = row.ready /\ row2.frozen = row.frozen
<1> DEFINE n == row.revision + 1
           row2 == [row EXCEPT !.archived = TRUE, !.revision = n]
<1>1. n \in Nat BY DEF Rows
<1> HIDE DEF n
<1>2. row2 \in Rows BY <1>1 DEF Rows
<1>3. row2.formal = row.formal /\ row2.archived BY DEF Rows
<1>4. row2.content = row.content /\ row2.revision = n BY DEF Rows
<1>5. row2.ready = row.ready /\ row2.frozen = row.frozen BY DEF Rows
<1> HIDE DEF row2
<1>6. n = row.revision + 1 BY DEF n
<1> QED BY <1>2, <1>3, <1>4, <1>5, <1>6 DEF row2, n

--------------------------------------------------------------------------------
(***************************************************************************)
(* Steps that concern one Thesis.                                          *)
(***************************************************************************)
LEMMA OneThesis ==
  ASSUME ThesisInv, NEW t \in Theses,
         NEW row \in Rows, NEW lk \in Links, NEW revs, NEW ds, NEW rd,
         thesis' = [thesis EXCEPT ![t] = row], links' = [links EXCEPT ![t] = lk],
         revisions' = [revisions EXCEPT ![t] = revs], deltas' = [deltas EXCEPT ![t] = ds],
         reviewed' = [reviewed EXCEPT ![t] = rd],
         evidence' = evidence, view' = view,
         Sound(row, lk, evidence, revs, ds, rd),
         \A c \in Clients : Names(view[c], t, row, lk, evidence)
  PROVE  ThesisInv'
<1>1. revs \in Seq(Snapshots) /\ ds \in Seq(Deltas) /\ rd \in Readings
  BY DEF Sound, SoundTypes
<1>2. Shapes'
  BY <1>1 DEF ThesisInv, Shapes
<1>3. ASSUME NEW u \in Theses
      PROVE  /\ u = t => /\ thesis'[u] = row /\ links'[u] = lk /\ revisions'[u] = revs
                         /\ deltas'[u] = ds /\ reviewed'[u] = rd
             /\ u # t => /\ thesis'[u] = thesis[u] /\ links'[u] = links[u]
                         /\ revisions'[u] = revisions[u] /\ deltas'[u] = deltas[u]
                         /\ reviewed'[u] = reviewed[u]
  BY DEF ThesisInv, Shapes
<1>4. ASSUME NEW u \in Theses PROVE SoundAt(u)'
  BY <1>3 DEF ThesisInv, SoundAt
<1>5. ASSUME NEW c \in Clients, NEW u \in Theses PROVE NamesAt(c, u)'
  BY <1>3 DEF ThesisInv, NamesAt
<1> QED BY <1>2, <1>4, <1>5 DEF ThesisInv

\* What the invariant says of the row, and of a component that stays.
LEMMA AtThesis ==
  ASSUME ThesisInv, NEW t \in Theses
  PROVE  /\ thesis[t] \in Rows /\ links[t] \in Links /\ evidence \in EvidenceRows
         /\ Sound(thesis[t], links[t], evidence, revisions[t], deltas[t], reviewed[t])
         /\ \A c \in Clients : Names(view[c], t, thesis[t], links[t], evidence)
         /\ links = [links EXCEPT ![t] = links[t]]
         /\ revisions = [revisions EXCEPT ![t] = revisions[t]]
         /\ deltas = [deltas EXCEPT ![t] = deltas[t]]
         /\ reviewed = [reviewed EXCEPT ![t] = reviewed[t]]
         /\ thesis = [thesis EXCEPT ![t] = thesis[t]]
BY DEF ThesisInv, Shapes, SoundAt, NamesAt

LEMMA CreateThesisKeeps ==
  ASSUME ThesisInv, NEW t \in Theses, CreateThesis(t)
  PROVE  ThesisInv'
<1> DEFINE row2 == Created
           revs2 == <<Snapshot("CONTENT", row2.content, {})>>
<1>1. /\ row2 \in Rows /\ row2.formal = "legacy" /\ ~row2.archived /\ row2.revision = 1
      /\ row2.content = {1}
  BY DEF Created, Rows
<1>2. /\ thesis' = [thesis EXCEPT ![t] = row2]
      /\ revisions' = [revisions EXCEPT ![t] = revs2]
      /\ thesis[t].formal = "absent"
      /\ links' = links /\ evidence' = evidence /\ deltas' = deltas /\ view' = view
      /\ reviewed' = reviewed
  BY <1>1 DEF CreateThesis, Exists
<1> HIDE DEF row2
<1>3. Sound(row2, links[t], evidence, revs2, deltas[t], reviewed[t])
  BY <1>1, <1>2, AtThesis, CreateSound
<1>4. thesis[t].revision = 0
  BY <1>2, AtThesis DEF Sound, LastIsPresent
<1>5. \A c \in Clients : Names(view[c], t, row2, links[t], evidence)
  BY <1>4, AtThesis, NamesAbsent
<1> HIDE DEF revs2
<1>6. /\ links' = [links EXCEPT ![t] = links[t]]
      /\ deltas' = [deltas EXCEPT ![t] = deltas[t]]
      /\ reviewed' = [reviewed EXCEPT ![t] = reviewed[t]]
      /\ evidence' = evidence /\ view' = view /\ links[t] \in Links
  BY <1>2, AtThesis
<1> QED BY <1>1, <1>2, <1>3, <1>5, <1>6, OneThesis

\* The row an edit leaves is given by what it changes, its revision apart.
LEMMA ReviseKeeps ==
  ASSUME ThesisInv, NEW t \in Theses, NEW row \in Rows, NEW lk \in Links,
         Open(t), row.formal = thesis[t].formal,
         row.archived => thesis[t].formal = "legacy",
         LinksAreSound(lk, evidence),
         Revise(t, row, lk), UNCHANGED <<evidence, deltas, view, reviewed>>
  PROVE  ThesisInv'
<1> DEFINE row2 == [row EXCEPT !.revision = thesis[t].revision + 1]
           revs2 == Append(revisions[t], Snapshot("CONTENT", row2.content, Linked(lk, evidence)))
<1>1. /\ row2 \in Rows /\ row2.formal = row.formal /\ row2.archived = row.archived
      /\ row2.content = row.content /\ row2.revision = thesis[t].revision + 1
  BY AtThesis DEF Rows
<1>2. /\ thesis' = [thesis EXCEPT ![t] = row2] /\ links' = [links EXCEPT ![t] = lk]
      /\ revisions' = [revisions EXCEPT ![t] = revs2]
  BY <1>1 DEF Revise, ThesisInv, Shapes
<1> HIDE DEF row2
<1>3. OpenRow(thesis[t])
  BY DEF Open, OpenRow
<1>4. Sound(row2, lk, evidence, revs2, deltas[t], reviewed[t])
  BY <1>1, <1>3, AtThesis, ReviseSound
<1>5. \A c \in Clients : Names(view[c], t, row2, lk, evidence)
  BY <1>1, AtThesis, NamesOlder
<1> HIDE DEF revs2
<1>6. /\ deltas' = [deltas EXCEPT ![t] = deltas[t]]
      /\ reviewed' = [reviewed EXCEPT ![t] = reviewed[t]]
      /\ evidence' = evidence /\ view' = view
  BY AtThesis
<1>7. row2 \in Rows
  BY <1>1
<1> QED BY <1>2, <1>4, <1>5, <1>6, <1>7, OneThesis

LEMMA UpdateThesisKeeps ==
  ASSUME ThesisInv, NEW t \in Theses, NEW c \in Clients, UpdateThesis(c, t)
  PROVE  ThesisInv'
<1>1. PICK ready \in BOOLEAN :
        Revise(t, [thesis[t] EXCEPT !.content = view[c].content \union {thesis[t].revision + 1},
                                    !.ready = ready],
               links[t])
  BY DEF UpdateThesis
<1> DEFINE row == [thesis[t] EXCEPT !.content = view[c].content \union {thesis[t].revision + 1},
                                    !.ready = ready]
<1>2. view[c].content \union {thesis[t].revision + 1} \in SUBSET Nat
  <2>1. view[c].content \in SUBSET Nat
    BY DEF ThesisInv, Shapes
  <2>2. thesis[t].revision + 1 \in Nat
    BY AtThesis DEF Rows
  <2> QED BY <2>1, <2>2
<1>3. /\ row \in Rows /\ row.formal = thesis[t].formal /\ row.archived = thesis[t].archived
  <2>1. thesis[t] \in Rows
    BY AtThesis
  <2> QED BY <1>2, <2>1 DEF Rows
<1>4. /\ Open(t) /\ UNCHANGED <<evidence, deltas, view, reviewed>>
      /\ Revise(t, row, links[t])
  BY <1>1 DEF UpdateThesis
<1> HIDE DEF row
<1>5. LinksAreSound(links[t], evidence)
  BY AtThesis DEF Sound
<1>6. ~row.archived
  BY <1>3, <1>4 DEF Open
<1> QED BY <1>3, <1>4, <1>5, <1>6, AtThesis, ReviseKeeps

LEMMA LinkEvidenceKeeps ==
  ASSUME ThesisInv, NEW t \in Theses, NEW c \in Clients, NEW e \in Evidence,
         NEW stance \in Stances, LinkEvidence(c, t, e, stance)
  PROVE  ThesisInv'
<1> DEFINE lk == [links[t] EXCEPT ![e] = stance]
<1>1. lk \in Links
  BY AtThesis DEF Links
<1>2. LinksAreSound(lk, evidence)
  BY AtThesis DEF Sound, LinksAreSound, Links, LinkEvidence, Usable
<1>3. /\ Open(t) /\ UNCHANGED <<evidence, deltas, view, reviewed>>
      /\ Revise(t, thesis[t], lk) /\ ~thesis[t].archived
  BY DEF LinkEvidence, Open
<1> HIDE DEF lk
<1> QED BY <1>1, <1>2, <1>3, AtThesis, ReviseKeeps

LEMMA ChangeLinkKeeps ==
  ASSUME ThesisInv, NEW t \in Theses, NEW c \in Clients, NEW e \in Evidence,
         NEW stance \in Stances \union {None}, ChangeLink(c, t, e, stance)
  PROVE  ThesisInv'
<1> DEFINE lk == [links[t] EXCEPT ![e] = stance]
<1>1. lk \in Links
  BY AtThesis DEF Links
<1>2. LinksAreSound(lk, evidence)
  BY AtThesis DEF Sound, LinksAreSound, Links, ChangeLink
<1>3. /\ Open(t) /\ UNCHANGED <<evidence, deltas, view, reviewed>>
      /\ Revise(t, thesis[t], lk) /\ ~thesis[t].archived
  BY DEF ChangeLink, Open
<1> HIDE DEF lk
<1> QED BY <1>1, <1>2, <1>3, AtThesis, ReviseKeeps

LEMMA ArchiveThesisKeeps ==
  ASSUME ThesisInv, NEW t \in Theses, NEW c \in Clients, ArchiveThesis(c, t)
  PROVE  ThesisInv'
<1> DEFINE row == [thesis[t] EXCEPT !.archived = TRUE]
<1>1. row \in Rows /\ row.formal = thesis[t].formal
  BY AtThesis DEF Rows
<1>2. /\ Open(t) /\ UNCHANGED <<evidence, deltas, view, reviewed>>
      /\ Revise(t, row, links[t]) /\ thesis[t].formal = "legacy"
  BY DEF ArchiveThesis, Open, Formal
<1> HIDE DEF row
<1>3. LinksAreSound(links[t], evidence)
  BY AtThesis DEF Sound
<1> QED BY <1>1, <1>2, <1>3, AtThesis, ReviseKeeps

LEMMA BeginKeeps ==
  ASSUME ThesisInv, NEW t \in Theses, BeginFormalization(t)
  PROVE  ThesisInv'
<1> DEFINE row == [thesis[t] EXCEPT !.formal = "draft"]
<1>1. /\ row \in Rows /\ row.formal = "draft" /\ row.archived = thesis[t].archived
      /\ row.content = thesis[t].content /\ row.revision = thesis[t].revision
  BY AtThesis DEF Rows
<1>2. /\ thesis' = [thesis EXCEPT ![t] = row]
      /\ links' = links /\ evidence' = evidence /\ revisions' = revisions /\ deltas' = deltas /\ view' = view /\ reviewed' = reviewed
      /\ thesis[t].formal = "legacy" /\ ~thesis[t].archived
  BY DEF BeginFormalization, Formal, ThesisInv, Shapes
<1> HIDE DEF row
<1>3. Sound(row, links[t], evidence, revisions[t], deltas[t], reviewed[t])
  BY <1>1, <1>2, AtThesis, BeginSound
<1>4. OpenRow(thesis[t])
  BY <1>2 DEF OpenRow
<1>5. \A c \in Clients : Names(view[c], t, row, links[t], evidence)
  BY <1>1, <1>4, AtThesis, NamesKept
<1>6. /\ links' = [links EXCEPT ![t] = links[t]]
      /\ revisions' = [revisions EXCEPT ![t] = revisions[t]]
      /\ deltas' = [deltas EXCEPT ![t] = deltas[t]]
      /\ reviewed' = [reviewed EXCEPT ![t] = reviewed[t]]
      /\ links[t] \in Links /\ evidence' = evidence /\ view' = view
  BY <1>2, AtThesis
<1> QED BY <1>1, <1>2, <1>3, <1>5, <1>6, OneThesis

\* Confirmation names the revision that was read; it is the present state.
LEMMA ConfirmKeeps ==
  ASSUME ThesisInv, NEW t \in Theses, NEW c \in Clients, ConfirmFormalization(c, t)
  PROVE  ThesisInv'
<1> DEFINE row == [thesis[t] EXCEPT !.formal = "confirmed"]
           rd == {<<view[c].content, view[c].evidence>>}
<1>1. /\ row \in Rows /\ row.formal = "confirmed" /\ row.archived = thesis[t].archived
      /\ row.content = thesis[t].content /\ row.revision = thesis[t].revision
      /\ row.ready = thesis[t].ready
  BY AtThesis DEF Rows
<1>2. /\ thesis' = [thesis EXCEPT ![t] = row] /\ reviewed' = [reviewed EXCEPT ![t] = rd]
      /\ links' = links /\ evidence' = evidence /\ revisions' = revisions /\ deltas' = deltas /\ view' = view
      /\ thesis[t].formal = "draft" /\ thesis[t].ready
      /\ view[c].thesis = t /\ view[c].revision = thesis[t].revision
  BY DEF ConfirmFormalization, Formal, Expects, ThesisInv, Shapes
<1>3. ~thesis[t].archived /\ OpenRow(thesis[t])
  BY <1>2, AtThesis DEF Sound, ReviewIsKept, OpenRow
<1>4. /\ view[c].content = thesis[t].content
      /\ view[c].evidence = Linked(links[t], evidence)
  BY <1>2, <1>3, AtThesis DEF Names
<1>5. rd \in Readings /\ rd = {<<thesis[t].content, Linked(links[t], evidence)>>}
  <2>1. view[c].content \in SUBSET Nat /\ view[c].evidence \in SUBSET Items
    BY DEF ThesisInv, Shapes
  <2> QED BY <1>4, <2>1 DEF Readings
<1> HIDE DEF row, rd
<1>6. Sound(row, links[t], evidence, revisions[t], deltas[t], rd)
  <2>1. Sound(thesis[t], links[t], evidence, revisions[t], deltas[t], reviewed[t])
    BY AtThesis
  <2>2. /\ row \in Rows /\ row.formal = "confirmed" /\ ~row.archived /\ row.ready
        /\ row.content = thesis[t].content /\ row.revision = thesis[t].revision
    BY <1>1, <1>2, <1>3
  <2> QED BY <1>2, <1>5, <2>1, <2>2, ConfirmSound
<1>7. ~OpenRow(row)
  BY <1>1 DEF OpenRow
<1>8. \A d \in Clients : Names(view[d], t, row, links[t], evidence)
  BY <1>1, <1>7, AtThesis, NamesKept
<1>9. /\ links' = [links EXCEPT ![t] = links[t]]
      /\ revisions' = [revisions EXCEPT ![t] = revisions[t]]
      /\ deltas' = [deltas EXCEPT ![t] = deltas[t]]
      /\ links[t] \in Links /\ evidence' = evidence /\ view' = view
  BY <1>2, AtThesis
<1> QED BY <1>1, <1>2, <1>6, <1>8, <1>9, OneThesis

LEMMA FreezeKeeps ==
  ASSUME ThesisInv, NEW t \in Theses, NEW c \in Clients, FreezeFormalization(c, t)
  PROVE  ThesisInv'
<1> DEFINE row == [thesis[t] EXCEPT !.formal = "frozen", !.revision = thesis[t].revision + 1,
                                    !.frozen = thesis[t].revision + 1]
           s == [Last(revisions[t]) EXCEPT !.kind = "FORMAL_FREEZE"]
           revs == Append(revisions[t], s)
<1>1. /\ row \in Rows /\ row.formal = "frozen" /\ row.archived = thesis[t].archived
      /\ row.content = thesis[t].content /\ row.revision = thesis[t].revision + 1
      /\ row.ready = thesis[t].ready /\ row.frozen = thesis[t].revision + 1
  BY AtThesis, FrozenRow
<1>2. Current(t) = Last(revisions[t])
  BY AtThesis DEF Current, Last, Sound, SoundTypes
<1>3. /\ thesis' = [thesis EXCEPT ![t] = row]
      /\ revisions' = [revisions EXCEPT ![t] = revs]
      /\ links' = links /\ evidence' = evidence /\ deltas' = deltas /\ view' = view /\ reviewed' = reviewed
      /\ thesis[t].formal = "confirmed"
  BY <1>2 DEF FreezeFormalization, Formal, ThesisInv, Shapes
<1>4. ~thesis[t].archived /\ thesis[t].ready
  BY <1>3, AtThesis DEF Sound, ReviewIsKept
<1> HIDE DEF row
<1>5. Sound(row, links[t], evidence, revs, deltas[t], reviewed[t])
  BY <1>1, <1>3, <1>4, AtThesis, FreezeSound
<1>6. \A d \in Clients : Names(view[d], t, row, links[t], evidence)
  BY <1>1, AtThesis, NamesOlder
<1> HIDE DEF s, revs
<1>7. /\ links' = [links EXCEPT ![t] = links[t]]
      /\ deltas' = [deltas EXCEPT ![t] = deltas[t]]
      /\ reviewed' = [reviewed EXCEPT ![t] = reviewed[t]]
      /\ links[t] \in Links /\ evidence' = evidence /\ view' = view
  BY <1>3, AtThesis
<1> QED BY <1>1, <1>3, <1>5, <1>6, <1>7, OneThesis

LEMMA ArchiveFormalizationKeeps ==
  ASSUME ThesisInv, NEW t \in Theses, NEW c \in Clients, ArchiveFormalization(c, t)
  PROVE  ThesisInv'
<1> DEFINE row == [thesis[t] EXCEPT !.archived = TRUE, !.revision = thesis[t].revision + 1]
           s == [revisions[t][thesis[t].frozen] EXCEPT !.kind = "FORMAL_ARCHIVE"]
           revs == Append(revisions[t], s)
<1>1. /\ row \in Rows /\ row.formal = thesis[t].formal /\ row.archived
      /\ row.content = thesis[t].content /\ row.revision = thesis[t].revision + 1
      /\ row.ready = thesis[t].ready /\ row.frozen = thesis[t].frozen
  BY AtThesis, ArchivedRow
<1>2. /\ thesis' = [thesis EXCEPT ![t] = row]
      /\ revisions' = [revisions EXCEPT ![t] = revs]
      /\ links' = links /\ evidence' = evidence /\ deltas' = deltas /\ view' = view /\ reviewed' = reviewed
      /\ thesis[t].formal = "frozen" /\ ~thesis[t].archived
  BY DEF ArchiveFormalization, ArchivedSnapshot, Formal, ThesisInv, Shapes
<1>3. thesis[t].ready
  BY <1>2, AtThesis DEF Sound, ReviewIsKept
<1> HIDE DEF row
<1>4. Sound(row, links[t], evidence, revs, deltas[t], reviewed[t])
  BY <1>1, <1>2, <1>3, AtThesis, ArchiveSound
<1>5. \A d \in Clients : Names(view[d], t, row, links[t], evidence)
  BY <1>1, AtThesis, NamesOlder
<1> HIDE DEF s, revs
<1>6. /\ links' = [links EXCEPT ![t] = links[t]]
      /\ deltas' = [deltas EXCEPT ![t] = deltas[t]]
      /\ reviewed' = [reviewed EXCEPT ![t] = reviewed[t]]
      /\ links[t] \in Links /\ evidence' = evidence /\ view' = view
  BY <1>2, AtThesis
<1> QED BY <1>1, <1>2, <1>4, <1>5, <1>6, OneThesis

LEMMA DeltaKeeps ==
  ASSUME ThesisInv, NEW t \in Theses, NEW terminal \in BOOLEAN, CreateThesisDelta(t, terminal)
  PROVE  ThesisInv'
<1>1. PICK quoted \in SUBSET Quotable(t) :
        deltas' = [deltas EXCEPT ![t] = Append(deltas[t],
          [base |-> thesis[t].frozen, terminal |-> terminal,
           evidence |-> {<<p[1], evidence[p[1]].version, p[2]>> : p \in quoted}])]
  BY DEF CreateThesisDelta, ThesisInv, Shapes
<1> DEFINE items == {<<p[1], evidence[p[1]].version, p[2]>> : p \in quoted}
           d == [base |-> thesis[t].frozen, terminal |-> terminal, evidence |-> items]
<1>2. items \in SUBSET Items
  <2>1. \A p \in quoted : p[1] \in Evidence /\ p[2] \in Stances
    BY DEF Quotable
  <2>2. \A p \in quoted : evidence[p[1]].version \in Nat
    BY <2>1, AtThesis DEF EvidenceRows
  <2> QED BY <2>1, <2>2 DEF Items
<1> HIDE DEF items
<1>3. d \in Deltas /\ d.base = thesis[t].frozen
  BY <1>2, AtThesis DEF Deltas, Rows
<1>4. deltas' = [deltas EXCEPT ![t] = Append(deltas[t], d)]
  BY <1>1 DEF items
<1>5. /\ thesis' = thesis /\ links' = links /\ evidence' = evidence /\ revisions' = revisions /\ view' = view /\ reviewed' = reviewed
      /\ thesis[t].formal = "frozen"
      /\ \A i \in DOMAIN deltas[t] : i = Len(deltas[t]) => ~deltas[t][i].terminal
  BY DEF CreateThesisDelta, Formal, Continues
<1> HIDE DEF d
<1>6. Sound(thesis[t], links[t], evidence, revisions[t], Append(deltas[t], d), reviewed[t])
  BY <1>3, <1>5, AtThesis, DeltaSound
<1> DEFINE ds == Append(deltas[t], d)
<1> HIDE DEF ds
<1>7. /\ links' = [links EXCEPT ![t] = links[t]] /\ thesis' = [thesis EXCEPT ![t] = thesis[t]]
      /\ revisions' = [revisions EXCEPT ![t] = revisions[t]]
      /\ reviewed' = [reviewed EXCEPT ![t] = reviewed[t]]
      /\ links[t] \in Links /\ thesis[t] \in Rows /\ evidence' = evidence /\ view' = view
      /\ \A c \in Clients : Names(view[c], t, thesis[t], links[t], evidence)
  BY <1>5, AtThesis
<1>8. /\ deltas' = [deltas EXCEPT ![t] = ds]
      /\ Sound(thesis[t], links[t], evidence, revisions[t], ds, reviewed[t])
  BY <1>4, <1>6 DEF ds
<1> QED BY <1>7, <1>8, OneThesis

--------------------------------------------------------------------------------
(***************************************************************************)
(* Reading.                                                                *)
(***************************************************************************)
LEMMA AggregateType ==
  ASSUME ThesisInv, NEW t \in Theses, Exists(t)
  PROVE  /\ Aggregate(t).content \in SUBSET Nat /\ Aggregate(t).evidence \in SUBSET Items
         /\ Open(t) => /\ Aggregate(t).content = thesis[t].content
                       /\ Aggregate(t).evidence = Linked(links[t], evidence)
<1>1. Linked(links[t], evidence) \in SUBSET Items /\ thesis[t].content \in SUBSET Nat
  BY AtThesis, LinkedType DEF Rows
<1>2. /\ Live(t).content = thesis[t].content
      /\ Live(t).evidence = Linked(links[t], evidence)
  BY <1>1, SnapshotType DEF Live
<1>3. Current(t) \in Snapshots
  <2>1. /\ revisions[t] \in Seq(Snapshots) /\ Len(revisions[t]) = thesis[t].revision
        /\ thesis[t].revision # 0
    BY AtThesis DEF Sound, SoundTypes, LastIsPresent, Exists
  <2>2. thesis[t].revision \in 1..Len(revisions[t])
    BY <2>1, AtThesis DEF Rows
  <2> QED BY <2>1, <2>2 DEF Current
<1>4. Current(t).content \in SUBSET Nat /\ Current(t).evidence \in SUBSET Items
  BY <1>3 DEF Snapshots
<1>5. Open(t) => Aggregate(t) = Live(t)
  BY DEF Open, Aggregate, Formal
<1>6. Aggregate(t) = Live(t) \/ Aggregate(t) = Current(t)
  BY DEF Aggregate
<1> QED BY <1>1, <1>2, <1>4, <1>5, <1>6

LEMMA ReadThesisKeeps ==
  ASSUME ThesisInv, NEW t \in Theses, NEW c \in Clients, ReadThesis(c, t)
  PROVE  ThesisInv'
<1> DEFINE v == [thesis |-> t, revision |-> thesis[t].revision,
                 content |-> Aggregate(t).content, evidence |-> Aggregate(t).evidence]
<1>1. /\ Exists(t) /\ view' = [view EXCEPT ![c] = v]
      /\ thesis' = thesis /\ links' = links /\ evidence' = evidence
      /\ revisions' = revisions /\ deltas' = deltas /\ reviewed' = reviewed
  BY DEF ReadThesis
<1>2. /\ v.thesis = t /\ v.revision = thesis[t].revision
      /\ v.content = Aggregate(t).content /\ v.evidence = Aggregate(t).evidence
      /\ v \in [thesis : Theses \union {None}, revision : Nat, content : SUBSET Nat,
                evidence : SUBSET Items]
  BY <1>1, AggregateType, AtThesis DEF Rows
<1> HIDE DEF v
<1>3. Shapes'
  BY <1>1, <1>2 DEF ThesisInv, Shapes
<1>4. ASSUME NEW u \in Theses PROVE SoundAt(u)'
  BY <1>1 DEF ThesisInv, SoundAt
<1>5. Names(v, t, thesis[t], links[t], evidence)
  <2>1. thesis[t].revision \in 1..thesis[t].revision
    BY <1>1, AtThesis DEF Sound, LastIsPresent, Exists, Rows
  <2> QED BY <1>1, <1>2, <2>1, AggregateType DEF Names, Open, OpenRow
<1>6. ASSUME NEW d \in Clients, NEW u \in Theses PROVE NamesAt(d, u)'
  <2>1. view'[d] = IF d = c THEN v ELSE view[d]
    BY <1>1 DEF ThesisInv, Shapes
  <2>2. Names(v, u, thesis[u], links[u], evidence)
    BY <1>2, <1>5 DEF Names
  <2> QED BY <1>1, <2>1, <2>2 DEF ThesisInv, NamesAt
<1> QED BY <1>3, <1>4, <1>6 DEF ThesisInv

--------------------------------------------------------------------------------
(***************************************************************************)
(* Evidence changes for all Theses at once.                                *)
(***************************************************************************)
LEMMA ChangeEvidenceKeeps ==
  ASSUME ThesisInv, NEW e \in Evidence, NEW row \in [version : Nat, deleted : BOOLEAN],
         row.version # 0, ChangeEvidence(e, row)
  PROVE  ThesisInv'
<1> DEFINE ev == [evidence EXCEPT ![e] = row]
           Row(t) == [thesis[t] EXCEPT !.revision = thesis[t].revision + 1]
           Revs(t) == Append(revisions[t],
                             Snapshot("CONTENT", thesis[t].content, Linked(links[t], ev)))
<1>1. /\ evidence' = ev
      /\ thesis' = [t \in Theses |-> IF Follows(t, e) THEN Row(t) ELSE thesis[t]]
      /\ revisions' = [t \in Theses |-> IF Follows(t, e) THEN Revs(t) ELSE revisions[t]]
      /\ links' = links /\ deltas' = deltas /\ view' = view /\ reviewed' = reviewed
  BY DEF ChangeEvidence
<1>2. ev \in EvidenceRows
  BY DEF ThesisInv, Shapes, EvidenceRows
<1>3. ASSUME NEW t \in Theses PROVE LinksAreSound(links[t], ev)
  BY AtThesis DEF Sound, LinksAreSound, EvidenceRows
<1>4. ASSUME NEW t \in Theses, ~Follows(t, e), OpenRow(thesis[t])
      PROVE  \A x \in Evidence : links[t][x] # None => ev[x] = evidence[x]
  BY <1>4, AtThesis DEF Follows, Open, OpenRow, EvidenceRows
<1>5. ASSUME NEW t \in Theses
      PROVE  /\ Row(t) \in Rows /\ Row(t).formal = thesis[t].formal
             /\ Row(t).archived = thesis[t].archived /\ Row(t).content = thesis[t].content
             /\ Row(t).revision = thesis[t].revision + 1
  BY AtThesis DEF Rows
<1> HIDE DEF ev, Row
<1>6. ASSUME NEW t \in Theses, Follows(t, e)
      PROVE  /\ Sound(Row(t), links[t], ev, Revs(t), deltas[t], reviewed[t])
             /\ \A c \in Clients : Names(view[c], t, Row(t), links[t], ev)
  <2>1. OpenRow(thesis[t]) /\ ~Row(t).archived
    BY <1>5, <1>6 DEF Follows, Open, OpenRow
  <2>2. Revs(t) = Append(revisions[t],
                         Snapshot("CONTENT", Row(t).content, Linked(links[t], ev)))
    BY <1>5
  <2>3. Sound(thesis[t], links[t], evidence, revisions[t], deltas[t], reviewed[t])
        /\ links[t] \in Links
    BY AtThesis
  <2>4. Sound(Row(t), links[t], ev,
              Append(revisions[t], Snapshot("CONTENT", Row(t).content, Linked(links[t], ev))),
              deltas[t], reviewed[t])
    BY <1>2, <1>3, <1>5, <2>1, <2>3, ReviseSound
  <2>5. \A c \in Clients : Names(view[c], t, Row(t), links[t], ev)
    BY <1>5, AtThesis, NamesOlder
  <2> QED BY <2>2, <2>4, <2>5
<1>7. ASSUME NEW t \in Theses, ~Follows(t, e)
      PROVE  /\ Sound(thesis[t], links[t], ev, revisions[t], deltas[t], reviewed[t])
             /\ \A c \in Clients : Names(view[c], t, thesis[t], links[t], ev)
  <2>1. Sound(thesis[t], links[t], ev, revisions[t], deltas[t], reviewed[t])
    BY <1>2, <1>3, <1>4, <1>7, AtThesis, EvidenceSound
  <2>2. OpenRow(thesis[t]) => Linked(links[t], ev) = Linked(links[t], evidence)
    BY <1>2, <1>4, <1>7, AtThesis, LinkedDepends
  <2>3. \A c \in Clients : Names(view[c], t, thesis[t], links[t], ev)
    BY <2>2, AtThesis, NamesKept
  <2> QED BY <2>1, <2>3
<1> HIDE DEF Revs
<1>8. ASSUME NEW t \in Theses PROVE SoundAt(t)'
  BY <1>1, <1>6, <1>7 DEF SoundAt
<1>9. ASSUME NEW c \in Clients, NEW t \in Theses PROVE NamesAt(c, t)'
  BY <1>1, <1>6, <1>7 DEF NamesAt
<1>10. Shapes'
  <2>1. ASSUME NEW t \in Theses PROVE thesis'[t] \in Rows /\ revisions'[t] \in Seq(Snapshots)
    BY <1>8 DEF SoundAt, Sound, SoundTypes
  <2>2. thesis' \in [Theses -> Rows] /\ revisions' \in [Theses -> Seq(Snapshots)]
    BY <1>1, <2>1
  <2> QED BY <1>1, <1>2, <2>2 DEF ThesisInv, Shapes
<1> QED BY <1>8, <1>9, <1>10 DEF ThesisInv

LEMMA CreateEvidenceKeeps ==
  ASSUME ThesisInv, NEW e \in Evidence, CreateEvidence(e)
  PROVE  ThesisInv'
<1> DEFINE ev == [evidence EXCEPT ![e].version = 1]
<1>1. /\ evidence' = ev /\ evidence[e].version = 0
      /\ thesis' = thesis /\ links' = links /\ revisions' = revisions
      /\ deltas' = deltas /\ view' = view /\ reviewed' = reviewed
  BY DEF CreateEvidence
<1>2. ev \in EvidenceRows /\ ev[e].version = 1 /\ \A x \in Evidence \ {e} : ev[x] = evidence[x]
  BY DEF ThesisInv, Shapes, EvidenceRows
<1> HIDE DEF ev
<1>3. ASSUME NEW t \in Theses
      PROVE  /\ LinksAreSound(links[t], ev)
             /\ \A x \in Evidence : links[t][x] # None => ev[x] = evidence[x]
  BY <1>1, <1>2, AtThesis DEF Sound, LinksAreSound
<1>4. ASSUME NEW t \in Theses PROVE SoundAt(t)'
  <2>1. Sound(thesis[t], links[t], ev, revisions[t], deltas[t], reviewed[t])
    BY <1>2, <1>3, AtThesis, EvidenceSound
  <2> QED BY <1>1, <2>1 DEF SoundAt
<1>5. ASSUME NEW c \in Clients, NEW t \in Theses PROVE NamesAt(c, t)'
  <2>1. Linked(links[t], ev) = Linked(links[t], evidence)
    BY <1>2, <1>3, AtThesis, LinkedDepends
  <2>2. Names(view[c], t, thesis[t], links[t], ev)
    BY <2>1, AtThesis, NamesKept
  <2> QED BY <1>1, <2>2 DEF NamesAt
<1>6. Shapes'
  BY <1>1, <1>2 DEF ThesisInv, Shapes
<1> QED BY <1>4, <1>5, <1>6 DEF ThesisInv

--------------------------------------------------------------------------------
(***************************************************************************)
(* Every step.                                                             *)
(***************************************************************************)
LEMMA UpdateEvidenceKeeps ==
  ASSUME ThesisInv, NEW e \in Evidence, UpdateEvidence(e)
  PROVE  ThesisInv'
<1> DEFINE row == [version |-> evidence[e].version + 1, deleted |-> FALSE]
<1>1. evidence[e].version \in Nat
  BY DEF ThesisInv, Shapes, EvidenceRows
<1>2. row \in [version : Nat, deleted : BOOLEAN] /\ row.version # 0
  BY <1>1
<1>3. ChangeEvidence(e, row)
  BY DEF UpdateEvidence
<1> HIDE DEF row
<1> QED BY <1>2, <1>3, ChangeEvidenceKeeps

LEMMA SoftDeleteEvidenceKeeps ==
  ASSUME ThesisInv, NEW e \in Evidence, SoftDeleteEvidence(e)
  PROVE  ThesisInv'
<1> DEFINE row == [evidence[e] EXCEPT !.deleted = TRUE]
<1>1. evidence[e] \in [version : Nat, deleted : BOOLEAN]
  BY DEF ThesisInv, Shapes, EvidenceRows
<1>2. evidence[e].version # 0 /\ ChangeEvidence(e, row)
  BY DEF SoftDeleteEvidence, Usable
<1>3. row \in [version : Nat, deleted : BOOLEAN] /\ row.version # 0
  BY <1>1, <1>2
<1> HIDE DEF row
<1> QED BY <1>2, <1>3, ChangeEvidenceKeeps

LEMMA ClientNextKeeps ==
  ASSUME ThesisInv, NEW t \in Theses, NEW c \in Clients, ClientNext(c, t)
  PROVE  ThesisInv'
<1>1. CASE ReadThesis(c, t)
  BY <1>1, ReadThesisKeeps
<1>2. CASE UpdateThesis(c, t)
  BY <1>2, UpdateThesisKeeps
<1>3. ASSUME NEW e \in Evidence, NEW s \in Stances, LinkEvidence(c, t, e, s) PROVE ThesisInv'
  BY <1>3, LinkEvidenceKeeps
<1>4. ASSUME NEW e \in Evidence, NEW s \in Stances \union {None}, ChangeLink(c, t, e, s)
      PROVE ThesisInv'
  BY <1>4, ChangeLinkKeeps
<1>5. CASE ArchiveThesis(c, t)
  BY <1>5, ArchiveThesisKeeps
<1>6. CASE ConfirmFormalization(c, t)
  BY <1>6, ConfirmKeeps
<1>7. CASE FreezeFormalization(c, t)
  BY <1>7, FreezeKeeps
<1>8. CASE ArchiveFormalization(c, t)
  BY <1>8, ArchiveFormalizationKeeps
<1> QED BY <1>1, <1>2, <1>3, <1>4, <1>5, <1>6, <1>7, <1>8 DEF ClientNext

LEMMA NextKeeps ==
  ASSUME ThesisInv, [Next]_vars
  PROVE  ThesisInv'
<1>1. ASSUME NEW t \in Theses, NEW c \in Clients, ClientNext(c, t) PROVE ThesisInv'
  BY <1>1, ClientNextKeeps
<1>2. ASSUME NEW t \in Theses, CreateThesis(t) PROVE ThesisInv'
  BY <1>2, CreateThesisKeeps
<1>3. ASSUME NEW t \in Theses, BeginFormalization(t) PROVE ThesisInv'
  BY <1>3, BeginKeeps
<1>4. ASSUME NEW t \in Theses, NEW terminal \in BOOLEAN, CreateThesisDelta(t, terminal)
      PROVE ThesisInv'
  BY <1>4, DeltaKeeps
<1>5. ASSUME NEW e \in Evidence, CreateEvidence(e) PROVE ThesisInv'
  BY <1>5, CreateEvidenceKeeps
<1>6. ASSUME NEW e \in Evidence, UpdateEvidence(e) PROVE ThesisInv'
  BY <1>6, UpdateEvidenceKeeps
<1>7. ASSUME NEW e \in Evidence, SoftDeleteEvidence(e) PROVE ThesisInv'
  BY <1>7, SoftDeleteEvidenceKeeps
<1>8. CASE UNCHANGED vars
  BY <1>8 DEF vars, ThesisInv, Shapes, SoundAt, NamesAt
<1> QED BY <1>1, <1>2, <1>3, <1>4, <1>5, <1>6, <1>7, <1>8 DEF Next

--------------------------------------------------------------------------------
(***************************************************************************)
(* What a step does to the content of a Thesis, and to one that is frozen. *)
(***************************************************************************)
\* An accepted revision number stands for the present content.
LEMMA ExpectedIsPresent ==
  ASSUME ThesisInv, NEW c \in Clients, NEW t \in Theses, Open(t), Expects(c, t)
  PROVE  /\ view[c].content = thesis[t].content
         /\ view[c].evidence = Linked(links[t], evidence)
BY AtThesis DEF Names, Open, OpenRow, Expects

LEMMA ContentGrows ==
  ASSUME ThesisInv, Next, NEW t \in Theses
  PROVE  thesis[t].content \subseteq thesis'[t].content
<1>1. ASSUME NEW u \in Theses, NEW row,
             thesis' = [thesis EXCEPT ![u] = row], thesis[u].content \subseteq row.content
      PROVE  thesis[t].content \subseteq thesis'[t].content
  BY <1>1 DEF ThesisInv, Shapes
<1>2. ASSUME NEW u \in Theses, NEW row \in Rows, NEW lk,
             Revise(u, row, lk), thesis[u].content \subseteq row.content
      PROVE  thesis[t].content \subseteq thesis'[t].content
  <2> DEFINE row2 == [row EXCEPT !.revision = thesis[u].revision + 1]
  <2>1. thesis' = [thesis EXCEPT ![u] = row2]
    BY <1>2 DEF Revise
  <2>2. row2.content = row.content
    BY DEF Rows
  <2> HIDE DEF row2
  <2> QED BY <1>1, <1>2, <2>1, <2>2
<1>3. ASSUME NEW u \in Theses, CreateThesis(u) PROVE thesis[t].content \subseteq thesis'[t].content
  <2>1. thesis' = [thesis EXCEPT ![u] = Created] /\ thesis[u].content = {}
    BY <1>3, AtThesis DEF CreateThesis, Exists, Sound, LastIsPresent
  <2> QED BY <1>1, <2>1
<1>4. ASSUME NEW u \in Theses, BeginFormalization(u)
      PROVE  thesis[t].content \subseteq thesis'[t].content
  <2> DEFINE row == [thesis[u] EXCEPT !.formal = "draft"]
  <2>1. thesis' = [thesis EXCEPT ![u] = row]
    BY <1>4 DEF BeginFormalization, ThesisInv, Shapes
  <2>2. row.content = thesis[u].content
    BY AtThesis DEF Rows
  <2> HIDE DEF row
  <2> QED BY <1>1, <2>1, <2>2
<1>5. ASSUME NEW u \in Theses, NEW c \in Clients, UpdateThesis(c, u)
      PROVE  thesis[t].content \subseteq thesis'[t].content
  <2>1. PICK ready \in BOOLEAN :
          Revise(u, [thesis[u] EXCEPT !.content = view[c].content \union {thesis[u].revision + 1},
                                      !.ready = ready],
                 links[u])
    BY <1>5 DEF UpdateThesis
  <2> DEFINE row == [thesis[u] EXCEPT !.content = view[c].content \union {thesis[u].revision + 1},
                                      !.ready = ready]
  <2>2. view[c].content = thesis[u].content
    BY <1>5, ExpectedIsPresent DEF UpdateThesis
  <2>3. thesis[u].revision + 1 \in Nat /\ thesis[u].content \in SUBSET Nat
    BY AtThesis DEF Rows
  <2>4. row \in Rows /\ thesis[u].content \subseteq row.content
    <3>1. thesis[u] \in Rows
      BY AtThesis
    <3> QED BY <2>2, <2>3, <3>1 DEF Rows
  <2>5. Revise(u, row, links[u])
    BY <2>1
  <2> HIDE DEF row
  <2> QED BY <1>2, <2>4, <2>5
<1>6. ASSUME NEW u \in Theses, NEW c \in Clients, NEW e \in Evidence,
             NEW s \in Stances \union {None},
             LinkEvidence(c, u, e, s) \/ ChangeLink(c, u, e, s)
      PROVE  thesis[t].content \subseteq thesis'[t].content
  <2> DEFINE lk == [links[u] EXCEPT ![e] = s]
  <2>1. Revise(u, thesis[u], lk)
    BY <1>6 DEF LinkEvidence, ChangeLink
  <2> HIDE DEF lk
  <2> QED BY <1>2, <2>1, AtThesis
<1>7. ASSUME NEW u \in Theses, NEW c \in Clients, ArchiveThesis(c, u)
      PROVE  thesis[t].content \subseteq thesis'[t].content
  <2> DEFINE row == [thesis[u] EXCEPT !.archived = TRUE]
  <2>1. Revise(u, row, links[u])
    BY <1>7 DEF ArchiveThesis
  <2>2. row \in Rows /\ row.content = thesis[u].content
    BY AtThesis DEF Rows
  <2> HIDE DEF row
  <2> QED BY <1>2, <2>1, <2>2
<1>8. ASSUME NEW u \in Theses, NEW c \in Clients, ConfirmFormalization(c, u)
      PROVE  thesis[t].content \subseteq thesis'[t].content
  <2> DEFINE row == [thesis[u] EXCEPT !.formal = "confirmed"]
  <2>1. thesis' = [thesis EXCEPT ![u] = row]
    BY <1>8 DEF ConfirmFormalization, ThesisInv, Shapes
  <2>2. row.content = thesis[u].content
    BY AtThesis DEF Rows
  <2> HIDE DEF row
  <2> QED BY <1>1, <2>1, <2>2
<1>9. ASSUME NEW u \in Theses, NEW c \in Clients, FreezeFormalization(c, u)
      PROVE  thesis[t].content \subseteq thesis'[t].content
  <2> DEFINE row == [thesis[u] EXCEPT !.formal = "frozen", !.revision = thesis[u].revision + 1,
                                      !.frozen = thesis[u].revision + 1]
  <2>1. thesis' = [thesis EXCEPT ![u] = row]
    BY <1>9 DEF FreezeFormalization, ThesisInv, Shapes
  <2>2. row.content = thesis[u].content
    BY AtThesis, FrozenRow
  <2> HIDE DEF row
  <2> QED BY <1>1, <2>1, <2>2
<1>10. ASSUME NEW u \in Theses, NEW c \in Clients, ArchiveFormalization(c, u)
       PROVE  thesis[t].content \subseteq thesis'[t].content
  <2> DEFINE row == [thesis[u] EXCEPT !.archived = TRUE, !.revision = thesis[u].revision + 1]
  <2>1. thesis' = [thesis EXCEPT ![u] = row]
    BY <1>10 DEF ArchiveFormalization, ThesisInv, Shapes
  <2>2. row.content = thesis[u].content
    BY AtThesis, ArchivedRow
  <2> HIDE DEF row
  <2> QED BY <1>1, <2>1, <2>2
<1>11. ASSUME NEW e \in Evidence, UpdateEvidence(e) \/ SoftDeleteEvidence(e)
       PROVE  thesis[t].content \subseteq thesis'[t].content
  <2>1. thesis'[t] = thesis[t] \/ thesis'[t] = [thesis[t] EXCEPT !.revision = thesis[t].revision + 1]
    BY <1>11 DEF UpdateEvidence, SoftDeleteEvidence, ChangeEvidence
  <2> QED BY <2>1, AtThesis DEF Rows
<1>12. ASSUME thesis' = thesis PROVE thesis[t].content \subseteq thesis'[t].content
  BY <1>12
<1>13. ASSUME NEW u \in Theses, NEW c \in Clients, ClientNext(c, u)
       PROVE  thesis[t].content \subseteq thesis'[t].content
  BY <1>5, <1>6, <1>7, <1>8, <1>9, <1>10, <1>12, <1>13 DEF ClientNext, ReadThesis
<1>14. ASSUME NEW u \in Theses, NEW terminal \in BOOLEAN, CreateThesisDelta(u, terminal)
       PROVE  thesis' = thesis
  BY <1>14 DEF CreateThesisDelta
<1>15. ASSUME NEW e \in Evidence, CreateEvidence(e) PROVE thesis' = thesis
  BY <1>15 DEF CreateEvidence
<1> QED BY <1>3, <1>4, <1>11, <1>12, <1>13, <1>14, <1>15 DEF Next

\* A frozen Thesis stays frozen, and what was reviewed of it stays.
LEMMA FrozenStays ==
  ASSUME ThesisInv, Next, NEW t \in Theses, thesis[t].formal = "frozen"
  PROVE  thesis'[t].formal = "frozen" /\ reviewed'[t] = reviewed[t]
<1> DEFINE Stays == thesis'[t].formal = "frozen" /\ reviewed'[t] = reviewed[t]
<1>1. ASSUME NEW u \in Theses, u # t, NEW row, NEW rd,
             thesis' = [thesis EXCEPT ![u] = row], reviewed' = [reviewed EXCEPT ![u] = rd]
      PROVE  Stays
  BY <1>1 DEF ThesisInv, Shapes
<1>2. ASSUME NEW u \in Theses, u # t, NEW row, thesis' = [thesis EXCEPT ![u] = row],
             reviewed' = reviewed
      PROVE  Stays
  BY <1>2 DEF ThesisInv, Shapes
<1>3. ~Open(t) /\ t \in Theses
  BY DEF Open
<1>4. ASSUME NEW u \in Theses, Open(u), NEW row, NEW lk, Revise(u, row, lk),
             reviewed' = reviewed
      PROVE  Stays
  <2> DEFINE row2 == [row EXCEPT !.revision = thesis[u].revision + 1]
  <2>1. thesis' = [thesis EXCEPT ![u] = row2]
    BY <1>4 DEF Revise
  <2> HIDE DEF row2
  <2> QED BY <1>2, <1>3, <1>4, <2>1
<1>5. ASSUME NEW u \in Theses, CreateThesis(u) PROVE Stays
  BY <1>2, <1>5 DEF CreateThesis, Exists
<1>6. ASSUME NEW u \in Theses, BeginFormalization(u) PROVE Stays
  <2>1. u # t /\ reviewed' = reviewed
    BY <1>6 DEF BeginFormalization, Formal
  <2>2. thesis' = [thesis EXCEPT ![u] = [thesis[u] EXCEPT !.formal = "draft"]]
    BY <1>6 DEF BeginFormalization, ThesisInv, Shapes
  <2> QED BY <1>2, <2>1, <2>2
<1>7. ASSUME NEW u \in Theses, NEW c \in Clients, UpdateThesis(c, u) PROVE Stays
  <2>1. PICK ready \in BOOLEAN :
          Revise(u, [thesis[u] EXCEPT !.content = view[c].content \union {thesis[u].revision + 1},
                                      !.ready = ready],
                 links[u])
    BY <1>7 DEF UpdateThesis
  <2>2. Open(u) /\ reviewed' = reviewed
    BY <1>7 DEF UpdateThesis
  <2> QED BY <1>4, <2>1, <2>2
<1>8. ASSUME NEW u \in Theses, NEW c \in Clients, NEW e \in Evidence,
             NEW s \in Stances \union {None},
             LinkEvidence(c, u, e, s) \/ ChangeLink(c, u, e, s)
      PROVE  Stays
  BY <1>4, <1>8 DEF LinkEvidence, ChangeLink
<1>9. ASSUME NEW u \in Theses, NEW c \in Clients, ArchiveThesis(c, u) PROVE Stays
  BY <1>4, <1>9 DEF ArchiveThesis, Open, Formal
<1>10. ASSUME NEW u \in Theses, NEW c \in Clients, ConfirmFormalization(c, u) PROVE Stays
  <2>1. u # t /\ reviewed' = [reviewed EXCEPT ![u] = {<<view[c].content, view[c].evidence>>}]
    BY <1>10 DEF ConfirmFormalization, Formal
  <2>2. thesis' = [thesis EXCEPT ![u] = [thesis[u] EXCEPT !.formal = "confirmed"]]
    BY <1>10 DEF ConfirmFormalization, ThesisInv, Shapes
  <2> QED BY <1>1, <2>1, <2>2
<1>11. ASSUME NEW u \in Theses, NEW c \in Clients, FreezeFormalization(c, u) PROVE Stays
  <2>1. u # t /\ reviewed' = reviewed
    BY <1>11 DEF FreezeFormalization, Formal
  <2>2. thesis' = [thesis EXCEPT ![u] =
                     [thesis[u] EXCEPT !.formal = "frozen", !.revision = thesis[u].revision + 1,
                                       !.frozen = thesis[u].revision + 1]]
    BY <1>11 DEF FreezeFormalization, ThesisInv, Shapes
  <2> QED BY <1>2, <2>1, <2>2
<1>12. ASSUME NEW u \in Theses, NEW c \in Clients, ArchiveFormalization(c, u) PROVE Stays
  <2> DEFINE row == [thesis[u] EXCEPT !.archived = TRUE, !.revision = thesis[u].revision + 1]
  <2>1. thesis' = [thesis EXCEPT ![u] = row] /\ reviewed' = reviewed
    BY <1>12 DEF ArchiveFormalization, ThesisInv, Shapes
  <2>2. row.formal = thesis[u].formal
    BY AtThesis, ArchivedRow
  <2> HIDE DEF row
  <2> QED BY <2>1, <2>2 DEF ThesisInv, Shapes
<1>13. ASSUME NEW e \in Evidence, UpdateEvidence(e) \/ SoftDeleteEvidence(e) PROVE Stays
  BY <1>3, <1>13 DEF UpdateEvidence, SoftDeleteEvidence, ChangeEvidence, Follows
<1>14. ASSUME thesis' = thesis, reviewed' = reviewed PROVE Stays
  BY <1>14
<1>15. ASSUME NEW u \in Theses, NEW c \in Clients, ClientNext(c, u) PROVE Stays
  BY <1>7, <1>8, <1>9, <1>10, <1>11, <1>12, <1>14, <1>15 DEF ClientNext, ReadThesis
<1>16. ASSUME NEW u \in Theses, NEW terminal \in BOOLEAN, CreateThesisDelta(u, terminal)
       PROVE  Stays
  BY <1>14, <1>16 DEF CreateThesisDelta
<1>17. ASSUME NEW e \in Evidence, CreateEvidence(e) PROVE Stays
  BY <1>14, <1>17 DEF CreateEvidence
<1> QED BY <1>5, <1>6, <1>13, <1>15, <1>16, <1>17 DEF Next

--------------------------------------------------------------------------------
(***************************************************************************)
(* Theorems.                                                               *)
(***************************************************************************)
\* Every Thesis is sound and every client's revision names what it has read.
THEOREM ThesisInvariant == Spec => []ThesisInv
<1>1. Init => ThesisInv
  BY InitThesisInv
<1>2. ThesisInv /\ [Next]_vars => ThesisInv'
  BY NextKeeps
<1> QED BY <1>1, <1>2, PTL DEF Spec

\* Every state is of the declared types and stores every revision.
THEOREM TypesHold == Spec => []TypeOK
<1>1. ThesisInv => TypeOK
  <2> SUFFICES ASSUME ThesisInv PROVE TypeOK
    OBVIOUS
  <2>1. \A t \in Theses : Len(revisions[t]) = thesis[t].revision
    BY AtThesis DEF Sound, SoundTypes
  <2> QED BY <2>1 DEF ThesisInv, Shapes, TypeOK, EvidenceRows
<1> QED BY <1>1, ThesisInvariant, PTL

\* The revision a client sends back stands for all that it has read
\* (update_thesis, confirm_formalization).
THEOREM RevisionsNameStates == Spec => []RevisionNamesState
<1>1. ThesisInv => RevisionNamesState
  <2> SUFFICES ASSUME ThesisInv, NEW c \in Clients, NEW t \in Theses, Open(t), Expects(c, t)
               PROVE  view[c].content = Live(t).content /\ view[c].evidence = Live(t).evidence
    BY DEF RevisionNamesState
  <2>1. /\ view[c].content = thesis[t].content
        /\ view[c].evidence = Linked(links[t], evidence)
    BY AtThesis DEF Names, Open, OpenRow, Expects
  <2>2. /\ Live(t).content = thesis[t].content
        /\ Live(t).evidence = Linked(links[t], evidence)
    <3>1. thesis[t].content \in SUBSET Nat
      BY AtThesis DEF Rows
    <3> QED BY <3>1, AtThesis, LinkedType, SnapshotType DEF Live
  <2> QED BY <2>1, <2>2
<1> QED BY <1>1, ThesisInvariant, PTL

\* No accepted edit drops another (update_thesis).
THEOREM EditsAreKept == Spec => NoLostEdit
<1>1. ThesisInv /\ [Next]_vars
        => [\A t \in Theses : thesis[t].content \subseteq thesis'[t].content]_vars
  BY ContentGrows
<1> QED BY <1>1, ThesisInvariant, PTL DEF Spec, NoLostEdit

LEMMA CurrentIsLast ==
  ASSUME ThesisInv, NEW t \in Theses
  PROVE  Current(t) = Last(revisions[t])
BY AtThesis DEF Current, Last, Sound, SoundTypes

\* What is frozen is what the client who confirmed it had read
\* (confirm_formalization, freeze_formalization).
THEOREM FrozenIsReviewed == Spec => []FrozenAsReviewed
<1>1. ThesisInv => FrozenAsReviewed
  BY AtThesis, CurrentIsLast DEF FrozenAsReviewed, Formal, Sound, ReviewIsKept
<1> QED BY <1>1, ThesisInvariant, PTL

\* No legal sequence of operations makes a read refuse the ledger
\* (validate_persisted_thesis_chain and the other checks of a read).
THEOREM ReadsSucceed == Spec => []ReadsNeverFail
<1>1. ThesisInv => ReadsNeverFail
  <2> SUFFICES ASSUME ThesisInv, NEW t \in Theses, Exists(t) PROVE PassesReadChecks(t)
    BY DEF ReadsNeverFail
  <2> DEFINE row == thesis[t]
             revs == revisions[t]
  <2>1. /\ row \in Rows /\ revs \in Seq(Snapshots) /\ Len(revs) = row.revision
        /\ deltas[t] \in Seq(Deltas) /\ Current(t) = Last(revs)
        /\ Last(revs).content = row.content
    BY AtThesis, CurrentIsLast DEF Sound, SoundTypes, LastIsPresent, Exists
  <2>2. DOMAIN revs = 1..row.revision /\ DOMAIN revs = 1..Len(revs)
        /\ DOMAIN deltas[t] = 1..Len(deltas[t])
    BY <2>1
  <2>3. /\ row.formal \in {"draft", "confirmed"} => ~row.archived
        /\ row.formal \in {"confirmed", "frozen"} => row.ready
    BY AtThesis DEF Sound, ReviewIsKept
  <2>4. row.formal = "frozen" =>
          /\ row.frozen \in DOMAIN revs
          /\ revs[row.frozen].kind = "FORMAL_FREEZE" /\ revs[row.frozen].content = row.content
          /\ ~row.archived => row.revision = row.frozen
          /\ row.archived =>
               /\ row.revision = row.frozen + 1
               /\ Current(t) = [revs[row.frozen] EXCEPT !.kind = "FORMAL_ARCHIVE"]
          /\ \A n \in DOMAIN revs : revs[n].kind # "CONTENT" => n >= row.frozen
    BY <2>1, <2>2, AtThesis DEF Sound, FrozenShape
  <2>5. \A n \in DOMAIN revs :
          revs[n].kind # "CONTENT" => row.formal = "frozen" /\ n >= row.frozen
    BY <2>2, <2>4, AtThesis DEF Sound, BeforeFreeze
  <2>6. \A i \in DOMAIN deltas[t] :
          /\ row.formal = "frozen" /\ deltas[t][i].base = row.frozen
          /\ deltas[t][i].terminal => i = Len(deltas[t])
    <3>1. CASE row.formal = "frozen"
      BY <2>2, <3>1, AtThesis DEF Sound, DeltasAreSound
    <3>2. CASE row.formal # "frozen"
      BY <2>2, <3>2, AtThesis DEF Sound, BeforeFreeze
    <3> QED BY <3>1, <3>2
  <2>7. MainRowHolds(t)
    BY <2>3, <2>4 DEF MainRowHolds, Formal
  <2>8. ChainHolds(t)
    BY <2>1, <2>4 DEF ChainHolds, Formal
  <2>9. HistoryHolds(t)
    BY <2>2, <2>1, <2>5 DEF HistoryHolds, Formal
  <2>10. DeltasHold(t)
    BY <2>6 DEF DeltasHold, Formal
  <2> QED BY <2>7, <2>8, <2>9, <2>10 DEF PassesReadChecks
<1> QED BY <1>1, ThesisInvariant, PTL

\* A frozen Thesis reads the same for ever, archived or not
\* (archive_formalization, _get_thesis_aggregate).
THEOREM FrozenReadsStay == Spec => FrozenReadsAreFinal
<1>1. ThesisInv /\ ThesisInv' /\ [Next]_vars
        => [\A t \in Theses : Formal(t, "frozen") =>
              /\ Aggregate(t)'.content = Aggregate(t).content
              /\ Aggregate(t)'.evidence = Aggregate(t).evidence]_vars
  <2> SUFFICES ASSUME ThesisInv, ThesisInv', Next, NEW t \in Theses, Formal(t, "frozen")
               PROVE  /\ Aggregate(t)'.content = Aggregate(t).content
                      /\ Aggregate(t)'.evidence = Aggregate(t).evidence
    BY DEF vars
  <2>1. thesis'[t].formal = "frozen" /\ reviewed'[t] = reviewed[t]
    BY FrozenStays DEF Formal
  <2>2. Aggregate(t) = Last(revisions[t])
    BY CurrentIsLast DEF Aggregate
  <2>3. reviewed[t] = {<<Last(revisions[t]).content, Last(revisions[t]).evidence>>}
    BY AtThesis DEF Formal, Sound, ReviewIsKept
  <2>4. Sound(thesis'[t], links'[t], evidence', revisions'[t], deltas'[t], reviewed'[t])
    BY DEF ThesisInv, SoundAt
  <2>5. reviewed'[t] = {<<Last(revisions'[t]).content, Last(revisions'[t]).evidence>>}
    BY <2>1, <2>4 DEF Sound, ReviewIsKept
  <2>6. Aggregate(t)' = Last(revisions'[t])
    BY <2>1, <2>4 DEF Aggregate, Current, Formal, Last, Sound, SoundTypes
  <2>7. /\ Last(revisions'[t]).content = Last(revisions[t]).content
        /\ Last(revisions'[t]).evidence = Last(revisions[t]).evidence
    <3>1. <<Last(revisions'[t]).content, Last(revisions'[t]).evidence>>
            = <<Last(revisions[t]).content, Last(revisions[t]).evidence>>
      BY <2>1, <2>3, <2>5
    <3> QED BY <3>1
  <2> QED BY <2>2, <2>6, <2>7
<1> QED BY <1>1, ThesisInvariant, PTL DEF Spec, FrozenReadsAreFinal

================================================================================
