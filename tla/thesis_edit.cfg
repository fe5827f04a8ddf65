\* Two clients edit, confirm, freeze and archive one Thesis.
SPECIFICATION Spec
CONSTANTS
  c1 = c1  c2 = c2  t1 = t1  e1 = e1  s1 = s1  s2 = s2
  None = None
  Clients = {c1, c2}
  Theses = {t1}
  Evidence = {e1}
  Matches <- OneSubject
  Stances = {s1, s2}
  MaxRevisions = 6
  MaxVersions = 2
  MaxDeltas = 2
INVARIANTS
  FrozenAsReviewed
  ReadsNeverFail
  RevisionNamesState
PROPERTIES
  NoLostEdit
  FrozenReadsAreFinal
