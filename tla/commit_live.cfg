\* Two handlers of one process, and a Thesis bound and invalidated while they run.
SPECIFICATION FairSpec
CONSTANTS
  r1 = r1  r2 = r2  b1 = b1  b2 = b2  c1 = c1  d1 = d1
  None = None
  Backends = {b1}
  Requests = {r1, r2}
  HomeOf <- OneBackend
  Serves <- ServePair
  Campaigns = {c1}
  Drafts = {d1}
  ReviewBy <- ReviewAtThree
  DeltaStates = {"INVALIDATED"}
  MaxClock = 2
  MaxPreviews = 1
  MaxDeltas = 1
INVARIANTS
  NoLookahead
PROPERTIES
  LocksAreReleased
