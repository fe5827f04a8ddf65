\* Two handlers bind a Thesis, edit it and take one Campaign from DRAFT to CLOSED.
SPECIFICATION Spec
CONSTANTS
  r1 = r1  r2 = r2  c1 = c1  h1 = h1  t1 = t1
  None = None
  Requests = {r1, r2}
  Campaigns = {c1}
  Theses = {h1}
  Trades = {t1}
  Fits <- OneFit
  BuysFor <- BuysOfOne
  Commands <- ClosingCommands
  Ids <- FourIds
  MaxClock = 2
  MaxEdits = 1
SYMMETRY Handlers
INVARIANTS
  AuditMatchesStatus
  ClosedAtIsSound
  ActiveHadBuy
  AnchoredToFrozenRevision
