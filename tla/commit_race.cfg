\* Two processes race for one proposal; the review instant passes.
SPECIFICATION Spec
CONSTANTS
  r1 = r1  r2 = r2  b1 = b1  b2 = b2  c1 = c1  d1 = d1
  None = None
  Backends = {b1, b2}
  Requests = {r1, r2}
  HomeOf <- TwoBackends
  Serves <- ServeRace
  Campaigns = {c1}
  Drafts = {d1}
  ReviewBy <- ReviewAtTwo
  DeltaStates = {"INVALIDATED"}
  MaxClock = 2
  MaxPreviews = 1
  MaxDeltas = 1
INVARIANTS
  BuyIsChallenged
  ActiveRestsOnBuy
  AnswersNameTheirRow
  LedgerInTime
PROPERTIES
  ImplementsLedger
