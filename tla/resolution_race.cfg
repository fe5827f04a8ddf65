\* Two processes resolve and reconcile one trade, under fairness of the requests.
SPECIFICATION FairSpec
CONSTANTS
  r1 = r1  r2 = r2  p1 = p1  p2 = p2  t1 = t1  d1 = d1  d2 = d2
  None = None
  Requests = {r1, r2}
  Processes = {p1, p2}
  ProcessOf <- OneEach
  Trades = {t1}
  Decisions = {d1, d2}
  Matches <- AllMatch
  Planned = {}
  Instants <- TwoInstants
  Tolerance = 1
INVARIANTS
  NoHindsight
  AnswersStand
PROPERTIES
  ImplementsResolutions
  GuardIsReleased
