\* One account, two trades, three rows of events, one reader.
SPECIFICATION Spec
CONSTANTS
  Readers = {r1}
  TradeIds = {1, 2}
  Quantities = {1, 2}
  Amounts = {1}
  MaxEvents = 3
  MaxClock = 2
  Skew = 1
INVARIANTS
  TargetsResolve
  AuditChain
PROPERTIES
  StaysDerivable
  ReadsAreSnapshots
