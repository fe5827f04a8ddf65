\* Three requests and a background worker share builds; every build may end in any way.
SPECIFICATION RefreshSpec
CONSTANTS
  r1 = r1  r2 = r2  r3 = r3  w1 = w1
  Requests = {r1, r2, r3}
  Workers = {w1}
  Outcomes = {"normal", "partial", "unusable"}
  MaxBuilds = 2
  MaxRounds = 2
\* The bounds end a behaviour.
CHECK_DEADLOCK FALSE
SYMMETRY Interchangeable
INVARIANTS
  SuccessIsStored
  MarkIsCurrent
  NothingIsOrphaned
PROPERTIES
  NewestWins
