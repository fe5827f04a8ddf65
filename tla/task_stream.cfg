\* A stream and a coroutine contend for one slot.
SPECIFICATION FairSpec
CONSTANTS
  s1 = s1  a1 = a1
  Streams = {s1}
  Coroutines = {a1}
  Slots = 1
  MaxEvents = 2
\* Every task is one call, which ends.
CHECK_DEADLOCK FALSE
INVARIANTS
  SlotCoversWork
  DoneIsComplete
  NoRunAhead
PROPERTIES
  SlotsComeBack
