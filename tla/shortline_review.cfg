\* Three requests of one generation, for two states of the materials.
SPECIFICATION FairSpec
CONSTANTS
  r1 = r1  r2 = r2  r3 = r3  g1 = g1  b1 = b1  b2 = b2
  None = None
  Requests = {r1, r2, r3}
  Generations = {g1}
  Bundles = {b1, b2}
  Populated <- BothPopulated
  Sections = 1
  MaxActive = 1
INVARIANTS
  NoCommitAfterCancel
  AnswersNameTheirVersion
PROPERTIES
  ImplementsArchive
  CapacityComesBack
