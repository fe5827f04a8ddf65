\* Two processes store two observations and publish them through crashes.
SPECIFICATION Spec
CONSTANTS
  r1 = r1  r2 = r2  p1 = p1  p2 = p2  o1 = o1  o2 = o2  v1 = v1  v2 = v2
  q1 = q1  q2 = q2  k1 = k1
  None = None
  Requests = {r1, r2}
  Processes = {p1, p2}
  ProcessOf <- OneEach
  Observations = {o1, o2}
  Payloads = {v1, v2}
  Publications = {q1, q2}
  PublishedAs <- StateOfPayload
  Keys = {k1}
  KeyOf <- OneKey
  Encodings = {1, 2}
  MaxVintage = 2
INVARIANTS
  CommittedIsDurable
  ManifestMatchesArtifact
  RefusalsAreEarned
PROPERTIES
  ImplementsArchive
