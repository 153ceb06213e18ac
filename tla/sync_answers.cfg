SPECIFICATION SyncSpec
CONSTANTS
  a = a
  b = b
  f1 = f1
  f2 = f2
  d1 = d1
  d2 = d2
  c1 = c1
  c2 = c2
  c3 = c3
  Files = {f1, f2}
  Hashes = {a, b}
  BlockLists <- Lists
  Devices = {d1}
  Calls = {c1, c2}
  MaxVersions <- Versions
SYMMETRY Interchangeable
INVARIANTS
  SyncTypeOK
  AnswerCompletesVersion
  CursorNotBehindAnswer
PROPERTIES
  CursorGoesBackOnlyByOverlap
