SPECIFICATION FairSpec
CONSTANTS
  a = a
  b = b
  u1 = u1
  u2 = u2
  u3 = u3
  g1 = g1
  g2 = g2
  Hashes = {a, b}
  Uploads = {u1, u2, u3}
  Reads = {g1}
  Backends = {"local", "s3"}
  MaxReleases = 2
INVARIANTS
  TypeOK
  AnswersAreCounted
  RowHasFile
  FoundIsKept
PROPERTIES
  RetryNeverWrites
  ZeroCountIsCollected
