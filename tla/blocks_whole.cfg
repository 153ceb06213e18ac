SPECIFICATION Spec
CONSTANTS
  a = a
  b = b
  u1 = u1
  u2 = u2
  u3 = u3
  g1 = g1
  g2 = g2
  Hashes = {a}
  Uploads = {u1, u2}
  Reads = {g1}
  Backends = {"local"}
  MaxReleases = 0
INVARIANTS
  SettledBlocksAreWhole
