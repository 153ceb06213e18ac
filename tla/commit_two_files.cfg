SPECIFICATION FairSpec
CONSTANTS
  f1 = f1
  f2 = f2
  a = a
  b = b
  r1 = r1
  r2 = r2
  r3 = r3
  Files = {f1, f2}
  Hashes = {a, b}
  Requests = {r1, r2}
  BlockLists <- CrossedLists
  Nobody = Nobody
  MaxUploads = 2
INVARIANTS
  TypeOK
  RefCountConserved
  BlockWaitsCrossFiles
  VersionsNumberedConsecutively
  CurrentIsNewest
PROPERTIES
  ImplementsHistory
  EveryCommitEnds
