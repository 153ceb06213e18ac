SPECIFICATION FairFlowSpec
CONSTANTS
  x = x
  y = y
  f1 = f1
  Hashes <- ChunksOfThese
  Blocks = {0, 1}
  MaxAttempts = 2
  Concurrency = 1
  Uploads <- UploadCalls
  Reads = {}
  Backends = {"local"}
  MaxReleases = 0
  File = f1
  Bytes = {x, y}
  Contents <- TwoChunks
  ChunkSize = 2
  MaxCommits = 2
  Nobody = Nobody
INVARIANTS
  ReturnMeansStored
  NoUnknownBlock
  VersionsRebuildFile
  CountsAreExplained
PROPERTIES
  SavesTheFile
  UploadEnds
