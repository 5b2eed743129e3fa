CONSTANTS
  u = u
  v = v
  w = w
  x = x
  k1 = k1
  k2 = k2
  p1 = p1
  p2 = p2
  NoBase = NoBase
  Chunk = {u, v, w, x}
  Key = {k1, k2}
  KeyOf <- Keys2
  Client = {p1, p2}
  Versions <- SharedVersions
  ContainerSize = 1
  CacheSize = 2
  RecipeBatch = 2
  ChunkBatch = 2
  MaxDownload = 1
  MaxDeath = 1
SPECIFICATION FairSpec
INVARIANTS TypeOK RestoredIsUploaded NoDoubtAfterSerialUploads ExitOnlyInDoubt CachesFaithful
PROPERTIES DownloadEnds
CHECK_DEADLOCK FALSE
