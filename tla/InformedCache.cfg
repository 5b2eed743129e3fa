CONSTANTS
  a = a
  x = x
  y = y
  t = t
  f1 = f1
  f2 = f2
  f3 = f3
  f4 = f4
  f5 = f5
  NoBase = NoBase
  Chunk = {a, x, y}
  Feature = {f1, f2, f3, f4}
  SUPER_FEATURE_PER_CHUNK = 2
  FeaturesOf <- ChainFeatures
  LastNPara = 2
  FeatureBatchSize = 2
  MaxUpload = 5
  MaxChunk = 2
  MaxClientCrash = 0
  MaxServerCrash = 0
  ServerCrashAt = {}
SPECIFICATION Spec
INVARIANTS InSync ServerNeverExits NeverStoredRaw
  RefCountExact NothingLeaks BaseStored CacheIsLastN
CHECK_DEADLOCK FALSE
