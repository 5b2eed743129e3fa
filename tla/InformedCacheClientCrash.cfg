CONSTANTS
  a = a
  x = x
  y = y
  t = t
  f1 = f1
  f2 = f2
  f3 = f3
  f4 = f4
  f5 = f5
  NoBase = NoBase
  Chunk = {a, x, y}
  Feature = {f1, f2, f3, f4}
  SUPER_FEATURE_PER_CHUNK = 2
  FeaturesOf <- ChainFeatures
  LastNPara = 1
  FeatureBatchSize = 2
  MaxUpload = 4
  MaxChunk = 2
  MaxClientCrash = 1
  MaxServerCrash = 0
  ServerCrashAt = {}
SPECIFICATION Spec
INVARIANTS ServerNeverExits
CHECK_DEADLOCK FALSE
