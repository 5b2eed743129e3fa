CONSTANTS
  u = u
  v = v
  w = w
  f1 = f1
  f2 = f2
  f3 = f3
  f4 = f4
  p1 = p1
  p2 = p2
  p3 = p3
  NoBase = NoBase
  Chunk = {u, v}
  Feature = {f1, f2, f3, f4}
  SUPER_FEATURE_PER_CHUNK = 2
  FeaturesOf <- OverlapFeatures
  Client = {p1, p2}
  Method <- Methods
  ContainerSize = 1
  MaxChunk = 2
  MaxActive = 2
SPECIFICATION Spec
INVARIANTS NoSelfDelta
CHECK_DEADLOCK FALSE
