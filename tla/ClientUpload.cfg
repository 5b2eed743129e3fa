CONSTANTS
  cl1 = cl1
  cl2 = cl2
  p = p
  q = q
  r = r
  f1 = f1
  f2 = f2
  f3 = f3
  f4 = f4
  f5 = f5
  f6 = f6
  Client = {cl1, cl2}
  Chunk = {p, q, r}
  Feature = {f1, f2, f3, f4, f5, f6}
  NoBase = NoBase
  SUPER_FEATURE_PER_CHUNK = 3
  FeaturesOf <- FeaturesOfPQR
  HeadOf <- Heads
  Files <- TwoFiles
  Methods <- TwoMethods
  ChunkBatch = 2
  RecipeBatch = 2
  MaxDeath = 1
SPECIFICATION FairSpec
INVARIANTS TypeOK BaseKeepsItsSeed SeedsOfSimilarChunks WholePairs RecipeMatchesKeys CompleteTogether
PROPERTIES UploadEnds
CHECK_DEADLOCK FALSE
