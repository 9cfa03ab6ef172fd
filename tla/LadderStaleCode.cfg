SPECIFICATION Spec
CONSTANTS
  c1 = c1  c2 = c2  m1 = m1  m2 = m2  k1 = k1  k2 = k2
  nullptr = nullptr
  Chunks <- OneChunk
  Threads <- OneThread
  Tasks <- TwoTasks
  Ops <- AllOps
  MayFail <- NoChunk
  kHotThreshold = 1
  kTier2Threshold = 2
  InvLimit = 4
  MaxEpoch = 1
INVARIANT InvalidatesAllCode
