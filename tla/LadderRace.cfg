SPECIFICATION Spec
CONSTANTS
  c1 = c1  c2 = c2  m1 = m1  m2 = m2  k1 = k1  k2 = k2
  nullptr = nullptr
  Chunks <- OneChunk
  Threads <- TwoThreads
  Tasks <- TwoTasks
  Ops <- AllOps
  MayFail <- OneChunk
  kHotThreshold = 1
  kTier2Threshold = 2
  InvLimit = 3
  MaxEpoch = 1
SYMMETRY Symmetry
INVARIANTS TypeOK FlagTracksTask SingleFlight TierBacked
