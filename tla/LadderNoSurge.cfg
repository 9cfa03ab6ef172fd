SPECIFICATION FairSpec
CONSTANTS
  c1 = c1  c2 = c2  m1 = m1  m2 = m2  k1 = k1  k2 = k2
  nullptr = nullptr
  Chunks <- OneChunk
  Threads <- OneThread
  Tasks <- TwoTasks
  Ops <- RunOnly
  MayFail <- NoChunk
  kHotThreshold = 1
  kTier2Threshold = 2
  InvLimit = 4
  MaxEpoch = 0
PROPERTY SurgeKicksOff
