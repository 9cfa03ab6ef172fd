SPECIFICATION FairSpec
CONSTANTS
  m1 = m1  m2 = m2  r1 = r1  r2 = r2
  Free = Free
  Mutators <- TwoMutators
  Requesters <- OneRequester
  PollInterval = 2
  ChunkLengths <- SomeLengths
  MaxRequests = 2
INVARIANTS TypeOK WorldStopped AnnouncedIsStopped
PROPERTIES StopsTheWorld RequestReturns StoppedResumes
CHECK_DEADLOCK FALSE
