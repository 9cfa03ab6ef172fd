SPECIFICATION FairSpec
CONSTANTS
  m1 = m1  m2 = m2  r1 = r1  r2 = r2
  Free = Free
  Mutators <- OneMutator
  Requesters <- OneRequester
  PollInterval = 2
  ChunkLengths <- EndlessLoop
  MaxRequests = 2
PROPERTY EveryRequestReturns
CHECK_DEADLOCK FALSE
