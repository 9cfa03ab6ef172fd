SPECIFICATION Spec
CONSTANTS
  n1 = n1  n2 = n2  n3 = n3
  Names = {n1, n2, n3}
  Values = {1, 2}
  Undef = Undef
  NoName = NoName
  Hash <- MCHash
  FirstCapacity = 2
  MaxFrames = 2
  Bases = {a, b, c}
  Sizes = {1, 2}
  HotHits = 1
  OldAge = 1
  FewHits = 1
  MaxUse = 2
  Types = {1, 2}
  Little = 2
  Some = 4
  Much = 6
  CoolDown = 2
  MaxSamples = 7
INVARIANTS TotalAddsUp GuardMeansOneType
PROPERTIES TablesAreScopes EvictsColdest
CHECK_DEADLOCK FALSE
