SPECIFICATION MCSpec
CONSTANTS
  NumRegs = 2
  WordBits = 4
  DoubleBits = 3
  CallerSaved = {1}
  Junk = 5000
  MaxRounds = 8
  Programs <- MCPrograms
  Graphs <- MCGraphs
  NodeKinds = {"Add"}
  NodeFlags = {}
  NodeTypes = {"Int"}
  Payloads = {0}
  EdgeKinds = {"Data"}
  MaxInputs = 2
  MaxNodes = 2
  MaxListed = 2
INVARIANTS
  HomesDisjoint
  RoomMeansFree
  HomesHoldValues
  JoltAgreesWithSpark
  SurgeAgreesWithJolt
  UsesExact
  NeededAlive
  DominatorsExact
  PassesSettle
CHECK_DEADLOCK FALSE
