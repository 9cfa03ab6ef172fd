SPECIFICATION Spec
CONSTANTS
  Habits = {}
  FrameMax = 3
  TryMax = 2
  MaxLocals = 1
  MaxArgs = 1
  MaxOperands = 3
  MaxLeftover = 1
INVARIANTS TypeOK FramesNested OperandsNested TriesLive LocalsCleared
