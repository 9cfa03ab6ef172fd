SPECIFICATION Spec
CONSTANTS
  Habits = {"catch_in_caller"}
  FrameMax = 3
  TryMax = 2
  MaxLocals = 1
  MaxArgs = 1
  MaxOperands = 3
  MaxLeftover = 1
PROPERTY ReturnRestoresCaller
