SPECIFICATION FairSpec
CONSTANTS
  c1 = c1
  Calls = {c1}
  Contexts = {"bounded", "unbounded"}
  MaxFrames = 3
PROPERTIES
  DeadlineBoundsCall
  TakenCallReturns
  LossEndsCalls
  ConnectReturns
CHECK_DEADLOCK FALSE
