SPECIFICATION StallSpec
CONSTANTS
  c1 = c1
  Calls = {c1}
  Contexts = {"bounded"}
  MaxFrames = 1
PROPERTIES
  DeadlineBoundsCall
CHECK_DEADLOCK FALSE
