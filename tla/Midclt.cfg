SPECIFICATION FairSpec
CONSTANTS
  Commands <- MCCommands
  MaxEvents = 3
  Blank = {1}
CHECK_DEADLOCK FALSE
INVARIANTS
  TypeOK
  ExitIsEarned
  NoDoubleClose
  EventsInOrder
  BarEndsFull
PROPERTIES
  DueRunExits
