SPECIFICATION Spec
CONSTANTS
  Values <- MCValues
  Messages <- MCMessages
  Others <- MCOthers
  MaxNesting = 5
  Shapes <- MCShapes
  Lines <- MCLines
  MaxLines = 4
CHECK_DEADLOCK FALSE
INVARIANTS
  ReadAsMeant
  TypedAgrees
  KeyFileAsDocumented
