SPECIFICATION Spec
CONSTANTS
  c1 = c1
  c2 = c2
  Calls = {c1, c2}
  Contexts = {"unbounded"}
  MaxFrames = 3
SYMMETRY CallSymmetry
INVARIANTS
  TypeOK
  NoStrandedCall
  SingleCloser
  AnswerIsMine
  HandshakeAgreed
  TableIsInFlight
PROPERTIES
  Implements
CHECK_DEADLOCK FALSE
