SPECIFICATION Spec
CONSTANTS
  h1 = h1
  h2 = h2
  j1 = j1
  j2 = j2
  Handles = {h1, h2}
  JobIds = {j1, j2}
  Endings = {"SUCCESS"}
  Plain = {}
  MaxErrors = 0
SYMMETRY JobSymmetry
INVARIANTS
  TypeOK
  OneWatcher
  ResultIsTheJobs
  FinalWakes
  CallbackUpToDate
PROPERTIES
  StubsPrecedeEvents
CHECK_DEADLOCK FALSE
