SPECIFICATION Spec
CONSTANTS
  h1 = h1
  h2 = h2
  j1 = j1
  j2 = j2
  Handles = {h1, h2}
  JobIds = {j1}
  Endings = {"SUCCESS"}
  Plain = {}
  MaxErrors = 0
PROPERTIES
  WatchedFirst
CHECK_DEADLOCK FALSE
