SPECIFICATION FairSpec
CONSTANTS
  h1 = h1
  h2 = h2
  j1 = j1
  j2 = j2
  Handles = {h1}
  JobIds = {j1}
  Endings = {"SUCCESS", "FAILED"}
  Plain = {}
  MaxErrors = 0
PROPERTIES
  LossEndsJobs
CHECK_DEADLOCK FALSE
