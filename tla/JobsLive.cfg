SPECIFICATION FairSpec
CONSTANTS
  h1 = h1
  h2 = h2
  j1 = j1
  j2 = j2
  Handles = {h1}
  JobIds = {j1}
  Endings = {"SUCCESS", "FAILED"}
  Plain = {h1}
  MaxErrors = 2
PROPERTIES
  LossEndsWaiting
  WatchedJobEnds
  WatchLetsCallsPass
CHECK_DEADLOCK FALSE
