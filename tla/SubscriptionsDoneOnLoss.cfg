SPECIFICATION FairSpec
CONSTANTS
  s1 = s1
  Subs = {s1}
  Names <- AlertsAndStar
  Wildcard <- Star
  SyncSubs = {s1}
  EndErrors = {TRUE}
  MaxEvents = 0
PROPERTIES
  DoneOnLoss
CHECK_DEADLOCK FALSE
