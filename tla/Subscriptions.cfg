SPECIFICATION Spec
CONSTANTS
  s1 = s1
  s2 = s2
  Subs = {s1, s2}
  Names <- AlertsAndStar
  Wildcard <- Star
  SyncSubs = {s1}
  EndErrors = {TRUE}
  MaxEvents = 2
INVARIANTS
  TypeOK
  NoEventLost
  TerminationReported
  DeliveredOnceInOrder
PROPERTIES
  GoneStaysQuiet
CHECK_DEADLOCK FALSE
