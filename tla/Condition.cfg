SPECIFICATION ConditionFairSpec
CONSTANTS
  Consumers = {c1, c2, c3}
  Producers = {p1, p2}
  Timed = {c1, c2}
  NoClient = NoClient
  MaxItems = 3
INVARIANTS
  WaitersAreAnnounced
PROPERTIES
  NoLostNotification
CHECK_DEADLOCK FALSE
