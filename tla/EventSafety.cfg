SPECIFICATION CheckSpec
CONSTANTS
  Events = {e1, e2}
  Poison = {e2}
  Relays = {r1, r2}
  Consumers = {c1, c2}
  Nobody = Nobody
  RelayBatch = 2
  MaxAttempts = 3
  MaxFaults = 1
CHECK_DEADLOCK FALSE
SYMMETRY Symmetry
INVARIANTS
  TypeOK
  PublishedReachedTopic
  NoEventSkipped
  OneNotification
PROPERTIES
  LeaseIsExclusive
  CleanReport
