SPECIFICATION FairSpec
CONSTANTS
  Events = {e1}
  Poison = {}
  Relays = {r1, r2}
  Consumers = {c1, c2}
  Nobody = Nobody
  RelayBatch = 1
  MaxAttempts = 2
  MaxFaults = 1
CHECK_DEADLOCK FALSE
PROPERTY EventsSettle
