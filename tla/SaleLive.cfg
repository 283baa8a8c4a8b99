SPECIFICATION FairSpec
CONSTANTS
  Users = {u1, u2}
  OrderNos = {o1, o2}
  Workers = {w1, w2}
  InitialStock = 1
  BatchSize = 1
  MaxDeliveries = 2
  MaxFaults = 1
  AdminOps = {"preheat"}
  LatePublish = FALSE
CHECK_DEADLOCK FALSE
PROPERTIES
  TasksSettle
  ResultsSettle
