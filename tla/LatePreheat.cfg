SPECIFICATION Spec
CONSTANTS
  Users = {u1, u2}
  OrderNos = {o1, o2}
  Workers = {w1}
  InitialStock = 2
  BatchSize = 1
  MaxDeliveries = 2
  MaxFaults = 0
  AdminOps = {"preheat"}
  LatePublish = TRUE
CHECK_DEADLOCK FALSE
INVARIANT OneOrderPerUser
