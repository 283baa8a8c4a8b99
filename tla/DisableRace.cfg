SPECIFICATION Spec
CONSTANTS
  Users = {u1, u2}
  OrderNos = {o1}
  Workers = {w1}
  InitialStock = 1
  BatchSize = 1
  MaxDeliveries = 2
  MaxFaults = 0
  AdminOps = {"preheat", "disable"}
  LatePublish = FALSE
CHECK_DEADLOCK FALSE
PROPERTY GateStaysClosed
