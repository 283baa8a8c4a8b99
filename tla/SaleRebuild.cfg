SPECIFICATION Spec
CONSTANTS
  Users = {u1, u2}
  OrderNos = {o1, o2}
  Workers = {w1}
  InitialStock = 1
  BatchSize = 2
  MaxDeliveries = 2
  MaxFaults = 1
  AdminOps = {"preheat", "disable", "enable"}
  LatePublish = TRUE
CHECK_DEADLOCK FALSE
SYMMETRY Symmetry
INVARIANTS
  TypeOK
  BuyersWithinStock
  NoTaskLost
