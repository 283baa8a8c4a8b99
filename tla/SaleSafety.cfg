SPECIFICATION Spec
CONSTANTS
  Users = {u1, u2}
  OrderNos = {o1, o2, o3}
  Workers = {w1, w2}
  InitialStock = 2
  BatchSize = 1
  MaxDeliveries = 2
  MaxFaults = 1
  AdminOps = {"preheat"}
  LatePublish = FALSE
CHECK_DEADLOCK FALSE
SYMMETRY Symmetry
INVARIANTS
  StockConserved
  OrdersWithinStock
  OneOrderPerUser
  NoReverseDrift
  NoTaskLost
  QueuedHasWork
PROPERTY ImplementsContract
