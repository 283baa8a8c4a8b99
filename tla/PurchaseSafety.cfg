SPECIFICATION BoundedSpec
CONSTANTS
  Users = {u1, u2, u3}
  OrderNos = {o1, o2, o3}
  Requests = 2
  LoadModes = {"atomic"}
  LoadEntries = {"direct", "gated", "stream"}
  CheckedModes = {"atomic"}
  Clients = {c1, c2}
  InitialStock = 2
  MaxAttempts = 2
  StockModes = {"atomic", "pessimistic", "optimistic"}
  Entries = {"direct", "gated", "stream"}
  AdminOps = {"preheat", "disable"}
  LatePublish = FALSE
CHECK_DEADLOCK FALSE
SYMMETRY Symmetry
INVARIANTS
  LoadTypeOK
  StockBacksClaims
  OneClaimPerUser
  WinnerIsFound
  BusyMeansSales
  GateNeverAhead
  ReportAccounts
PROPERTIES
  LockedChecksHold
  CommittedIsTold
  SoundDiagnosis
