SPECIFICATION FairSpec
CONSTANTS
  Callers = {c1, c2, c3}
  MaxAttempts = 2
  BreakerFailures = 2
  CallsOutlive = FALSE
INVARIANTS TypeOK OneProbe
PROPERTY ProbeGoesOut
