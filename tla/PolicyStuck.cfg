SPECIFICATION FairSpec
CONSTANTS
  Callers = {c1, c2}
  MaxAttempts = 2
  BreakerFailures = 1
  CallsOutlive = FALSE
PROPERTY BreakerTriesAgain
