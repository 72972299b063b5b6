CONSTANTS
  Sessions = {s1, s2, s3}
  Addrs <- OneSource
  Burst = 1
  Rate = 1
  Cost = 1
  MaxEntries = 3
  MaxTime = 1
SPECIFICATION Spec
INVARIANT SourceBound
CHECK_DEADLOCK FALSE
