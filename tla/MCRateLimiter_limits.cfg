CONSTANTS
  Sessions = {s1, s2, s3}
  Addrs <- MixedSources
  Burst = 1
  Rate = 2
  Cost = 3
  MaxEntries = 0
  MaxTime = 2
SPECIFICATION Spec
INVARIANTS TypeOK BucketBound SourcesIsolated CacheSound SameBucket
PROPERTY ImplementsGate
CHECK_DEADLOCK FALSE
