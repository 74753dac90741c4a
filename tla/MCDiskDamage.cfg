SPECIFICATION DamageSpec
CONSTANTS
  s1 = s1
  s2 = s2
  s3 = s3
  big = big
  Span <- Spans
  TraceOf <- TraceOfSpan
  EndOf <- EndOfSpan
  Oversized = {}
  Retention = 2
  HourLen = 2
  MaxBatch = 2
  MaxClock = 4
  MaxFaults = 0
  MaxRestarts = 1
INVARIANT DamageIsNotSkipped
CHECK_DEADLOCK FALSE
