SPECIFICATION Spec
CONSTANTS
  s1 = s1
  s2 = s2
  s3 = s3
  big = big
  Span <- WithBig
  TraceOf <- TraceOfSpan
  EndOf <- EndOfSpan
  Oversized = {big}
  Retention = 2
  HourLen = 2
  MaxBatch = 2
  MaxClock = 4
  MaxFaults = 2
  MaxRestarts = 1
INVARIANTS
  TypeOK
  
  CrashIsNotCorruption

  
CHECK_DEADLOCK FALSE
