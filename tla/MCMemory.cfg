SPECIFICATION Spec
CONSTANTS
  Trace = {1, 2}
  SpanId = {1, 2, 3}
  Service = {"a", "b"}
  Name = {"x", "y"}
  Offered <- Spans
  Queries <- Searches
  Retention = 2
  MinuteLen = 2
  minuteIndexLimit = 1
  DurationBits = 3
  DefaultLimit = 1
  MaxLimit = 2
  MaxBatch = 2
  MaxClock = 8
INVARIANTS
  TypeOK
  IndexIsExact
  OneCopyPerSpan
  FindIsExact
  SummaryIsNamedRight
CHECK_DEADLOCK FALSE
