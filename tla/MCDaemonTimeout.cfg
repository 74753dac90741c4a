SPECIFICATION DaemonSpec
CONSTANTS
  s1 = s1
  s2 = s2
  s3 = s3
  svc = svc
  Trace <- Traces
  Span <- Spans
  TraceOf <- TraceOfSpan
  Service = {svc}
  Handler = {h1, h2}
  Quiet = 1
  MaxAge = 2
  MaxSpans = 2
  Remember = 1
  MaxDecisions = 1
  ServiceRate = 0
  ServiceBurst = 1
  TokenUnit = 1
  KeptBy <- Kept
  RootService <- OneService
  MaxClock = 2
  DrainMayTimeOut = TRUE
  LastArrival = 1
INVARIANTS
  NothingLeftBehind
CHECK_DEADLOCK FALSE
