SPECIFICATION Spec
CONSTANTS
  s1 = s1
  s2 = s2
  s3 = s3
  s4 = s4
  svc = svc
  Trace = {1, 2, 3}
  Span = {s1, s2, s3, s4}
  TraceOf <- TraceOfFour
  Service = {svc}
  Handler = {h1}
  Quiet = 1
  MaxAge = 1
  MaxSpans = 3
  Remember = 1
  MaxDecisions = 2
  ServiceRate = 1
  ServiceBurst = 1
  TokenUnit = 1
  MaxClock = 3
  KeptBy <- Kept
  RootService <- OneService
INVARIANTS
  VerdictIsFollowed
  OrderFindsVerdicts
  NoStaleEntryBetweenSweeps
  RateIsCapped
PROPERTIES
  OldestVerdictGoesFirst
CHECK_DEADLOCK FALSE
