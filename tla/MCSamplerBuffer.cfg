SPECIFICATION Spec
CONSTANTS
  s1 = s1
  s2 = s2
  s3 = s3
  s4 = s4
  svc = svc
  Trace = {1, 2}
  Span = {s1, s2, s3}
  TraceOf <- TraceOfThree
  Service = {svc}
  Handler = {h1, h2}
  Quiet = 1
  MaxAge = 2
  MaxSpans = 2
  Remember = 1
  MaxDecisions = 1
  ServiceRate = 0
  ServiceBurst = 1
  TokenUnit = 1
  MaxClock = 2
  KeptBy <- Kept
  RootService <- OneService
INVARIANTS
  AwaitingWithinMaxSpans
CHECK_DEADLOCK FALSE
