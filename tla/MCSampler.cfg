SPECIFICATION Spec
CONSTANTS
  s1 = s1
  s2 = s2
  s3 = s3
  s4 = s4
  svc = svc
  Trace = {1, 2}
  Span = {s1, s2, s3, s4}
  TraceOf <- TraceOfTwo
  Service = {svc}
  Handler = {h1, h2}
  Quiet = 1
  MaxAge = 2
  MaxSpans = 2
  Remember = 3
  MaxDecisions = 2
  ServiceRate = 1
  ServiceBurst = 1
  TokenUnit = 2
  MaxClock = 2
  KeptBy <- Kept
  RootService <- OneService
INVARIANTS
  TypeOK
  BufferedIsExact
  HeldOnce
  StatsAddUp
  OneFatePerTrace
PROPERTIES
  ImplementsSampling
CHECK_DEADLOCK FALSE
