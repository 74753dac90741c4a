SPECIFICATION Spec
CONSTANTS
  c1 = c1
  c2 = c2
  Client = {c1, c2}
  Requests <- MCRequests
  IdLen = 1
  Width = 3
  ServiceNameKey <- Name
  UnknownService <- Unknown
  Base = 4
  FloatLen = 2
  MaxRecord = 25
  MaxSpans = 2
  MaxBody = 2
  MaxReported = 2
  MaxLost = 1
INVARIANTS
  SuccessMeansPassedOn
  ReportNamesRejected
  RetryDoesNotDuplicate
  AcceptedIsReadBack
  OnlyWholeSpansDecode
  TornSegmentKeepsWholeRecords
PROPERTIES
  ExportsEnd
CHECK_DEADLOCK FALSE
