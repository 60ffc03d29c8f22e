SPECIFICATION FairSpec
CONSTANTS
  b1 = b1
  b2 = b2
  e1 = e1
  e2 = e2
  w1 = w1
  w2 = w2
  r1 = r1
  r2 = r2
  none = none
  Briefs = {b1}
  NoBrief = none
  NoExecution = none
  Executions = {e1, e2}
  Workers = {w1, w2}
  ProcessOf <- TwoProcesses
  Requests = {r1, r2}
  MaxAttempts = 3
  MaxStalledCount = 1
  ReconcileLimit = 100
  Bounds <- WorkerCrashBounds
INVARIANTS
  TypeOK
  OneAnalysisAtATime
  ProcessingIsAttended
  FailedIsNotDelayed
  CallsAreBounded
PROPERTIES
  ResultOfCurrentText
  ProcessingEnds
  ImplementsLifecycle
