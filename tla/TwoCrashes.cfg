SPECIFICATION FairSpec
CONSTANTS
  b1 = b1
  b2 = b2
  e1 = e1
  e2 = e2
  w1 = w1
  w2 = w2
  r1 = r1
  r2 = r2
  none = none
  Briefs = {b1}
  NoBrief = none
  NoExecution = none
  Executions = {e1}
  Workers = {w1}
  ProcessOf <- OneProcess
  Requests = {r1}
  MaxAttempts = 2
  MaxStalledCount = 1
  ReconcileLimit = 100
  Bounds <- TwoCrashesBounds
PROPERTIES
  ProcessingEnds
