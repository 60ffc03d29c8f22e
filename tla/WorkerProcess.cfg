SPECIFICATION FairSpec
CONSTANTS
  j1 = j1
  none = none
  Executions = {j1}
  NoExecution = none
  MaxAttempts = 2
  MaxStalledCount = 1
  Texts <- BothTexts
  Replies <- AllReplies
  Concurrency = 1
  Faults <- TwoKills
INVARIANTS
  TypeOK
  JobsKeepTheirConnections
  NothingOutlivesShutdown
  CopiedIffGivenUp
  CopyNamesTheError
  RepeatedForGoodReason
  StoredResultsFitTheSchema
PROPERTIES
  ShutdownEnds
  JobsFollowLifecycle
CHECK_DEADLOCK FALSE
