SPECIFICATION FairSpec
CONSTANTS
  l1 = l1
  l2 = l2
  Loads = {l1, l2}
  Briefs = {1, 2, 3}
  Before <- ThreeBriefs
  Filters = {"all", "COMPLETED"}
  Shown = 1
  PageSize = 1
  Bounds <- OneEvent
INVARIANTS
  FrontTypeOK
  SpinnersHaveALoad
PROPERTIES
  PolledViewCatchesUp
  EventsAreFollowed
  PolledListCatchesUp
CHECK_DEADLOCK FALSE
