SPECIFICATION UndisturbedSpec
CONSTANTS
  l1 = l1
  l2 = l2
  Loads = {l1}
  Briefs = {1}
  Before <- OneBrief
  Filters = {"all", "COMPLETED"}
  Shown = 1
  PageSize = 1
  Bounds <- NoFault
PROPERTIES
  UpdatedAutomatically
CHECK_DEADLOCK FALSE
