SPECIFICATION PagingFairSpec
CONSTANTS
  F = 2
  Processors = {TRUE}
  Attrs = {"wb"}
  TableLimit = 8
  Lens = {1, 2, 4, 6}
  Shifts = {0}
  MaxCalls = 2
CHECK_DEADLOCK FALSE
PROPERTY MappingReturns
