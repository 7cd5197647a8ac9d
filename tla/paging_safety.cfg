SPECIFICATION PagingSpec
CONSTANTS
  F = 2
  Processors = {TRUE, FALSE}
  Attrs = {"wb"}
  TableLimit = 9
  Lens = {1, 6}
  Shifts = {0, 1}
  MaxCalls = 3
CHECK_DEADLOCK FALSE
INVARIANTS TablesExact CreateMaps DestroyUnmaps OutsideKept
