SPECIFICATION Spec
CONSTANTS
  Machines <- OnePageMachine
  Clears = {TRUE, FALSE}
  MaxEntries = 4
  Excess = 3
PROPERTY FreeReleasesEveryPage
CHECK_DEADLOCK FALSE
