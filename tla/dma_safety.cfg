SPECIFICATION Spec
CONSTANTS
  Machines <- AllMachines
  Clears = {TRUE}
  MaxEntries = 4
  Excess = 1
INVARIANTS NonOverlapping LiveMapped DescriptorMatches
PROPERTIES FreeReleasesEveryPage CountsAreTheCause
CHECK_DEADLOCK FALSE
