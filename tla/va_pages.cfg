SPECIFICATION Spec
CONSTANTS
  max = 3
  CacheSize = 3
  MaxPage = 2
  Setups <- BothSetups
INVARIANTS NoPageTwice NoPageLost FindFitComplete CountsAgree
CHECK_DEADLOCK FALSE
