SPECIFICATION FramesFairSpec
CONSTANTS
  NoThread = NoThread
  NoBlock = NoBlock
  Nobody = Nobody
  PageTables = PageTables
  Threads = {t1, t2}
  FrameBlocks = {f1, f2}
  VirtBlocks = {v1}
  BitmapFrames = 5
  Reserved = {0, 3}
  MaxPages = 2
  MaxTables = 1
INVARIANTS AllocatorTypeOK NoFrameTwice BitmapExact
PROPERTIES ImplementsOwnership CallsReturn
CHECK_DEADLOCK FALSE
