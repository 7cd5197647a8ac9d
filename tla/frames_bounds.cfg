SPECIFICATION FramesSpec
CONSTANTS
  NoThread = NoThread
  NoBlock = NoBlock
  Nobody = Nobody
  PageTables = PageTables
  Threads = {t1}
  FrameBlocks = {f1}
  VirtBlocks = {v1}
  BitmapFrames = 5
  Reserved = {0, 3}
  MaxPages = 3
  MaxTables = 1
INVARIANT SimulationIsBinding
CHECK_DEADLOCK FALSE
