SPECIFICATION BitmapSpec
CONSTANTS
  NBytes = 2
  LowFrames = 3
  Neighbour <- MCNeighbour
  Kernels <- MCKernels
  MaxDescs = 2
  MaxWrites = 1
INVARIANTS WritesExactly NeighbourKept UsableAddsUp
CHECK_DEADLOCK FALSE
