CONSTANTS
  None = None
  XPorts = {1, 2}
  CmdLink = 3
  Units = 2
  MaxWhole = 1
  MaxBlocks = 3
  NPages = 14
  RingSize = 2
  MaxEvents = 3
  MaxHeld = 2
  Width = 2
  Places = 3
  Ids = {a, b}
  Lbas = {15, 16}
  Counts = {0, 1, 2}
  DescriptorSize = 3
  Ep0Links <- MCEp0Links
  Shapes <- MCShapes
  Models <- MCModels
  Trees <- MCTrees
  Maps <- MCMaps
  Images <- MCImages
  Clusters <- MCClusters
SPECIFICATION MCSpec
INVARIANTS TypesOK XhciNoUseAfterFree XhciRingsInStep XhciAnswersMatch HeapBlocksDisjoint HeapPagesAccounted KeyboardFollows PciProbeSafe PciCapabilityFound AtaTransfersMatch UsbTreeRead KernelLoaded
CHECK_DEADLOCK FALSE
