CONSTANTS
  Bufs = {b1, b2}
  MoreBufs = {b1, b2, c1}
  async_head = async_head
  Nil = Nil
  NPorts = 2
  MaxAddress = 2
  MaxEndpoints = 1
  DataTds = 1
SPECIFICATION MCSpec
SYMMETRY BufSymmetry
INVARIANTS EhciNoUseAfterFree EhciRingCloses UhciNoUseAfterFree UhciBetweenCalls OhciNoUseAfterFree DistinctAddresses
