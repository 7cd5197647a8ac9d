CONSTANTS
  Bufs = {b1, b2}
  Nil = Nil
  NPorts = 1
  MaxAddress = 2
  MaxEndpoints = 1
  DataTds = 2
SPECIFICATION Spec
SYMMETRY BufSymmetry
INVARIANT NoRetiredTdLeft
