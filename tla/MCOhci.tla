---- MODULE MCOhci ----
EXTENDS Ohci, TLC
BufSymmetry == Permutations(Bufs)
====
