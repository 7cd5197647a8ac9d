----------------------------- MODULE MCDmaPool -----------------------------
(* Instances of DmaPool for TLC: metadata pages that hold every entry, and *)
(* pages of two slots.                                                     *)
EXTENDS DmaPool

OnePageMachine == {<<5, 4, {1, 5000}>>}
AllMachines == {<<5, 4, {1, 4096, 9000}>>, <<2, 3, {1, 5000}>>}
=============================================================================
