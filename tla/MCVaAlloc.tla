------------------------------ MODULE MCVaAlloc ------------------------------
(* Machines for TLC: one on which the metadata grows and shrinks, one that *)
(* runs out of ranges and of frames.                                      *)
EXTENDS VaAlloc

RoomyMachine == [kernel |-> 5, upper |-> 5, user |-> 5, frames |-> 20, spare |-> 2,
           requests |-> {<<2, "kernel">>, <<2, "user">>}]
SmallMachine == [kernel |-> 2, upper |-> 2, user |-> 2, frames |-> 5, spare |-> 0,
           requests |-> {<<1, "kernel">>, <<2, "kernel">>, <<1, "user">>}]
BothSetups == {RoomyMachine, SmallMachine}
SmallSetup == {SmallMachine}
=============================================================================
