--------------------------- MODULE FrameOwnership ---------------------------
(***************************************************************************)
(* What the frame allocator promises, with no bitmap, hint, lock or        *)
(* thread: every frame has one owner, or none, and changes hands only      *)
(* through "no owner".                                                     *)
(***************************************************************************)
CONSTANTS
  AllFrames,   \* the physical frames
  Fixed,       \* frames that are never handed out
  Owners,      \* who may own frames
  Nobody       \* the owner of a free frame

VARIABLE owner \* owner[f]: the owner of frame f that is not Fixed

Managed == AllFrames \ Fixed

Init == owner = [f \in Managed |-> Nobody]

(* o is granted frames that have no owner *)
Grant(o) ==
  \E S \in SUBSET Managed :
    /\ \A f \in S : owner[f] = Nobody
    /\ owner' = [f \in Managed |-> IF f \in S THEN o ELSE owner[f]]

(* o gives frames it owns back *)
GiveBack(o) ==
  \E S \in SUBSET Managed :
    /\ \A f \in S : owner[f] = o
    /\ owner' = [f \in Managed |-> IF f \in S THEN Nobody ELSE owner[f]]

Next == \E o \in Owners : Grant(o) \/ GiveBack(o)

Spec == Init /\ [][Next]_owner
=============================================================================
