---------------------------- MODULE MemoryProofs ----------------------------
(***************************************************************************)
(* TLAPS proofs about the memory management: the frame allocator, the      *)
(* bytes of its bitmap, the DMA pool and the page tables, as the modules   *)
(* that TLC runs put them together.                                        *)
(***************************************************************************)
EXTENDS DmaPool, MCFrameAllocator, MCFrameBitmap, MCPaging,
        FiniteSetTheorems, WellFoundedInduction, TLAPS

(***************************************************************************)
(* The frame allocator, for any number of threads, frames, blocks and page *)
(* tables.  NoFrameTwice and BitmapExact are not inductive on their own:   *)
(* between finding a run and marking it the run must stay free, which      *)
(* holds because only the holder of bitmap_lock is there.  AllocatorInv    *)
(* adds that argument.                                                     *)
(***************************************************************************)

(* only the holder of bitmap_lock is between spin_lock and spin_unlock *)
LockInv == \A t \in Threads : pc[t] \in FA!Locked => lock = t

(* a call in progress has its block for itself *)
BlkInv ==
  /\ \A t \in Threads : pc[t] # "idle" => blk[t] \in FA!Blocks
  /\ \A t, u \in Threads : t # u /\ blk[t] = blk[u] => blk[t] = NoBlock

(* what the holder of the lock has found is still free when it marks it *)
RunInv ==
  \A t \in Threads :
    /\ pc[t] \in {"a_scan", "a_mark"} => held[blk[t]] = {}
    /\ pc[t] = "a_mark" => tar[t] + left[t] <= BitmapFrames /\ FA!Free(FA!Run(tar[t], left[t]))
    /\ pc[t] = "t_mark" => tar[t] \in FA!Frames \ frames_used
    /\ pc[t] = "v_fill" => FA!Free(tar[t] .. count[t] - 1)

Control == FA!TypeOK /\ LockInv /\ BlkInv /\ RunInv

(* NoFrameTwice and BitmapExact, frame by frame *)
OneOwner ==
  \A f \in FA!Frames :
    /\ \A b, c \in FA!Blocks : f \in held[b] /\ f \in held[c] => b = c
    /\ f \in tables => \A b \in FA!Blocks : f \notin held[b]
    /\ f \in Reserved => f \notin tables /\ \A b \in FA!Blocks : f \notin held[b]

Exact ==
  \A f \in FA!Frames :
    f \in frames_used <=> (f \in Reserved \/ f \in tables \/ \E b \in FA!Blocks : f \in held[b])

AllocatorInv == Control /\ OneOwner /\ Exact

-----------------------------------------------------------------------------
(* Initially no call is in progress and exactly the reserved bits are set. *)
LEMMA AllocatorStarts ==
  ASSUME FA!AllocatorConstants PROVE FA!Init => AllocatorInv
<1> SUFFICES ASSUME FA!Init PROVE AllocatorInv
  OBVIOUS
<1> USE DEF FA!AllocatorConstants, FA!Init, FA!Blocks, FA!Frames
<1>1. FA!TypeOK
  BY DEF FA!TypeOK, FA!Labels, FA!Unlocked
<1>2. LockInv /\ BlkInv /\ RunInv
  BY DEF LockInv, BlkInv, RunInv, FA!Locked
<1>3. OneOwner /\ Exact
  BY SMTT(30) DEF OneOwner, Exact
<1> QED
  BY <1>1, <1>2, <1>3 DEF AllocatorInv, Control

(* The control part of the invariant is kept by each step of a call. *)
LEMMA ControlStep ==
  ASSUME FA!AllocatorConstants, Control, NEW t \in Threads, FA!Call(t) \/ FA!Step(t)
  PROVE  Control'
<1> USE DEF FA!AllocatorConstants, Control, FA!TypeOK, LockInv, BlkInv, RunInv, FA!Labels, FA!Locked, FA!Unlocked, FA!Crossed, FA!Frames, FA!Blocks,
        FA!GoTo, FA!Acquire, FA!Release, FA!Idle, FA!Enter, FA!Return, FA!shared, FA!locals, FA!Free, FA!Run
<1>1. ASSUME NEW b \in FrameBlocks, NEW n \in 1 .. MaxPages, FA!alloc_frame(t, b, n) PROVE Control'
  BY <1>1 DEF FA!alloc_frame
<1>2. ASSUME NEW b \in FrameBlocks, FA!free_frame(t, b) PROVE Control'
  BY <1>2 DEF FA!free_frame
<1>3. ASSUME NEW b \in VirtBlocks, NEW n \in 1 .. MaxPages, FA!vmalloc(t, b, n) PROVE Control'
  BY <1>3 DEF FA!vmalloc
<1>4. ASSUME NEW b \in VirtBlocks, FA!vfree(t, b) PROVE Control'
  BY <1>4 DEF FA!vfree
<1>5. CASE FA!AllocFound(t)
  BY <1>5 DEF FA!AllocFound, FA!FindRun, FA!Fits
<1>6. CASE FA!AllocFull(t)
  BY <1>6 DEF FA!AllocFull
<1>7. CASE FA!AllocMark(t)
  <2>1. blk[t] \in FA!Blocks /\ tar[t] .. tar[t] + left[t] - 1 \subseteq FA!Frames
    BY <1>7 DEF FA!AllocMark
  <2>2. FA!TypeOK'
    <3>1. frames_used' \subseteq FA!Frames /\ tables' \subseteq FA!Frames /\ hint' \in 0 .. BitmapFrames
      BY <1>7, <2>1 DEF FA!AllocMark
    <3>2. held' \in [FA!Blocks -> SUBSET FA!Frames]
      BY <1>7, <2>1 DEF FA!AllocMark
    <3>3. /\ lock' \in Threads \cup {NoThread} /\ pc' \in [Threads -> FA!Labels]
          /\ blk' \in [Threads -> FA!Blocks \cup {NoBlock}]
          /\ left' \in [Threads -> 0 .. MaxPages]
          /\ count' \in [Threads -> 0 .. BitmapFrames] /\ tar' \in [Threads -> 0 .. BitmapFrames]
      BY <1>7 DEF FA!AllocMark
    <3> QED
      BY <3>1, <3>2, <3>3
  <2>3. LockInv' /\ BlkInv'
    BY <1>7 DEF FA!AllocMark
  <2>4. RunInv'
    BY <1>7 DEF FA!AllocMark
  <2> QED
    BY <2>2, <2>3, <2>4
<1>8. CASE FA!FreeClear(t)
  <2>1. blk[t] \in FA!Blocks
    BY <1>8 DEF FA!FreeClear
  <2>2. FA!TypeOK'
    <3>1. frames_used' \subseteq FA!Frames /\ tables' \subseteq FA!Frames
      BY <1>8, <2>1 DEF FA!FreeClear, FA!Clear
    <3>2. hint' \in 0 .. BitmapFrames /\ held' \in [FA!Blocks -> SUBSET FA!Frames]
      BY <1>8, <2>1 DEF FA!FreeClear, FA!Clear
    <3>3. /\ lock' \in Threads \cup {NoThread} /\ pc' \in [Threads -> FA!Labels]
          /\ blk' \in [Threads -> FA!Blocks \cup {NoBlock}]
          /\ left' \in [Threads -> 0 .. MaxPages]
          /\ count' \in [Threads -> 0 .. BitmapFrames] /\ tar' \in [Threads -> 0 .. BitmapFrames]
      BY <1>8 DEF FA!FreeClear, FA!Clear
    <3> QED
      BY <3>1, <3>2, <3>3
  <2>3. LockInv' /\ BlkInv'
    BY <1>8 DEF FA!FreeClear, FA!Clear
  <2>4. RunInv'
    BY <1>8 DEF FA!FreeClear, FA!Clear
  <2> QED
    BY <2>2, <2>3, <2>4
<1>9. CASE FA!VmallocSimulate(t)
  BY <1>9 DEF FA!VmallocSimulate
<1>10. CASE FA!VmallocFull(t)
  BY <1>10 DEF FA!VmallocFull
<1>11. CASE FA!VmallocScan(t)
  <2>1. PICK e \in count[t] .. count[t] + left[t] :
           /\ FA!Free(count[t] .. e - 1) /\ e <= BitmapFrames
           /\ FA!GoTo(t, "v_fill") \/ FA!GoTo(t, FA!Crossed)
           /\ tar' = [tar EXCEPT ![t] = count[t]]
           /\ count' = [count EXCEPT ![t] = e]
           /\ left' = [left EXCEPT ![t] = @ - (e - count[t])]
    BY <1>11 DEF FA!VmallocScan
  <2>2. count[t] \in 0 .. BitmapFrames /\ left[t] \in 0 .. MaxPages /\ e \in 0 .. BitmapFrames
    BY <2>1
  <2>3. left[t] - (e - count[t]) \in 0 .. MaxPages
    BY <2>1, <2>2
  <2>4. FA!TypeOK'
    BY <1>11, <2>1, <2>2, <2>3 DEF FA!VmallocScan
  <2>5. LockInv' /\ BlkInv'
    BY <1>11, <2>1 DEF FA!VmallocScan
  <2>6. RunInv'
    BY <1>11, <2>1 DEF FA!VmallocScan
  <2> QED
    BY <2>4, <2>5, <2>6
<1>12. CASE FA!VmallocFill(t)
  <2>1. blk[t] \in FA!Blocks /\ tar[t] .. count[t] - 1 \subseteq FA!Frames
    BY <1>12 DEF FA!VmallocFill
  <2>2. FA!TypeOK'
    BY <1>12, <2>1 DEF FA!VmallocFill
  <2>3. LockInv' /\ BlkInv'
    BY <1>12 DEF FA!VmallocFill
  <2>4. RunInv'
    BY <1>12 DEF FA!VmallocFill
  <2> QED
    BY <2>2, <2>3, <2>4
<1>13. CASE FA!TableAlloc(t)
  BY <1>13 DEF FA!TableAlloc
<1>14. CASE FA!TableFound(t)
  BY <1>14 DEF FA!TableFound, FA!FindRun, FA!Fits
<1>15. CASE FA!TableMark(t)
  <2>1. tar[t] \in FA!Frames
    BY <1>15 DEF FA!TableMark
  <2>2. FA!TypeOK'
    <3>1. frames_used' \subseteq FA!Frames /\ tables' \subseteq FA!Frames
      BY <1>15, <2>1 DEF FA!TableMark
    <3>2. hint' \in 0 .. BitmapFrames /\ held' \in [FA!Blocks -> SUBSET FA!Frames]
      BY <1>15 DEF FA!TableMark
    <3>3. /\ lock' \in Threads \cup {NoThread} /\ pc' \in [Threads -> FA!Labels]
          /\ blk' \in [Threads -> FA!Blocks \cup {NoBlock}]
          /\ left' \in [Threads -> 0 .. MaxPages]
          /\ count' \in [Threads -> 0 .. BitmapFrames] /\ tar' \in [Threads -> 0 .. BitmapFrames]
      BY <1>15 DEF FA!TableMark
    <3> QED
      BY <3>1, <3>2, <3>3
  <2>3. LockInv' /\ BlkInv'
    BY <1>15 DEF FA!TableMark
  <2>4. RunInv'
    BY <1>15 DEF FA!TableMark
  <2> QED
    BY <2>2, <2>3, <2>4
<1>16. CASE FA!TableFull(t)
  BY <1>16 DEF FA!TableFull
<1>17. CASE FA!TableFree(t)
  BY <1>17 DEF FA!TableFree
<1>18. CASE FA!VmallocMapped(t)
  BY <1>18 DEF FA!VmallocMapped
<1>19. CASE FA!VmallocRelock(t)
  <2>1. FA!TypeOK'
    <3>1. count' \in [Threads -> 0 .. BitmapFrames]
      <4>1. CASE UNCHANGED count
        BY <4>1
      <4>2. CASE \E e \in FA!FreeFrom(count[t]) : count' = [count EXCEPT ![t] = e]
        BY <4>2 DEF FA!FreeFrom
      <4> QED
        BY <1>19, <4>1, <4>2 DEF FA!VmallocRelock
    <3>2. /\ frames_used' = frames_used /\ tables' = tables /\ held' = held /\ hint' = hint
          /\ blk' = blk /\ left' = left /\ tar' = tar /\ lock' = t
          /\ pc' \in [Threads -> FA!Labels]
      BY <1>19 DEF FA!VmallocRelock
    <3> QED
      BY <3>1, <3>2
  <2>2. LockInv' /\ BlkInv'
    BY <1>19 DEF FA!VmallocRelock
  <2>3. RunInv'
    BY <1>19 DEF FA!VmallocRelock
  <2> QED
    BY <2>1, <2>2, <2>3
<1>20. CASE FA!VmallocReturn(t)
  BY <1>20 DEF FA!VmallocReturn
<1>21. CASE FA!VfreePage(t)
  BY <1>21 DEF FA!VfreePage
<1>22. CASE FA!VfreeClear(t)
  BY <1>22 DEF FA!VfreeClear, FA!Clear, FA!IsMin
<1>23. CASE FA!VfreeUnmap(t)
  BY <1>23 DEF FA!VfreeUnmap
<1>24. CASE FA!VfreeDone(t)
  BY <1>24 DEF FA!VfreeDone
<1> QED
  BY <1>1, <1>2, <1>3, <1>4, <1>5, <1>6, <1>7, <1>8, <1>9, <1>10, <1>11, <1>12, <1>13,
     <1>14, <1>15, <1>16, <1>17, <1>18, <1>19, <1>20, <1>21, <1>22, <1>23, <1>24
  DEF FA!Call, FA!Step

-----------------------------------------------------------------------------
Own == OneOwner /\ Exact

(* Free frames may be added to one block. *)
LEMMA GrantToBlock ==
  ASSUME FA!TypeOK, Own, NEW b \in FA!Blocks, NEW S \in SUBSET FA!Frames, FA!Free(S),
         frames_used' = frames_used \cup S, tables' = tables,
         held' = [held EXCEPT ![b] = @ \cup S]
  PROVE  Own'
<1> USE DEF Own, FA!TypeOK, FA!Free
<1>1. \A c \in FA!Blocks : held'[c] = IF c = b THEN held[c] \cup S ELSE held[c]
  OBVIOUS
<1>2. OneOwner'
  BY <1>1 DEF OneOwner, Exact
<1>3. Exact'
  BY <1>1 DEF Exact
<1> QED
  BY <1>2, <1>3

(* Frames of one block may be freed. *)
LEMMA FreeOfBlock ==
  ASSUME FA!TypeOK, Own, NEW b \in FA!Blocks, NEW S \in SUBSET held[b],
         frames_used' = frames_used \ S, tables' = tables,
         held' = [held EXCEPT ![b] = @ \ S]
  PROVE  Own'
<1> USE DEF Own, FA!TypeOK
<1>1. \A c \in FA!Blocks : held'[c] = IF c = b THEN held[c] \ S ELSE held[c]
  OBVIOUS
<1>2. OneOwner'
  BY <1>1 DEF OneOwner
<1>3. Exact'
  BY <1>1 DEF Exact, OneOwner
<1> QED
  BY <1>2, <1>3

(* Six kinds of step change who owns a frame. *)
LEMMA StepKinds ==
  ASSUME NEW t \in Threads, FA!Call(t) \/ FA!Step(t)
  PROVE  \/ UNCHANGED <<frames_used, held, tables>> \/ FA!AllocMark(t) \/ FA!VmallocFill(t) \/ FA!FreeClear(t)
         \/ FA!VfreeClear(t) \/ FA!TableMark(t) \/ FA!TableFree(t)
  BY DEF FA!Call, FA!Step, FA!shared, FA!alloc_frame, FA!free_frame, FA!vmalloc, FA!vfree, FA!AllocFound, FA!FindRun, FA!AllocFull,
         FA!VmallocSimulate, FA!VmallocFull, FA!VmallocScan, FA!TableAlloc, FA!TableFound, FA!TableFull,
         FA!VmallocMapped, FA!VmallocRelock, FA!VmallocReturn, FA!VfreePage, FA!VfreeUnmap, FA!VfreeDone

(* Every step of a call keeps each frame with one owner and the bitmap exact. *)
LEMMA OwnStep ==
  ASSUME FA!AllocatorConstants, AllocatorInv, NEW t \in Threads, FA!Call(t) \/ FA!Step(t)
  PROVE  Own'
<1> USE DEF AllocatorInv, Control
<1>1. CASE UNCHANGED <<frames_used, held, tables>>
  BY <1>1 DEF Own, OneOwner, Exact
<1>2. CASE FA!AllocMark(t)
  <2>1. blk[t] \in FA!Blocks /\ held[blk[t]] = {} /\ FA!Free(FA!Run(tar[t], left[t]))
    BY <1>2 DEF FA!AllocMark, BlkInv, RunInv
  <2>2. FA!Run(tar[t], left[t]) \in SUBSET FA!Frames
    BY <1>2 DEF FA!AllocatorConstants, FA!AllocMark, RunInv, FA!TypeOK, FA!Run, FA!Frames
  <2>3. held' = [held EXCEPT ![blk[t]] = @ \cup FA!Run(tar[t], left[t])]
    BY <1>2, <2>1 DEF FA!AllocMark, FA!TypeOK
  <2> QED
    BY <1>2, <2>1, <2>2, <2>3, GrantToBlock DEF FA!AllocMark, Own
<1>3. CASE FA!VmallocFill(t)
  <2>1. blk[t] \in FA!Blocks /\ FA!Free(tar[t] .. count[t] - 1)
    BY <1>3 DEF FA!VmallocFill, BlkInv, RunInv
  <2>2. tar[t] .. count[t] - 1 \in SUBSET FA!Frames
    BY <1>3 DEF FA!AllocatorConstants, FA!VmallocFill, FA!TypeOK, FA!Frames
  <2> QED
    BY <1>3, <2>1, <2>2, GrantToBlock DEF FA!VmallocFill, Own
<1>4. CASE FA!FreeClear(t)
  <2>1. blk[t] \in FA!Blocks
    BY <1>4 DEF FA!FreeClear, BlkInv
  <2> QED
    BY <1>4, <2>1, FreeOfBlock DEF FA!FreeClear, FA!Clear, Own
<1>5. CASE FA!VfreeClear(t)
  <2>1. blk[t] \in FA!Blocks
    BY <1>5 DEF FA!VfreeClear, BlkInv
  <2>2. PICK s \in held[blk[t]] : FA!Clear(t, {s}, s)
    BY <1>5 DEF FA!VfreeClear
  <2> QED
    BY <2>1, <2>2, FreeOfBlock DEF FA!Clear, Own
<1>6. CASE FA!TableMark(t)
  BY <1>6 DEF FA!TableMark, RunInv, FA!TypeOK, Own, OneOwner, Exact
<1>7. CASE FA!TableFree(t)
  BY <1>7 DEF FA!TableFree, FA!TypeOK, Own, OneOwner, Exact
<1>8. \/ UNCHANGED <<frames_used, held, tables>> \/ FA!AllocMark(t) \/ FA!VmallocFill(t) \/ FA!FreeClear(t)
      \/ FA!VfreeClear(t) \/ FA!TableMark(t) \/ FA!TableFree(t)
  BY StepKinds
<1> QED
  BY <1>1, <1>2, <1>3, <1>4, <1>5, <1>6, <1>7, <1>8

(* AllocatorInv is inductive. *)
LEMMA AllocatorSteps ==
  ASSUME FA!AllocatorConstants PROVE AllocatorInv /\ [FA!Next]_(FA!vars) => AllocatorInv'
<1> SUFFICES ASSUME AllocatorInv, [FA!Next]_(FA!vars) PROVE AllocatorInv'
  OBVIOUS
<1>1. CASE FA!Next
  <2>1. PICK t \in Threads : FA!Call(t) \/ FA!Step(t)
    BY <1>1 DEF FA!Next
  <2>2. Control'
    BY <2>1, ControlStep DEF AllocatorInv
  <2>3. Own'
    BY <2>1, OwnStep
  <2> QED
    BY <2>2, <2>3 DEF AllocatorInv, Own
<1>2. CASE UNCHANGED FA!vars
  BY <1>2 DEF FA!vars, AllocatorInv, Control, FA!TypeOK, LockInv, BlkInv, RunInv, OneOwner, Exact, FA!Free
<1> QED
  BY <1>1, <1>2

(* the inductive invariant of the four calls holds in every reachable state *)
THEOREM AllocatorInvariance ==
  FramesSpec => []AllocatorInv
  BY FrameAllocatorAssumption, AllocatorStarts, AllocatorSteps, PTL DEF FramesSpec, FA!Spec

(* Every variable keeps its type; in particular the hint and the cursors of *)
(* alloc_frame and vmalloc never leave the bitmap.                          *)
THEOREM AllocatorTypeCorrect ==
  FramesSpec => []AllocatorTypeOK
<1>1. AllocatorInv => AllocatorTypeOK
  BY DEF AllocatorInv, Control, AllocatorTypeOK
<1> QED
  BY <1>1, AllocatorInvariance, PTL

(* No frame is handed out twice, for any number of threads and frames. *)
THEOREM NoFrameTwiceHolds ==
  FramesSpec => []NoFrameTwice
<1>1. AllocatorInv => NoFrameTwice
  BY DEF NoFrameTwice, AllocatorInv, Control, FA!TypeOK, OneOwner, FA!NoFrameTwice, FA!Owned
<1> QED
  BY <1>1, AllocatorInvariance, PTL

(* The bitmap never leaks or loses a frame. *)
THEOREM BitmapExactHolds ==
  FramesSpec => []BitmapExact
<1>1. AllocatorInv => BitmapExact
  BY FrameAllocatorAssumption DEF BitmapExact, FA!AllocatorConstants, AllocatorInv, Control, FA!TypeOK, Exact, FA!BitmapExact, FA!Owned
<1> QED
  BY <1>1, AllocatorInvariance, PTL

-----------------------------------------------------------------------------
(* the owner FrameOwnership sees is the one the bitmap and the blocks tell *)
OwnerFacts ==
  \A f \in FA!Frames :
    /\ f \notin frames_used => FA!OwnerOf(f) = Nobody
    /\ f \in tables => FA!OwnerOf(f) = PageTables
    /\ \A b \in FA!Blocks : f \in held[b] => FA!OwnerOf(f) = b

(* The owner of a frame under the refinement mapping, by the set it is in. *)
LEMMA OwnerIs == AllocatorInv => OwnerFacts
<1> SUFFICES ASSUME AllocatorInv, NEW f \in FA!Frames
             PROVE  /\ f \notin frames_used => FA!OwnerOf(f) = Nobody
                    /\ f \in tables => FA!OwnerOf(f) = PageTables
                    /\ \A b \in FA!Blocks : f \in held[b] => FA!OwnerOf(f) = b
  BY DEF OwnerFacts
<1> USE DEF AllocatorInv, OneOwner, Exact
<1>1. f \notin frames_used => FA!OwnerOf(f) = Nobody
  BY DEF FA!OwnerOf
<1>2. f \in tables => FA!OwnerOf(f) = PageTables
  BY DEF FA!OwnerOf
<1>3. ASSUME NEW b \in FA!Blocks, f \in held[b] PROVE FA!OwnerOf(f) = b
  <2>1. f \in frames_used /\ f \notin tables
    BY <1>3
  <2>2. \A c \in FA!Blocks : f \in held[c] => c = b
    BY <1>3
  <2>3. (CHOOSE c \in FA!Blocks : f \in held[c]) = b
    BY <1>3, <2>2
  <2> QED
    BY <2>1, <2>3 DEF FA!OwnerOf
<1> QED
  BY <1>1, <1>2, <1>3

(* The owner of a frame as a function of the state, the way FrameOwnership sees it. *)
OwnerMap == [f \in FA!Frames \ Reserved |-> FA!OwnerOf(f)]

(* Taking the free frames S for owner o is a Grant of FrameOwnership. *)
LEMMA GrantRefined ==
  ASSUME NEW o \in FA!Blocks \cup {PageTables}, NEW S \in SUBSET (FA!Frames \ Reserved),
         \A f \in S : FA!OwnerOf(f) = Nobody /\ FA!OwnerOf(f)' = o,
         \A f \in FA!Frames \ Reserved : f \notin S => FA!OwnerOf(f)' = FA!OwnerOf(f)
  PROVE  FA!Ownership!Next
<1>1. OwnerMap' = [f \in FA!Frames \ Reserved |-> IF f \in S THEN o ELSE OwnerMap[f]]
  BY DEF OwnerMap
<1>2. \A f \in S : OwnerMap[f] = Nobody
  BY DEF OwnerMap
<1> QED
  BY <1>1, <1>2 DEF FA!Ownership!Next, FA!Ownership!Grant, FA!Ownership!Managed, OwnerMap

(* Giving the frames S of owner o back is a GiveBack of FrameOwnership. *)
LEMMA GiveBackRefined ==
  ASSUME NEW o \in FA!Blocks \cup {PageTables}, NEW S \in SUBSET (FA!Frames \ Reserved),
         \A f \in S : FA!OwnerOf(f) = o /\ FA!OwnerOf(f)' = Nobody,
         \A f \in FA!Frames \ Reserved : f \notin S => FA!OwnerOf(f)' = FA!OwnerOf(f)
  PROVE  FA!Ownership!Next
<1>1. OwnerMap' = [f \in FA!Frames \ Reserved |-> IF f \in S THEN Nobody ELSE OwnerMap[f]]
  BY DEF OwnerMap
<1>2. \A f \in S : OwnerMap[f] = o
  BY DEF OwnerMap
<1> QED
  BY <1>1, <1>2 DEF FA!Ownership!Next, FA!Ownership!GiveBack, FA!Ownership!Managed, OwnerMap

(* Every step of a call is a step of FrameOwnership or leaves all owners as they are. *)
LEMMA StepRefined ==
  ASSUME FA!AllocatorConstants, AllocatorInv, AllocatorInv', OwnerFacts, OwnerFacts', NEW t \in Threads, FA!Call(t) \/ FA!Step(t)
  PROVE  FA!Ownership!Next \/ UNCHANGED OwnerMap
<1>1. CASE UNCHANGED <<frames_used, held, tables>>
  BY <1>1 DEF OwnerMap, FA!OwnerOf
<1>2. \A f \in FA!Frames : f \in frames_used <=> (f \in Reserved \/ f \in tables \/ \E b \in FA!Blocks : f \in held[b])
  BY DEF AllocatorInv, Exact
<1>3. ASSUME NEW b \in FA!Blocks, NEW S \in SUBSET FA!Frames, FA!Free(S),
             frames_used' = frames_used \cup S, tables' = tables, held' = [held EXCEPT ![b] = @ \cup S]
      PROVE  FA!Ownership!Next
  <2>1. \A c \in FA!Blocks : held'[c] = IF c = b THEN held[c] \cup S ELSE held[c]
    BY <1>3 DEF AllocatorInv, Control, FA!TypeOK
  <2>2. S \in SUBSET (FA!Frames \ Reserved)
    BY <1>2, <1>3 DEF FA!Free
  <2>3. \A f \in S : FA!OwnerOf(f) = Nobody /\ FA!OwnerOf(f)' = b
    BY <1>3, <2>1 DEF OwnerFacts, FA!Free
  <2>4. \A f \in FA!Frames \ Reserved : f \notin S => FA!OwnerOf(f)' = FA!OwnerOf(f)
    BY <1>2, <1>3, <2>1 DEF OwnerFacts
  <2> QED
    BY <2>2, <2>3, <2>4, GrantRefined
<1>4. ASSUME NEW b \in FA!Blocks, NEW S \in SUBSET held[b],
             frames_used' = frames_used \ S, tables' = tables, held' = [held EXCEPT ![b] = @ \ S]
      PROVE  FA!Ownership!Next
  <2>1. \A c \in FA!Blocks : held'[c] = IF c = b THEN held[c] \ S ELSE held[c]
    BY <1>4 DEF AllocatorInv, Control, FA!TypeOK
  <2>2. S \in SUBSET (FA!Frames \ Reserved)
    BY <1>4 DEF AllocatorInv, Control, FA!TypeOK, OneOwner
  <2>3. \A f \in S : FA!OwnerOf(f) = b /\ FA!OwnerOf(f)' = Nobody
    BY <1>4, <2>2 DEF OwnerFacts
  <2>4. \A f \in FA!Frames \ Reserved : f \notin S => FA!OwnerOf(f)' = FA!OwnerOf(f)
    BY <1>2, <1>4, <2>1 DEF OwnerFacts
  <2> QED
    BY <2>2, <2>3, <2>4, GiveBackRefined
<1>5. CASE FA!AllocMark(t)
  <2>1. blk[t] \in FA!Blocks /\ held[blk[t]] = {} /\ FA!Free(FA!Run(tar[t], left[t]))
    BY <1>5 DEF FA!AllocMark, AllocatorInv, Control, BlkInv, RunInv
  <2>2. FA!Run(tar[t], left[t]) \in SUBSET FA!Frames
    BY <1>5 DEF FA!AllocatorConstants, FA!AllocMark, AllocatorInv, Control, RunInv, FA!TypeOK, FA!Run, FA!Frames
  <2>3. held' = [held EXCEPT ![blk[t]] = @ \cup FA!Run(tar[t], left[t])]
    BY <1>5, <2>1 DEF FA!AllocMark, AllocatorInv, Control, FA!TypeOK
  <2> QED
    BY <1>3, <1>5, <2>1, <2>2, <2>3 DEF FA!AllocMark
<1>6. CASE FA!VmallocFill(t)
  <2>1. blk[t] \in FA!Blocks /\ FA!Free(tar[t] .. count[t] - 1)
    BY <1>6 DEF FA!VmallocFill, AllocatorInv, Control, BlkInv, RunInv
  <2>2. tar[t] .. count[t] - 1 \in SUBSET FA!Frames
    BY <1>6 DEF FA!AllocatorConstants, FA!VmallocFill, AllocatorInv, Control, FA!TypeOK, FA!Frames
  <2> QED
    BY <1>3, <1>6, <2>1, <2>2 DEF FA!VmallocFill
<1>7. CASE FA!FreeClear(t)
  <2>1. blk[t] \in FA!Blocks
    BY <1>7 DEF FA!FreeClear, AllocatorInv, Control, BlkInv
  <2> QED
    BY <1>4, <1>7, <2>1 DEF FA!FreeClear, FA!Clear
<1>8. CASE FA!VfreeClear(t)
  <2>1. blk[t] \in FA!Blocks
    BY <1>8 DEF FA!VfreeClear, AllocatorInv, Control, BlkInv
  <2>2. PICK s \in held[blk[t]] : FA!Clear(t, {s}, s)
    BY <1>8 DEF FA!VfreeClear
  <2> QED
    BY <1>4, <2>1, <2>2 DEF FA!Clear
<1>9. CASE FA!TableMark(t)
  <2>1. tar[t] \in FA!Frames \ Reserved /\ tar[t] \notin frames_used
    BY <1>2, <1>9 DEF FA!TableMark, AllocatorInv, Control, RunInv
  <2>2. FA!OwnerOf(tar[t]) = Nobody
    BY <2>1 DEF OwnerFacts
  <2>3. \A f \in FA!Frames \ Reserved : f = tar[t] => FA!OwnerOf(f)' = PageTables
    BY <1>9 DEF FA!TableMark, OwnerFacts
  <2>4. \A f \in FA!Frames \ Reserved : f # tar[t] => FA!OwnerOf(f)' = FA!OwnerOf(f)
    BY <1>2, <1>9 DEF FA!TableMark, OwnerFacts
  <2>5. \A f \in {tar[t]} : FA!OwnerOf(f) = Nobody /\ FA!OwnerOf(f)' = PageTables
    BY <2>1, <2>2, <2>3
  <2> QED
    <3>1. {tar[t]} \in SUBSET (FA!Frames \ Reserved) /\ PageTables \in FA!Blocks \cup {PageTables}
      BY <2>1
    <3>2. \A f \in FA!Frames \ Reserved : f \notin {tar[t]} => FA!OwnerOf(f)' = FA!OwnerOf(f)
      BY <2>4
    <3> QED
      BY <2>5, <3>1, <3>2, GrantRefined
<1>10. CASE FA!TableFree(t)
  <2>1. PICK g \in tables : frames_used' = frames_used \ {g} /\ tables' = tables \ {g} /\ held' = held
    BY <1>10 DEF FA!TableFree
  <2>2. g \in FA!Frames \ Reserved
    BY DEF AllocatorInv, Control, FA!TypeOK, OneOwner
  <2>3. \A f \in {g} : FA!OwnerOf(f) = PageTables /\ FA!OwnerOf(f)' = Nobody
    BY <2>1, <2>2 DEF OwnerFacts
  <2>4. \A f \in FA!Frames \ Reserved : f \notin {g} => FA!OwnerOf(f)' = FA!OwnerOf(f)
    BY <1>2, <2>1 DEF OwnerFacts
  <2> QED
    <3>1. {g} \in SUBSET (FA!Frames \ Reserved) /\ PageTables \in FA!Blocks \cup {PageTables}
      BY <2>2
    <3> QED
      BY <2>3, <2>4, <3>1, GiveBackRefined
<1>11. \/ UNCHANGED <<frames_used, held, tables>> \/ FA!AllocMark(t) \/ FA!VmallocFill(t) \/ FA!FreeClear(t)
       \/ FA!VfreeClear(t) \/ FA!TableMark(t) \/ FA!TableFree(t)
  BY StepKinds
<1> QED
  BY <1>1, <1>5, <1>6, <1>7, <1>8, <1>9, <1>10, <1>11

(* The bitmap allocator implements FrameOwnership: frames change hands only *)
(* through "free", for any number of threads, frames and blocks.            *)
THEOREM OwnershipRefined ==
  FramesSpec => ImplementsOwnership
<1>1. FA!Init => FA!Ownership!Init
  BY DEF FA!Init, FA!Ownership!Init, FA!Ownership!Managed, FA!OwnerOf
<1>2. AllocatorInv /\ AllocatorInv' /\ OwnerFacts /\ OwnerFacts' /\ [FA!Next]_(FA!vars) => [FA!Ownership!Next]_OwnerMap
  <2> SUFFICES ASSUME AllocatorInv, AllocatorInv', OwnerFacts, OwnerFacts', [FA!Next]_(FA!vars)
               PROVE  FA!Ownership!Next \/ UNCHANGED OwnerMap
    OBVIOUS
  <2>1. CASE FA!Next
    BY <2>1, StepRefined, FrameAllocatorAssumption DEF FA!Next
  <2>2. CASE UNCHANGED FA!vars
    BY <2>2 DEF FA!vars, OwnerMap, FA!OwnerOf
  <2> QED
    BY <2>1, <2>2
<1> QED
  BY <1>1, <1>2, AllocatorInvariance, OwnerIs, PTL
  DEF FramesSpec, FA!Spec, ImplementsOwnership, FA!ImplementsOwnership, FA!Ownership!Spec, OwnerMap

-----------------------------------------------------------------------------
(***************************************************************************)
(* The bytes of the bitmap, for a bitmap of any size: every range write    *)
(* changes exactly the bits of its range, and the byte after the bitmap is *)
(* never changed.                                                          *)
(***************************************************************************)

(* after the head the count is on a byte boundary unless nothing is left, *)
(* and a write that is over has no frames left                            *)
Phases ==
  /\ phase = "bytes" /\ PageCount > 0 => cursor % 8 = 0
  /\ phase = "idle" => PageCount = 0

BitmapInv == FB!TypeOK /\ Phases /\ FB!WritesExactly /\ FB!NeighbourKept

(* the frames of byte b *)
LEMMA ByteFrames ==
  ASSUME NEW c \in Nat, NEW f \in Nat
  PROVE  /\ c \div 8 \in Nat /\ c % 8 \in FB!Places
         /\ c = 8 * (c \div 8) + (c % 8)
         /\ (f \div 8 = c \div 8) <=> (f \in (c - (c % 8)) .. (c - (c % 8) + 7))
         /\ f \div 8 = c \div 8 => f % 8 = f - (c - (c % 8))
  BY SMT DEF FB!Places

(* WritesExactly, frame by frame *)
Exactly ==
  \A f \in FB!Frames :
    f \in goal <=> IF value THEN f \in FB!InUse \/ f \in FB!Run(cursor, PageCount)
                            ELSE f \in FB!InUse /\ f \notin FB!Run(cursor, PageCount)

(* WritesExactly says of each frame what Exactly says *)
LEMMA FrameByFrame ==
  ASSUME FB!BitmapConstants, FB!TypeOK
  PROVE  FB!WritesExactly <=> Exactly
  <1>1. goal \subseteq FB!Frames /\ FB!InUse \subseteq FB!Frames
    BY DEF FB!TypeOK, FB!InUse
  <1>2. FB!Run(cursor, PageCount) \subseteq FB!Frames
    BY DEF FB!BitmapConstants, FB!TypeOK, FB!Run, FB!Frames, FB!NFrames
  <1> QED BY <1>1, <1>2 DEF FB!WritesExactly, Exactly, FB!TypeOK

(* the same after a step *)
LEMMA FrameByFrameNext ==
  ASSUME FB!BitmapConstants, FB!TypeOK'
  PROVE  FB!WritesExactly' <=> Exactly'
  <1>1. goal' \subseteq FB!Frames /\ FB!InUse' \subseteq FB!Frames
    BY DEF FB!TypeOK, FB!InUse
  <1>2. FB!Run(cursor', PageCount') \subseteq FB!Frames
    <2>1. cursor' \in 0 .. FB!NFrames /\ PageCount' \in 0 .. FB!NFrames /\ cursor' + PageCount' <= FB!NFrames
      BY DEF FB!TypeOK
    <2>2. \A c, n \in 0 .. FB!NFrames : c + n <= FB!NFrames => FB!Run(c, n) \subseteq FB!Frames
      BY DEF FB!BitmapConstants, FB!Run, FB!Frames, FB!NFrames
    <2> QED BY <2>1, <2>2
  <1> QED BY <1>1, <1>2 DEF FB!WritesExactly, Exactly, FB!TypeOK

(* what one assignment to byte b of the bitmap does to the frames *)
LEMMA WriteByte ==
  ASSUME FB!BitmapConstants, FB!TypeOK, NEW b \in 0 .. NBytes, NEW X \in SUBSET FB!Places,
         bitmap' = [bitmap EXCEPT ![b] = X]
  PROVE  /\ bitmap' \in [0 .. NBytes -> SUBSET FB!Places]
         /\ \A f \in FB!Frames : f \in FB!InUse' <=> IF f \div 8 = b THEN f % 8 \in X ELSE f \in FB!InUse
         /\ bitmap'[NBytes] = IF b = NBytes THEN X ELSE bitmap[NBytes]
  <1>1. \A f \in FB!Frames : f \div 8 \in 0 .. NBytes
    BY DEF FB!BitmapConstants, FB!Frames, FB!NFrames
  <1>2. bitmap \in [0 .. NBytes -> SUBSET FB!Places] BY DEF FB!TypeOK
  <1>3. NBytes \in 0 .. NBytes BY DEF FB!BitmapConstants
  <1> QED BY <1>1, <1>2, <1>3 DEF FB!InUse

(* the bytes that Apply makes *)
LEMMA ApplyType ==
  ASSUME NEW byte \in SUBSET FB!Places, NEW mask \in SUBSET FB!Places, NEW v \in BOOLEAN
  PROVE  FB!Apply(byte, mask, v) \in SUBSET FB!Places
  BY DEF FB!Apply

(* the bits that Apply changes *)
LEMMA ApplyBits ==
  ASSUME NEW byte, NEW mask, NEW v \in BOOLEAN, NEW p
  PROVE  p \in FB!Apply(byte, mask, v) <=> IF v THEN p \in byte \/ p \in mask
                                            ELSE p \in byte /\ p \notin mask
  BY DEF FB!Apply

(* all bits are set by the first loop of allocator_init *)
LEMMA BitmapStarts ==
  ASSUME FB!BitmapConstants PROVE FB!Init => BitmapInv
  <1> SUFFICES ASSUME FB!Init PROVE BitmapInv OBVIOUS
  <1> USE DEF FB!BitmapConstants, FB!Init
  <1>1. FB!TypeOK BY DEF FB!TypeOK, FB!NFrames, FB!Places
  <1>2. Phases /\ FB!NeighbourKept BY DEF Phases, FB!NeighbourKept
  <1>3. Exactly
    <2> SUFFICES ASSUME NEW f \in FB!Frames PROVE f \in FB!InUse
      BY DEF Exactly
    <2>1. f \div 8 \in 0 .. NBytes - 1 /\ f % 8 \in FB!Places
      BY DEF FB!Frames, FB!NFrames, FB!Places
    <2> QED BY <2>1 DEF FB!InUse
  <1> QED BY <1>1, <1>2, <1>3, FrameByFrame DEF BitmapInv

(* the module of the bitmap counts as this one does *)
LEMMA SameCardinality == \A S : FB!Cardinality(S) = Cardinality(S)
  BY Zenon DEF FB!Cardinality, Cardinality

(* the count of clear bits is at most the capacity of the bitmap *)
LEMMA UsableType ==
  ASSUME FB!BitmapConstants, FB!TypeOK PROVE FB!UsableFrames \in 0 .. FB!NFrames
  <1> DEFINE All == (0 .. NBytes - 1) \X FB!Places
             Clear == {b \in All : b[2] \notin bitmap[b[1]]}
  <1>1. IsFiniteSet(0 .. NBytes - 1) /\ Cardinality(0 .. NBytes - 1) = NBytes
    BY FS_Interval DEF FB!BitmapConstants
  <1>2. IsFiniteSet(FB!Places) /\ Cardinality(FB!Places) = 8
    <2>1. 0 \in Int /\ 7 \in Int OBVIOUS
    <2>2. IsFiniteSet(0 .. 7) /\ Cardinality(0 .. 7) = IF 0 > 7 THEN 0 ELSE 7 - 0 + 1
      BY <2>1, FS_Interval
    <2> QED BY <2>2 DEF FB!Places
  <1>3. IsFiniteSet(All) /\ Cardinality(All) = NBytes * 8
    <2> DEFINE Bytes == 0 .. NBytes - 1
    <2> HIDE DEF Bytes
    <2>1. IsFiniteSet(Bytes \X FB!Places) /\ Cardinality(Bytes \X FB!Places) = Cardinality(Bytes) * Cardinality(FB!Places)
      BY <1>1, <1>2, FS_Product DEF Bytes
    <2> QED BY <1>1, <1>2, <2>1 DEF Bytes
  <1>4. Clear \subseteq All OBVIOUS
  <1>0. FB!UsableFrames = Cardinality(Clear) BY SameCardinality DEF FB!UsableFrames, FB!ClearBits
  <1> HIDE DEF All, Clear
  <1>5. IsFiniteSet(Clear) /\ Cardinality(Clear) <= Cardinality(All)
    BY <1>3, <1>4, FS_Subset
  <1>6. Cardinality(Clear) \in Nat BY <1>5, FS_CardinalityType
  <1>7. Cardinality(Clear) \in 0 .. FB!NFrames
    BY <1>3, <1>5, <1>6 DEF FB!BitmapConstants, FB!NFrames
  <1> QED BY <1>0, <1>7

(* a write that begins has all its frames left to write *)
LEMMA BeginStep ==
  ASSUME FB!BitmapConstants, BitmapInv, phase = "idle", NEW c \in FB!Frames, NEW n \in Nat, c + n <= FB!NFrames,
         NEW v \in BOOLEAN, FB!Begin(c, n, v), UNCHANGED bitmap,
         stage' \in {"map", "ready"}, writes' \in Nat,
         allocator_usable_pages' \in 0 .. FB!NFrames, reserved' \subseteq FB!Frames
  PROVE  BitmapInv'
  <1> USE DEF FB!BitmapConstants
  <1>1. FB!Run(c, n) \subseteq FB!Frames BY DEF FB!Run, FB!Frames, FB!NFrames
  <1>2. FB!TypeOK'
    <2>1. FB!TypeOK BY DEF BitmapInv
    <2>2. goal' \subseteq FB!Frames BY <1>1, <2>1 DEF FB!Begin, FB!TypeOK
    <2>3. cursor' \in 0 .. FB!NFrames /\ PageCount' \in 0 .. FB!NFrames /\ cursor' + PageCount' <= FB!NFrames
      BY DEF FB!Begin, FB!Frames, FB!NFrames
    <2>4. bitmap' \in [0 .. NBytes -> SUBSET FB!Places] BY <2>1 DEF FB!TypeOK
    <2>5. value' \in BOOLEAN /\ phase' = "head" BY DEF FB!Begin
    <2> QED BY <2>2, <2>3, <2>4, <2>5 DEF FB!TypeOK
  <1>3. Phases' BY DEF Phases, FB!Begin
  <1>4. PageCount = 0 /\ cursor \in Nat BY DEF BitmapInv, Phases, FB!TypeOK
  <1>5. FB!Run(cursor, PageCount) = {} BY <1>4 DEF FB!Run
  <1>6. goal = FB!InUse BY <1>5 DEF BitmapInv, FB!WritesExactly
  <1>7. FB!InUse' = FB!InUse BY DEF FB!InUse
  <1>8. FB!WritesExactly' BY <1>6, <1>7 DEF FB!WritesExactly, FB!Begin
  <1> QED BY <1>2, <1>3, <1>8 DEF BitmapInv, FB!NeighbourKept


(***************************************************************************)
(* The phases of a write.  A phase applies a mask to one byte b; the mask  *)
(* stands for the frames of that byte in the range, and the frames outside *)
(* that byte stay in the range or out of it.                               *)
(***************************************************************************)

(* what every phase has in common *)
LEMMA PhaseStep ==
  ASSUME FB!BitmapConstants, BitmapInv, NEW b \in 0 .. NBytes, NEW mask \in SUBSET FB!Places,
         bitmap' = [bitmap EXCEPT ![b] = FB!Apply(bitmap[b], mask, value)],
         b = NBytes => mask = {},
         UNCHANGED <<value, FB!slow>>, phase' \in {"idle", "head", "bytes"},
         cursor' \in 0 .. FB!NFrames, PageCount' \in 0 .. FB!NFrames, cursor' + PageCount' <= FB!NFrames,
         Phases',
         \A f \in FB!Frames : f \div 8 = b => /\ f % 8 \in mask <=> f \in FB!Run(cursor, PageCount)
                                          /\ f \notin FB!Run(cursor', PageCount'),
         \A f \in FB!Frames : f \div 8 # b =>
            (f \in FB!Run(cursor, PageCount) <=> f \in FB!Run(cursor', PageCount'))
  PROVE  BitmapInv'
  <1> DEFINE X == FB!Apply(bitmap[b], mask, value)
  <1>0. FB!TypeOK /\ Exactly /\ value \in BOOLEAN BY FrameByFrame DEF BitmapInv, FB!TypeOK
  <1>1. X \in SUBSET FB!Places
    BY <1>0, ApplyType DEF FB!TypeOK
  <1>2. bitmap' = [bitmap EXCEPT ![b] = X] OBVIOUS
  <1>3. b = NBytes => X = bitmap[b] BY DEF FB!Apply
  <1>x. \A p : p \in X <=> IF value THEN p \in bitmap[b] \/ p \in mask
                            ELSE p \in bitmap[b] /\ p \notin mask
    BY <1>0, ApplyBits
  <1> HIDE DEF X
  <1>4. /\ bitmap' \in [0 .. NBytes -> SUBSET FB!Places]
        /\ \A f \in FB!Frames : f \in FB!InUse' <=> IF f \div 8 = b THEN f % 8 \in X ELSE f \in FB!InUse
        /\ bitmap'[NBytes] = IF b = NBytes THEN X ELSE bitmap[NBytes]
    BY <1>0, <1>1, <1>2, WriteByte
  <1>5. FB!TypeOK' BY <1>0, <1>4 DEF FB!TypeOK, FB!slow
  <1>6. FB!NeighbourKept' BY <1>3, <1>4 DEF FB!NeighbourKept, BitmapInv
  <1>7. Exactly'
    <2> SUFFICES ASSUME NEW f \in FB!Frames
                 PROVE  f \in goal' <=>
                          IF value' THEN f \in FB!InUse' \/ f \in FB!Run(cursor', PageCount')
                          ELSE f \in FB!InUse' /\ f \notin FB!Run(cursor', PageCount')
      BY DEF Exactly
    <2>1. value' = value /\ goal' = goal BY DEF FB!slow
    <2>2. f \in goal <=> IF value THEN f \in FB!InUse \/ f \in FB!Run(cursor, PageCount)
                         ELSE f \in FB!InUse /\ f \notin FB!Run(cursor, PageCount)
      BY <1>0 DEF Exactly
    <2>3. CASE f \div 8 = b
      <3>1. f \in FB!InUse <=> f % 8 \in bitmap[b] BY <2>3 DEF FB!InUse
      <3>2. f \in FB!InUse' <=> f % 8 \in X BY <2>3, <1>4
      <3> QED BY <2>1, <2>2, <2>3, <3>1, <3>2, <1>x
    <2>4. CASE f \div 8 # b
      <3>1. f \in FB!InUse' <=> f \in FB!InUse BY <2>4, <1>4
      <3> QED BY <2>1, <2>2, <2>4, <3>1
    <2> QED BY <2>3, <2>4
  <1> QED BY <1>5, <1>6, <1>7, FrameByFrameNext DEF BitmapInv

(***************************************************************************)
(* Arithmetic of the phases, for a range of n frames from c on: the frames *)
(* f of the byte at c and those of the other bytes.                        *)
(***************************************************************************)

(* the head mask *)
LEMMA HeadMaskFrames ==
  ASSUME NEW c \in Nat, NEW n \in Nat, c % 8 > 0, 8 - (c % 8) <= n, NEW f \in Nat
  PROVE  /\ f \div 8 = c \div 8 => /\ f % 8 \in FB!ShiftRight(c % 8) <=> f \in FB!Run(c, n)
                                   /\ f \notin FB!Run(c + (8 - (c % 8)), n - (8 - (c % 8)))
         /\ f \div 8 # c \div 8 =>
              (f \in FB!Run(c, n) <=> f \in FB!Run(c + (8 - (c % 8)), n - (8 - (c % 8))))
  BY DEF FB!ShiftRight, FB!Run, FB!Places

(* the bits of a range inside one byte *)
LEMMA HeadBitsFrames ==
  ASSUME NEW c \in Nat, NEW n \in Nat, 8 - (c % 8) > n, NEW f \in Nat
  PROVE  /\ f \div 8 = c \div 8 => (f % 8 \in FB!Run(c % 8, n) <=> f \in FB!Run(c, n))
         /\ f \div 8 # c \div 8 => f \notin FB!Run(c, n)
         /\ f \notin FB!Run(c + n, 0)
  BY DEF FB!Run

(* a whole byte *)
LEMMA WholeByteFrames ==
  ASSUME NEW c \in Nat, NEW n \in Nat, c % 8 = 0, n >= 8, NEW f \in Nat
  PROVE  /\ f \div 8 = c \div 8 => /\ f % 8 \in FB!Places /\ f \in FB!Run(c, n)
                                   /\ f \notin FB!Run(c + 8, n - 8)
         /\ f \div 8 # c \div 8 => (f \in FB!Run(c, n) <=> f \in FB!Run(c + 8, n - 8))
  BY DEF FB!Run, FB!Places

(* the tail mask *)
LEMMA TailFrames ==
  ASSUME NEW c \in Nat, NEW n \in Nat, n > 0 => c % 8 = 0, n < 8, NEW f \in Nat
  PROVE  /\ f \div 8 = c \div 8 => (f % 8 \in FB!ShiftLeft(8 - n) <=> f \in FB!Run(c, n))
         /\ f \div 8 # c \div 8 => f \notin FB!Run(c, n)
         /\ f \notin FB!Run(0, 0)
  BY DEF FB!Run, FB!ShiftLeft, FB!Places

(* the byte that a phase writes lies in the bitmap, or just after it *)
LEMMA ByteInBitmap ==
  ASSUME FB!BitmapConstants, NEW c \in Nat, c <= 8 * NBytes
  PROVE  /\ c \div 8 \in 0 .. NBytes
         /\ c < 8 * NBytes => c \div 8 # NBytes
         /\ c % 8 > 0 => c < 8 * NBytes
  BY DEF FB!BitmapConstants

(* the frames are numbers *)
LEMMA FramesNat == \A f \in FB!Frames : f \in Nat
  BY DEF FB!Frames

(* the write in progress *)
LEMMA PhaseFacts ==
  ASSUME FB!BitmapConstants, BitmapInv
  PROVE  /\ cursor \in Nat /\ PageCount \in Nat /\ NBytes \in Nat
         /\ cursor + PageCount <= 8 * NBytes /\ cursor <= 8 * NBytes
  BY DEF FB!BitmapConstants, BitmapInv, FB!TypeOK, FB!NFrames

(* nothing is written before the first byte boundary *)
LEMMA AlignedStep == BitmapInv /\ FB!HeadAligned => BitmapInv'
  <1> SUFFICES ASSUME BitmapInv, FB!HeadAligned PROVE BitmapInv' OBVIOUS
  <1>1. FB!InUse' = FB!InUse BY DEF FB!HeadAligned, FB!InUse
  <1>2. UNCHANGED FB!slow BY DEF FB!HeadAligned
  <1> QED BY <1>1, <1>2 DEF BitmapInv, FB!TypeOK, Phases, FB!WritesExactly, FB!NeighbourKept, FB!HeadAligned, FB!slow

(* the mask 0xff >> (count & 7) stands for the frames up to the byte boundary *)
LEMMA HeadMaskStep ==
  ASSUME FB!BitmapConstants PROVE BitmapInv /\ FB!HeadMask => BitmapInv'
  <1> SUFFICES ASSUME BitmapInv, FB!HeadMask PROVE BitmapInv' OBVIOUS
  <1> DEFINE b == cursor \div 8
             mask == FB!ShiftRight(cursor % 8)
  <1>0. /\ cursor \in Nat /\ PageCount \in Nat /\ NBytes \in Nat
        /\ cursor + PageCount <= 8 * NBytes /\ cursor <= 8 * NBytes
    BY PhaseFacts
  <1>a. /\ cursor % 8 > 0 /\ 8 - (cursor % 8) <= PageCount
        /\ cursor' = cursor + (8 - (cursor % 8)) /\ PageCount' = PageCount - (8 - (cursor % 8))
        /\ phase' = "bytes"
    BY DEF FB!HeadMask, FB!BitsLeft
  <1>1. b \in 0 .. NBytes /\ b # NBytes BY <1>0, <1>a, ByteInBitmap
  <1>2. mask \in SUBSET FB!Places BY DEF FB!ShiftRight
  <1>3. /\ bitmap' = [bitmap EXCEPT ![b] = FB!Apply(bitmap[b], mask, value)]
        /\ UNCHANGED <<value, FB!slow>>
    BY DEF FB!HeadMask
  <1>4. /\ cursor' \in 0 .. FB!NFrames /\ PageCount' \in 0 .. FB!NFrames /\ cursor' + PageCount' <= FB!NFrames
        /\ cursor' % 8 = 0
    BY <1>0, <1>a DEF FB!NFrames
  <1>5. Phases' BY <1>a, <1>4 DEF Phases
  <1>6. \A f \in FB!Frames :
          /\ f \div 8 = b => /\ f % 8 \in mask <=> f \in FB!Run(cursor, PageCount)
                             /\ f \notin FB!Run(cursor', PageCount')
          /\ f \div 8 # b => (f \in FB!Run(cursor, PageCount) <=> f \in FB!Run(cursor', PageCount'))
    BY <1>0, <1>a, HeadMaskFrames, FramesNat
  <1> HIDE DEF mask, b
  <1> QED BY <1>1, <1>2, <1>3, <1>a, <1>4, <1>5, <1>6, PhaseStep

(* the loop over the frames of a range inside one byte *)
LEMMA HeadBitsStep ==
  ASSUME FB!BitmapConstants PROVE BitmapInv /\ FB!HeadBits => BitmapInv'
  <1> SUFFICES ASSUME BitmapInv, FB!HeadBits PROVE BitmapInv' OBVIOUS
  <1> DEFINE b == cursor \div 8
             mask == FB!Run(cursor % 8, PageCount)
  <1>0. /\ cursor \in Nat /\ PageCount \in Nat /\ NBytes \in Nat
        /\ cursor + PageCount <= 8 * NBytes /\ cursor <= 8 * NBytes
    BY PhaseFacts
  <1>a. /\ cursor % 8 > 0 /\ 8 - (cursor % 8) > PageCount
        /\ cursor' = cursor + PageCount /\ PageCount' = 0 /\ phase' = "bytes"
    BY DEF FB!HeadBits, FB!BitsLeft
  <1>1. b \in 0 .. NBytes /\ b # NBytes BY <1>0, <1>a, ByteInBitmap
  <1>2. mask \in SUBSET FB!Places BY <1>0, <1>a DEF FB!Run, FB!Places
  <1>3. /\ bitmap' = [bitmap EXCEPT ![b] = FB!Apply(bitmap[b], mask, value)]
        /\ UNCHANGED <<value, FB!slow>>
    BY DEF FB!HeadBits
  <1>4. cursor' \in 0 .. FB!NFrames /\ PageCount' \in 0 .. FB!NFrames /\ cursor' + PageCount' <= FB!NFrames
    BY <1>0, <1>a DEF FB!NFrames
  <1>5. Phases' BY <1>a DEF Phases
  <1>6. \A f \in FB!Frames :
          /\ f \div 8 = b => /\ f % 8 \in mask <=> f \in FB!Run(cursor, PageCount)
                             /\ f \notin FB!Run(cursor', PageCount')
          /\ f \div 8 # b => (f \in FB!Run(cursor, PageCount) <=> f \in FB!Run(cursor', PageCount'))
    BY <1>0, <1>a, HeadBitsFrames, FramesNat
  <1> HIDE DEF mask, b
  <1> QED BY <1>1, <1>2, <1>3, <1>a, <1>4, <1>5, <1>6, PhaseStep

(* a whole byte is eight frames *)
LEMMA WholeByteStep ==
  ASSUME FB!BitmapConstants PROVE BitmapInv /\ FB!WholeByte => BitmapInv'
  <1> SUFFICES ASSUME BitmapInv, FB!WholeByte PROVE BitmapInv' OBVIOUS
  <1> DEFINE b == cursor \div 8
  <1>0. /\ cursor \in Nat /\ PageCount \in Nat /\ NBytes \in Nat
        /\ cursor + PageCount <= 8 * NBytes /\ cursor <= 8 * NBytes
    BY PhaseFacts
  <1>a. /\ PageCount >= 8 /\ cursor' = cursor + 8 /\ PageCount' = PageCount - 8
        /\ phase = "bytes" /\ phase' = "bytes"
    BY DEF FB!WholeByte
  <1>b. cursor % 8 = 0 BY <1>0, <1>a DEF BitmapInv, Phases
  <1>1. b \in 0 .. NBytes /\ b # NBytes
    <2>1. cursor < 8 * NBytes BY <1>0, <1>a
    <2> QED BY <1>0, <2>1, ByteInBitmap
  <1>2. FB!Apply(bitmap[b], FB!Places, value) = IF value THEN FB!Places ELSE {}
    BY <1>1 DEF FB!Apply, BitmapInv, FB!TypeOK
  <1>3. /\ bitmap' = [bitmap EXCEPT ![b] = FB!Apply(bitmap[b], FB!Places, value)]
        /\ UNCHANGED <<value, FB!slow>>
    BY <1>2 DEF FB!WholeByte
  <1>4. /\ cursor' \in 0 .. FB!NFrames /\ PageCount' \in 0 .. FB!NFrames /\ cursor' + PageCount' <= FB!NFrames
        /\ cursor' % 8 = 0
    BY <1>0, <1>a, <1>b DEF FB!NFrames
  <1>5. Phases' BY <1>a, <1>4 DEF Phases
  <1>6. \A f \in FB!Frames :
          /\ f \div 8 = b => /\ f % 8 \in FB!Places <=> f \in FB!Run(cursor, PageCount)
                             /\ f \notin FB!Run(cursor', PageCount')
          /\ f \div 8 # b => (f \in FB!Run(cursor, PageCount) <=> f \in FB!Run(cursor', PageCount'))
    BY <1>0, <1>a, <1>b, WholeByteFrames, FramesNat
  <1> HIDE DEF b
  <1> QED BY <1>1, <1>3, <1>a, <1>4, <1>5, <1>6, PhaseStep

(* the mask 0xff << (8 - onePage_count) stands for the last frames; it is *)
(* empty when the byte lies after the bitmap                              *)
LEMMA TailStep ==
  ASSUME FB!BitmapConstants PROVE BitmapInv /\ FB!Tail => BitmapInv'
  <1> SUFFICES ASSUME BitmapInv, FB!Tail PROVE BitmapInv' OBVIOUS
  <1> DEFINE b == cursor \div 8
             mask == FB!ShiftLeft(8 - PageCount)
  <1>0. /\ cursor \in Nat /\ PageCount \in Nat /\ NBytes \in Nat
        /\ cursor + PageCount <= 8 * NBytes /\ cursor <= 8 * NBytes
    BY PhaseFacts
  <1>a. /\ PageCount < 8 /\ cursor' = 0 /\ PageCount' = 0
        /\ phase = "bytes" /\ phase' = "idle"
    BY DEF FB!Tail
  <1>b. PageCount > 0 => cursor % 8 = 0 BY <1>a DEF BitmapInv, Phases
  <1>1. b \in 0 .. NBytes BY <1>0, ByteInBitmap
  <1>2. mask \in SUBSET FB!Places BY DEF FB!ShiftLeft
  <1>3. /\ bitmap' = [bitmap EXCEPT ![b] = FB!Apply(bitmap[b], mask, value)]
        /\ UNCHANGED <<value, FB!slow>>
    BY DEF FB!Tail
  <1>4. cursor' \in 0 .. FB!NFrames /\ PageCount' \in 0 .. FB!NFrames /\ cursor' + PageCount' <= FB!NFrames
    BY <1>0, <1>a DEF FB!NFrames
  <1>5. Phases' BY <1>a DEF Phases
  <1>6. b = NBytes => mask = {}
    <2>1. b = NBytes => PageCount = 0 BY <1>0, ByteInBitmap
    <2>2. FB!ShiftLeft(8) = {} BY DEF FB!ShiftLeft, FB!Places
    <2> QED BY <2>1, <2>2
  <1>7. \A f \in FB!Frames :
          /\ f \div 8 = b => /\ f % 8 \in mask <=> f \in FB!Run(cursor, PageCount)
                             /\ f \notin FB!Run(cursor', PageCount')
          /\ f \div 8 # b => (f \in FB!Run(cursor, PageCount) <=> f \in FB!Run(cursor', PageCount'))
    BY <1>0, <1>a, <1>b, TailFrames, FramesNat
  <1> HIDE DEF mask, b
  <1> QED BY <1>1, <1>2, <1>3, <1>a, <1>4, <1>5, <1>6, <1>7, PhaseStep

(* every step preserves the inductive invariant *)
LEMMA BitmapSteps ==
  ASSUME FB!BitmapConstants PROVE BitmapInv /\ [FB!Next]_(FB!vars) => BitmapInv'
  <1> SUFFICES ASSUME BitmapInv, [FB!Next]_(FB!vars) PROVE BitmapInv' OBVIOUS
  <1>t. FB!TypeOK /\ stage \in {"map", "ready"} /\ writes \in Nat
        /\ allocator_usable_pages \in 0 .. FB!NFrames /\ reserved \subseteq FB!Frames /\ goal \subseteq FB!Frames
    BY DEF BitmapInv, FB!TypeOK
  <1>r. \A r \in FB!Ranges : r[1] \in FB!Frames /\ r[2] \in Nat /\ r[1] + r[2] <= FB!NFrames
    BY DEF FB!Ranges
  <1>1. ASSUME NEW r \in FB!Ranges, NEW c \in BOOLEAN, FB!Descriptor(r, c) PROVE BitmapInv'
    <2> DEFINE v == ~(c /\ r[1] >= LowFrames)
    <2>1. FB!Begin(r[1], r[2], v) /\ v \in BOOLEAN BY <1>1 DEF FB!Descriptor
    <2> HIDE DEF v
    <2>2. phase = "idle" /\ writes' \in Nat
          /\ UNCHANGED <<bitmap, stage, allocator_usable_pages, reserved>>
      BY <1>1, <1>t DEF FB!Descriptor
    <2> QED BY <2>1, <2>2, <1>t, <1>r, BeginStep
  <1>2. ASSUME NEW k \in Kernels, FB!KernelRange(k) PROVE BitmapInv'
    <2>1. k[1] \in FB!Frames /\ k[2] \in Nat /\ k[1] + k[2] <= FB!NFrames
      BY DEF FB!BitmapConstants
    <2>2. allocator_usable_pages' \in 0 .. FB!NFrames BY <1>2, <1>t, UsableType DEF FB!KernelRange
    <2> QED BY <1>2, <2>1, <2>2, <1>t, BeginStep DEF FB!KernelRange
  <1>3. ASSUME NEW r \in FB!Ranges, FB!MarkRun(r) \/ FB!ClearRun(r) PROVE BitmapInv'
    <2>1. PICK v \in BOOLEAN : FB!Begin(r[1], r[2], v) BY <1>3 DEF FB!MarkRun, FB!ClearRun
    <2>2. phase = "idle" /\ UNCHANGED <<bitmap, stage, allocator_usable_pages, reserved>>
          /\ writes' = writes + 1
      BY <1>3 DEF FB!MarkRun, FB!ClearRun
    <2>3. writes' \in Nat BY <2>2, <1>t
    <2> QED BY <2>1, <2>2, <2>3, <1>t, <1>r, BeginStep
  <1>4. CASE UNCHANGED FB!vars
    <2>1. FB!InUse' = FB!InUse BY <1>4 DEF FB!vars, FB!InUse
    <2> QED BY <1>4, <2>1 DEF FB!vars, BitmapInv, FB!TypeOK, Phases, FB!WritesExactly, FB!NeighbourKept
  <1> QED BY <1>1, <1>2, <1>3, <1>4, AlignedStep, HeadMaskStep, HeadBitsStep, WholeByteStep, TailStep
         DEF FB!Next

(* the inductive invariant holds in every reachable state *)
THEOREM BitmapInvariance ==
  BitmapSpec => []BitmapInv
  BY FrameBitmapAssumption, BitmapStarts, BitmapSteps, PTL DEF BitmapSpec, FB!Spec

(* a range write sets or clears the bits of its range and no others: *)
(* fill_bitmap, alloc_frame, free_frame and allocator_init           *)
THEOREM WritesExactlyHolds ==
  BitmapSpec => []WritesExactly
  <1>1. BitmapInv => WritesExactly BY DEF BitmapInv, WritesExactly
  <1> QED BY <1>1, BitmapInvariance, PTL

(* the tail mask never changes the byte after the bitmap *)
THEOREM NeighbourKeptHolds ==
  BitmapSpec => []NeighbourKept
  <1>1. BitmapInv => NeighbourKept BY DEF BitmapInv, NeighbourKept
  <1> QED BY <1>1, BitmapInvariance, PTL

(***************************************************************************)
(* The number of usable frames.  It is taken once, before the range of the *)
(* kernel is set, and stays right because nothing that the memory map does *)
(* not offer is ever cleared.                                              *)
(***************************************************************************)
UsableAccount ==
  stage = "ready" =>
    /\ allocator_usable_pages = Cardinality(FB!Frames \ reserved)
    /\ reserved \subseteq goal

(* between two writes the bitmap is what the writes mean *)
LEMMA AtRest ==
  ASSUME BitmapInv, phase = "idle" PROVE goal = FB!InUse
  <1>1. PageCount = 0 /\ cursor \in Nat BY DEF BitmapInv, Phases, FB!TypeOK
  <1>2. FB!Run(cursor, PageCount) = {} BY <1>1 DEF FB!Run
  <1> QED BY <1>2 DEF BitmapInv, FB!WritesExactly

(* the frames of the bitmap are finitely many *)
LEMMA FramesFinite ==
  ASSUME FB!BitmapConstants PROVE IsFiniteSet(FB!Frames)
  <1>1. FB!NFrames - 1 \in Int BY DEF FB!BitmapConstants, FB!NFrames
  <1> QED BY <1>1, FS_Interval DEF FB!Frames

(* the loops over bytes and bits count the frames that are not in use *)
LEMMA UsableCount ==
  ASSUME FB!BitmapConstants, FB!TypeOK PROVE FB!UsableFrames = Cardinality(FB!Frames \ FB!InUse)
  <1> DEFINE Bytes == 0 .. NBytes - 1
             Clear == {b \in Bytes \X FB!Places : b[2] \notin bitmap[b[1]]}
             Unused == FB!Frames \ FB!InUse
             bit == [f \in Unused |-> <<f \div 8, f % 8>>]
  <1>1. FB!UsableFrames = Cardinality(Clear) BY SameCardinality DEF FB!UsableFrames, FB!ClearBits
  <1>2. \A f \in FB!Frames : f \div 8 \in Bytes /\ f % 8 \in FB!Places /\ f = 8 * (f \div 8) + (f % 8)
    BY DEF FB!BitmapConstants, FB!Frames, FB!NFrames, FB!Places
  <1>3. \A i \in Bytes, p \in FB!Places : /\ 8 * i + p \in FB!Frames
                                   /\ (8 * i + p) \div 8 = i /\ (8 * i + p) % 8 = p
    BY DEF FB!BitmapConstants, FB!Frames, FB!NFrames, FB!Places
  <1> HIDE DEF Bytes
  <1>4. \A f \in Unused : <<f \div 8, f % 8>> \in Clear
    BY <1>2 DEF FB!InUse
  <1>5. bit \in [Unused -> Clear] BY <1>4
  <1>6. \A f, g \in Unused : bit[f] = bit[g] => f = g
    BY <1>2
  <1>7. \A b \in Clear : \E f \in Unused : bit[f] = b
    <2> SUFFICES ASSUME NEW b \in Clear PROVE \E f \in Unused : bit[f] = b
      OBVIOUS
    <2>1. b[1] \in Bytes /\ b[2] \in FB!Places /\ b = <<b[1], b[2]>> /\ b[2] \notin bitmap[b[1]]
      OBVIOUS
    <2> DEFINE f == 8 * b[1] + b[2]
    <2>2. f \in FB!Frames /\ f \div 8 = b[1] /\ f % 8 = b[2] BY <2>1, <1>3
    <2> HIDE DEF f
    <2>3. f \in Unused BY <2>1, <2>2 DEF FB!InUse
    <2> QED BY <2>1, <2>2, <2>3
  <1> HIDE DEF bit, Clear, Unused
  <1>8. bit \in Bijection(Unused, Clear)
    BY <1>5, <1>6, <1>7 DEF Bijection, Injection, Surjection, IsInjective
  <1>9. IsFiniteSet(Unused)
    BY FramesFinite, FS_Difference DEF Unused
  <1>10. Cardinality(Clear) = Cardinality(Unused)
    BY <1>8, <1>9, FS_Bijection DEF ExistsBijection
  <1> QED BY <1>1, <1>10 DEF Unused

(* every step keeps the account *)
LEMMA NextAccount ==
  ASSUME FB!BitmapConstants PROVE BitmapInv /\ UsableAccount /\ [FB!Next]_(FB!vars) => UsableAccount'
  <1> SUFFICES ASSUME BitmapInv, UsableAccount, [FB!Next]_(FB!vars) PROVE UsableAccount' OBVIOUS
  <1>1. CASE UNCHANGED <<stage, allocator_usable_pages, reserved, goal>>
    BY <1>1 DEF UsableAccount
  <1>2. ASSUME NEW r \in FB!Ranges, NEW c \in BOOLEAN, FB!Descriptor(r, c) PROVE UsableAccount'
    BY <1>2 DEF UsableAccount, FB!Descriptor
  <1>3. ASSUME NEW k \in Kernels, FB!KernelRange(k) PROVE UsableAccount'
    <2>1. goal = FB!InUse BY <1>3, AtRest DEF FB!KernelRange
    <2>2. FB!UsableFrames = Cardinality(FB!Frames \ FB!InUse) BY UsableCount DEF BitmapInv
    <2>3. allocator_usable_pages' = FB!UsableFrames /\ reserved' = goal /\ goal \subseteq goal'
      BY <1>3 DEF FB!KernelRange, FB!Begin
    <2> QED BY <2>1, <2>2, <2>3 DEF UsableAccount
  <1>4. ASSUME NEW r \in FB!Ranges, FB!MarkRun(r) PROVE UsableAccount'
    BY <1>4 DEF UsableAccount, FB!MarkRun, FB!Begin
  <1>5. ASSUME NEW r \in FB!Ranges, FB!ClearRun(r) PROVE UsableAccount'
    BY <1>5 DEF UsableAccount, FB!ClearRun, FB!Begin
  <1>6. CASE FB!HeadAligned \/ FB!HeadMask \/ FB!HeadBits \/ FB!WholeByte \/ FB!Tail
    BY <1>6, <1>1 DEF FB!HeadAligned, FB!HeadMask, FB!HeadBits, FB!WholeByte, FB!Tail, FB!slow
  <1>7. CASE UNCHANGED FB!vars BY <1>7, <1>1 DEF FB!vars
  <1> QED BY <1>2, <1>3, <1>4, <1>5, <1>6, <1>7 DEF FB!Next

(* the sum of print_physical_memory_stats *)
LEMMA AccountAddsUp ==
  ASSUME FB!BitmapConstants PROVE BitmapInv /\ UsableAccount => FB!UsableAddsUp
  <1> SUFFICES ASSUME BitmapInv, UsableAccount, stage = "ready", phase = "idle"
               PROVE  allocator_usable_pages = Cardinality(FB!Frames \ FB!InUse) + Cardinality(FB!InUse \ reserved)
    BY SameCardinality DEF FB!UsableAddsUp
  <1> DEFINE S == FB!Frames \ FB!InUse
             T == FB!InUse \ reserved
  <1>1. FB!InUse \subseteq FB!Frames /\ reserved \subseteq FB!InUse BY AtRest DEF UsableAccount, FB!InUse
  <1>2. S \cup T = FB!Frames \ reserved /\ S \cap T = {} BY <1>1
  <1>3. IsFiniteSet(S) BY FramesFinite, FS_Difference
  <1>4. T \subseteq FB!Frames BY <1>1
  <1> HIDE DEF S, T
  <1>5. IsFiniteSet(T) BY <1>4, FramesFinite, FS_Subset
  <1>6. Cardinality(S \cup T) = Cardinality(S) + Cardinality(T) - Cardinality(S \cap T)
    BY <1>3, <1>5, FS_Union
  <1>7. Cardinality(S) \in Nat /\ Cardinality(T) \in Nat BY <1>3, <1>5, FS_CardinalityType
  <1>8. Cardinality(S \cap T) = 0 BY <1>2, FS_EmptySet
  <1>9. Cardinality(S \cup T) = Cardinality(S) + Cardinality(T) BY <1>6, <1>7, <1>8
  <1>10. allocator_usable_pages = Cardinality(S \cup T) BY <1>2 DEF UsableAccount
  <1> QED BY <1>9, <1>10 DEF S, T

(* capacity, reserved, used and free pages add up after any sequence of writes: *)
(* allocator_init counts the clear bits of the whole bitmap, bit by bit         *)
THEOREM UsableAddsUpHolds ==
  BitmapSpec => []UsableAddsUp
  <1>1. FB!Init => UsableAccount BY DEF FB!Init, UsableAccount
  <1> QED BY <1>1, NextAccount, AccountAddsUp, BitmapInvariance, FrameBitmapAssumption, PTL
         DEF BitmapSpec, FB!Spec, UsableAddsUp

-----------------------------------------------------------------------------
(***************************************************************************)
(* The DMA pool while one metadata page holds all entries (OnePage) and    *)
(* callers clear what they get, for any number of frames and any request   *)
(* sizes.  NonOverlapping, LiveMapped and DescriptorMatches are not        *)
(* inductive: free_dma trusts a descriptor it finds by scanning memory, so *)
(* the invariant says what every descriptor on the way holds, which        *)
(* entries it stands for, and that no two regions share an entry or a      *)
(* frame.                                                                  *)
(***************************************************************************)

(* an entry of the one metadata page *)
EntryRec == [page : {0}, idx : Nat, status : {"Free", "Used"}, size : Nat \ {0}]

(* a descriptor at the end of a frame, and a region a driver holds *)
DescRec == [entries : Nat, pages : Nat, home : Nat \X Nat]
Region == [base : Nat, pages : Nat \ {0}, phys : Nat]

(* the descriptor of region a, and the entries it stands for *)
LastOf(a) == a.phys + a.pages - 1
D(a) == desc[LastOf(a)]
Begin(a) == D(a).home[2]
Entries(a) == Begin(a) .. Begin(a) + D(a).entries - 1

(* the one header counts at least the slots behind the last entry *)
Lists ==
  /\ list \in Seq(EntryRec) /\ Len(list) <= Limit
  /\ \A k \in 1 .. Len(list) : list[k].idx = k
  /\ dma_metadata_pages = 0
  /\ \/ hdr = <<>> /\ list = <<>>
     \/ \E c \in Nat : hdr = <<c>> /\ c >= Limit - Len(list) /\ Len(list) >= 1

(* what the frames hold, and which pages are mapped *)
MemoryType ==
  /\ used \in SUBSET Frames /\ former_count \in Nat
  /\ desc \in [Frames -> DescRec]
  /\ live \in SUBSET Region
  /\ DOMAIN vmap \subseteq Nat

(* the descriptor of a region names its entries *)
Described(a) ==
  /\ a.phys + a.pages <= NFrames
  /\ D(a).pages = a.pages /\ D(a).home[1] = 0 /\ D(a).entries >= 1
  /\ Begin(a) >= 1 /\ Begin(a) + D(a).entries - 1 <= Len(list)
  /\ \A f \in a.phys .. a.phys + a.pages - 2 : desc[f] = NoDesc

(* its entries are used, start where the region starts, and are large enough *)
Claimed(a) ==
  /\ \A k \in Entries(a) : list[k].status = "Used"
  /\ Cursor(list)[Begin(a) - 1] = a.base
  /\ Cursor(list)[Begin(a) + D(a).entries - 1] >= a.base + a.pages

(* it is mapped to frames of its own *)
Backed(a) ==
  /\ Phys(a) \subseteq used
  /\ \A v \in Virt(a) : v \in DOMAIN vmap /\ vmap[v] = a.phys + (v - a.base)

(* two regions share no entry and no frame *)
Separate(a, b) == Entries(a) \cap Entries(b) = {} /\ Phys(a) \cap Phys(b) = {}

Regions ==
  /\ \A a \in live : Described(a) /\ Claimed(a) /\ Backed(a)
  /\ \A a, b \in live : a # b => Separate(a, b)

-----------------------------------------------------------------------------
(* A non-empty set of natural numbers has a least element. *)
LEMMA LeastNat ==
  ASSUME NEW S \in SUBSET Nat, S # {}
  PROVE  \E m \in S : \A x \in S : m <= x
<1> DEFINE R == {ss \in Nat \X Nat : ss[1] < ss[2]}
<1>1. OpToRel(<, Nat) = R
  BY DEF OpToRel
<1>2. IsWellFoundedOn(R, Nat)
  BY <1>1, NatLessThanWellFounded, Zenon
<1>3. ASSUME NEW x \in Nat, NEW y \in Nat, y < x PROVE <<y, x>> \in R
  BY <1>3
<1> HIDE DEF R
<1>4. PICK m \in S : \A y \in S : ~(<<y, m>> \in R)
  BY <1>2, WFMin, Zenon
<1>5. ASSUME NEW x \in S PROVE m <= x
  <2>1. ~(x < m)
    BY <1>3, <1>4
  <2> QED BY <2>1
<1> QED BY <1>5

(* The minimum of a non-empty set of natural numbers is in it. *)
LEMMA MinNat ==
  ASSUME NEW S \in SUBSET Nat, S # {}
  PROVE  Min(S) \in S /\ \A x \in S : Min(S) <= x
<1>1. \E m \in S : \A x \in S : m <= x
  BY LeastNat, Zenon
<1> QED BY <1>1 DEF Min

(* Induction on the numbers up to n, for a set of exceptions. *)
LEMMA NoException ==
  ASSUME NEW n \in Nat, NEW Bad \in SUBSET (0 .. n), 0 \notin Bad,
         \A k \in 1 .. n : k - 1 \notin Bad => k \notin Bad
  PROVE  Bad = {}
<1> SUFFICES ASSUME Bad # {} PROVE FALSE
  OBVIOUS
<1>1. Bad \in SUBSET Nat
  OBVIOUS
<1>2. PICK m \in Bad : \A x \in Bad : m <= x
  BY <1>1, LeastNat, Zenon
<1>3. m \in 1 .. n
  BY <1>2
<1>4. m - 1 \notin Bad
  <2> SUFFICES ASSUME m - 1 \in Bad PROVE FALSE
    OBVIOUS
  <2>1. m <= m - 1
    BY <1>2
  <2> QED BY <2>1, <1>3
<1> QED BY <1>2, <1>3, <1>4

(* The walk exists: there is a function that adds up the sizes. *)
LEMMA WalkExists ==
  ASSUME NEW s, NEW L \in Nat, \A k \in 1 .. L : s[k].size \in Nat
  PROVE  \E g : g = [k \in 0 .. L |-> IF k = 0 THEN 0 ELSE g[k - 1] + s[k].size]
<1> DEFINE Walk(n, g) == g \in [0 .. n -> Nat] /\ g[0] = 0 /\ \A k \in 1 .. n : g[k] = g[k - 1] + s[k].size
           Bad == {n \in 0 .. L : ~ \E g : Walk(n, g)}
<1>1. 0 \notin Bad
  <2>1. Walk(0, [k \in 0 .. 0 |-> 0])
    BY SMT
  <2> QED BY <2>1, Zenon
<1>2. ASSUME NEW m \in 1 .. L, m - 1 \notin Bad PROVE m \notin Bad
  <2>1. m - 1 \in 0 .. L
    BY SMT
  <2>2. PICK g : Walk(m - 1, g)
    BY <2>1, <1>2, Zenon
  <2>3. Walk(m, [k \in 0 .. m |-> IF k = m THEN g[m - 1] + s[m].size ELSE g[k]])
    <3> DEFINE h == [k \in 0 .. m |-> IF k = m THEN g[m - 1] + s[m].size ELSE g[k]]
    <3>1. g \in [0 .. m - 1 -> Nat] /\ g[0] = 0 /\ \A k \in 1 .. m - 1 : g[k] = g[k - 1] + s[k].size
      BY <2>2, Zenon
    <3>2. m \in Nat /\ m > 0 /\ m \in 1 .. L /\ s[m].size \in Nat /\ g[m - 1] \in Nat
      BY <3>1, SMT
    <3>3. h[m] = g[m - 1] + s[m].size /\ \A k \in 0 .. m - 1 : h[k] = g[k]
      BY <3>2, SMT
    <3>4. h \in [0 .. m -> Nat]
      BY <3>1, <3>2, SMT
    <3> HIDE DEF h
    <3>5. h[0] = 0
      BY <3>1, <3>2, <3>3, SMT
    <3>6. \A k \in 1 .. m : h[k] = h[k - 1] + s[k].size
      BY <3>1, <3>2, <3>3, SMTT(30)
    <3>7. Walk(m, h)
      BY <3>4, <3>5, <3>6, Zenon
    <3> QED
      BY <3>7, Zenon DEF h
  <2> QED BY <2>3, Zenon
<1>3. L \in 0 .. L /\ Bad \in SUBSET (0 .. L)
  BY SMT
<1>4. Bad = {}
  <2> HIDE DEF Bad
  <2> QED BY <1>1, <1>2, <1>3, NoException, Zenon
<1>5. PICK g : Walk(L, g)
  BY <1>3, <1>4, Zenon
<1>6. g = [k \in 0 .. L |-> IF k = 0 THEN 0 ELSE g[k - 1] + s[k].size]
  BY <1>5, SMT
<1> QED BY <1>6, Zenon

(* What the walk computes, one entry at a time. *)
LEMMA CursorSteps ==
  ASSUME NEW s, Len(s) \in Nat, \A k \in 1 .. Len(s) : s[k].size \in Nat
  PROVE  /\ Cursor(s)[0] = 0
         /\ \A k \in 1 .. Len(s) : Cursor(s)[k] = Cursor(s)[k - 1] + s[k].size
<1>1. \E g : g = [k \in 0 .. Len(s) |-> IF k = 0 THEN 0 ELSE g[k - 1] + s[k].size]
  BY WalkExists, Zenon
<1>2. Cursor(s) = [k \in 0 .. Len(s) |-> IF k = 0 THEN 0 ELSE Cursor(s)[k - 1] + s[k].size]
  BY <1>1, Zenon DEF Cursor
<1> QED BY <1>2, SMTT(30)

(* Every entry is one page at least, so the cursor moves on. *)
LEMMA CursorGrows ==
  ASSUME NEW s, Len(s) \in Nat, \A k \in 1 .. Len(s) : s[k].size \in Nat \ {0}
  PROVE  /\ \A k \in 0 .. Len(s) : Cursor(s)[k] \in Nat
         /\ \A j, k \in 0 .. Len(s) : j <= k => Cursor(s)[j] <= Cursor(s)[k]
<1> DEFINE L == Len(s)
           c == Cursor(s)
           Bad == {n \in 0 .. L : ~(\A j \in 0 .. n : c[n] \in Nat /\ c[j] \in Nat /\ c[j] <= c[n])}
<1>1. c[0] = 0 /\ \A k \in 1 .. L : c[k] = c[k - 1] + s[k].size
  BY CursorSteps, SMT
<1>2. L \in Nat /\ \A k \in 1 .. L : s[k].size \in Nat \ {0}
  OBVIOUS
<1> HIDE DEF c, L
<1>3. 0 \notin Bad
  BY <1>1, SMT
<1>4. ASSUME NEW m \in 1 .. L, m - 1 \notin Bad PROVE m \notin Bad
  <2>1. \A j \in 0 .. m - 1 : c[m - 1] \in Nat /\ c[j] \in Nat /\ c[j] <= c[m - 1]
    <3>1. m - 1 \in 0 .. L
      BY <1>2, SMT
    <3> QED BY <1>4, <3>1, Zenon
  <2>2. c[m] = c[m - 1] + s[m].size /\ s[m].size \in Nat /\ m - 1 \in 0 .. m - 1
    BY <1>1, <1>2, SMT
  <2>3. \A j \in 0 .. m : c[m] \in Nat /\ c[j] \in Nat /\ c[j] <= c[m]
    BY <2>1, <2>2, SMT
  <2> QED BY <2>3, Zenon
<1>5. Bad \in SUBSET (0 .. L)
  BY SMT
<1>6. Bad = {}
  <2> HIDE DEF Bad
  <2> QED BY <1>2, <1>3, <1>4, <1>5, NoException, Zenon
<1>7. \A n \in 0 .. L : \A j \in 0 .. n : c[n] \in Nat /\ c[j] \in Nat /\ c[j] <= c[n]
  BY <1>6, Zenon
<1>8. \A j, k \in 0 .. L : j <= k => c[j] <= c[k]
  BY <1>7, <1>2, SMT
<1>9. \A k \in 0 .. L : c[k] \in Nat
  BY <1>7, <1>2, SMT
<1> QED BY <1>8, <1>9 DEF c, L

(* The cursor depends on the sizes of the entries before it only. *)
LEMMA CursorSame ==
  ASSUME NEW s, NEW t, Len(s) \in Nat, Len(t) \in Nat,
         \A k \in 1 .. Len(s) : s[k].size \in Nat, \A k \in 1 .. Len(t) : t[k].size \in Nat,
         NEW n \in Nat, n <= Len(s), n <= Len(t), \A k \in 1 .. n : s[k].size = t[k].size
  PROVE  \A k \in 0 .. n : Cursor(s)[k] = Cursor(t)[k]
<1> DEFINE c == Cursor(s)
           d == Cursor(t)
           Bad == {k \in 0 .. n : c[k] # d[k]}
<1>1. c[0] = 0 /\ \A k \in 1 .. n : c[k] = c[k - 1] + s[k].size
  BY CursorSteps, SMT
<1>2. d[0] = 0 /\ \A k \in 1 .. n : d[k] = d[k - 1] + t[k].size
  BY CursorSteps, SMT
<1> HIDE DEF c, d
<1>3. 0 \notin Bad
  BY <1>1, <1>2
<1>4. ASSUME NEW m \in 1 .. n, m - 1 \notin Bad PROVE m \notin Bad
  <2>1. c[m - 1] = d[m - 1]
    <3>1. m - 1 \in 0 .. n
      BY SMT
    <3> QED BY <1>4, <3>1, Zenon
  <2> QED BY <2>1, <1>1, <1>2, SMT
<1>5. Bad \in SUBSET (0 .. n)
  BY SMT
<1>6. Bad = {}
  <2> HIDE DEF Bad
  <2> QED BY <1>3, <1>4, <1>5, NoException, Zenon
<1> QED BY <1>6, Zenon DEF c, d

-----------------------------------------------------------------------------
(* the machine's numbers *)
Fixed == Limit \in Nat \ {0} /\ NFrames \in Nat /\ Sizes \in SUBSET (Nat \ {0})

(* Every machine has a limit, a number of frames and sizes of requests. *)
LEMMA MachineTypes ==
  ASSUME machine \in Machines PROVE Fixed
BY DmaPoolAssumption DEF Fixed, Limit, NFrames, Sizes

(* A request and its descriptor need a page at least. *)
LEMMA PagesForPositive ==
  ASSUME NEW size \in Nat \ {0} PROVE PagesFor(size) \in Nat \ {0}
BY DEF PagesFor

(* What a list of entries is made of. *)
LEMMA EntryTypes ==
  ASSUME NEW s \in Seq(EntryRec)
  PROVE  /\ Len(s) \in Nat /\ DOMAIN s = 1 .. Len(s)
         /\ \A k \in 1 .. Len(s) :
              /\ s[k] \in EntryRec
              /\ s[k].page = 0 /\ s[k].size \in Nat \ {0}
              /\ s[k].status \in {"Free", "Used"}
<1>1. Len(s) \in Nat /\ DOMAIN s = 1 .. Len(s) /\ \A k \in 1 .. Len(s) : s[k] \in EntryRec
  OBVIOUS
<1>2. ASSUME NEW k \in 1 .. Len(s)
      PROVE  s[k].page = 0 /\ s[k].size \in Nat \ {0} /\ s[k].status \in {"Free", "Used"}
  <2>1. s[k] \in EntryRec
    BY <1>1
  <2> QED BY <2>1 DEF EntryRec
<1> QED BY <1>1, <1>2

(* a cursor that does not go back, and n pages from b on that entries i .. j have room for *)
Increasing(L, c) ==
  L \in Nat /\ (\A k \in 0 .. L : c[k] \in Nat) /\ \A x, y \in 0 .. L : x <= y => c[x] <= c[y]
Stretch(L, c, i, j, b, n) ==
  /\ i \in Nat /\ j \in Nat /\ b \in Nat /\ n \in Nat
  /\ 1 <= i /\ i <= j /\ j <= L /\ c[i - 1] = b /\ c[j] >= b + n

(* Two different stretches of entries stand for different pages. *)
LEMMA StretchesApart ==
  ASSUME NEW L, NEW c, Increasing(L, c), NEW i1, NEW j1, NEW i2, NEW j2, NEW b1, NEW n1, NEW b2, NEW n2,
         Stretch(L, c, i1, j1, b1, n1), Stretch(L, c, i2, j2, b2, n2), j1 < i2 \/ j2 < i1
  PROVE  b1 + n1 <= b2 \/ b2 + n2 <= b1
<1> USE DEF Increasing, Stretch
<1>2. CASE j1 < i2
  <2>1. c[j1] <= c[i2 - 1]
    <3>1. j1 \in 0 .. L /\ i2 - 1 \in 0 .. L /\ j1 <= i2 - 1
      BY <1>2
    <3> QED BY <3>1
  <2>2. b1 + n1 <= b2
    <3>1. c[j1] \in Nat
      OBVIOUS
    <3> QED BY <2>1, <3>1
  <2> QED BY <2>2
<1>3. CASE j2 < i1
  <2>1. c[j2] <= c[i1 - 1]
    <3>1. j2 \in 0 .. L /\ i1 - 1 \in 0 .. L /\ j2 <= i1 - 1
      BY <1>3
    <3> QED BY <3>1
  <2>2. b2 + n2 <= b1
    <3>1. c[j2] \in Nat
      OBVIOUS
    <3> QED BY <2>1, <3>1
  <2> QED BY <2>2
<1> QED BY <1>2, <1>3

(* The free run that ends at an entry. *)
LEMMA RunStartFacts ==
  ASSUME Lists, NEW j \in 1 .. Len(list)
  PROVE  /\ RunStart(j) \in 1 .. j + 1
         /\ \A k \in RunStart(j) .. j : list[k].status = "Free"
         /\ list[j].status = "Free" => RunStart(j) <= j
<1> DEFINE S == {i \in 1 .. j + 1 : AllFree(i, j)}
<1>0. j \in Nat
  BY EntryTypes DEF Lists
<1>1. S \in SUBSET Nat /\ j + 1 \in S
  BY <1>0 DEF AllFree
<1>2. Min(S) \in S /\ \A x \in S : Min(S) <= x
  <2> HIDE DEF S
  <2> QED BY <1>1, MinNat
<1>3. RunStart(j) \in S /\ \A x \in S : RunStart(j) <= x
  BY <1>2 DEF RunStart
<1>4. ASSUME list[j].status = "Free" PROVE RunStart(j) <= j
  <2>1. j \in S
    BY <1>0, <1>4 DEF AllFree
  <2> QED BY <2>1, <1>3
<1> QED BY <1>3, <1>4 DEF AllFree

(* t is s but for the status of the entries in I *)
Restated(s, t, I, st) ==
  /\ t \in Seq(EntryRec) /\ Len(t) = Len(s)
  /\ \A k \in 1 .. Len(s) : /\ t[k].idx = s[k].idx /\ t[k].size = s[k].size
                            /\ t[k].status = IF k \in I THEN st ELSE s[k].status

(* Claiming or freeing entries leaves the rest of them as it is. *)
LEMMA SetStatusFacts ==
  ASSUME NEW s \in Seq(EntryRec), NEW I, NEW st \in {"Free", "Used"}
  PROVE  Restated(s, SetStatus(s, I, st), I, st)
<1> DEFINE t == SetStatus(s, I, st)
<1>1. Len(s) \in Nat /\ DOMAIN s = 1 .. Len(s)
  OBVIOUS
<1>2. ASSUME NEW k \in 1 .. Len(s)
      PROVE  /\ t[k] \in EntryRec /\ t[k].idx = s[k].idx /\ t[k].size = s[k].size
             /\ t[k].status = IF k \in I THEN st ELSE s[k].status
  <2>1. s[k] \in EntryRec
    OBVIOUS
  <2>2. t[k] = IF k \in I THEN [s[k] EXCEPT !.status = st] ELSE s[k]
    BY <1>1 DEF SetStatus
  <2>3. PICK x : x = s[k]
    OBVIOUS
  <2> HIDE DEF t
  <2> QED BY <2>1, <2>2, <2>3 DEF EntryRec
<1>3. DOMAIN t = 1 .. Len(s) /\ t = [k \in 1 .. Len(s) |-> t[k]]
  BY <1>1 DEF SetStatus
<1>4. t \in [1 .. Len(s) -> EntryRec]
  <2> HIDE DEF t
  <2> QED BY <1>2, <1>3
<1>5. t \in Seq(EntryRec) /\ Len(t) = Len(s)
  <2> HIDE DEF t
  <2> QED BY <1>1, <1>4
<1> QED BY <1>2, <1>5 DEF Restated

-----------------------------------------------------------------------------
(* a region gets its frames, all cleared, and a descriptor in the last one *)
Given(n, base, i, e, s) ==
  /\ s \in Nat /\ s + n <= NFrames /\ (s .. s + n - 1) \cap used = {}
  /\ used' = used \cup (s .. s + n - 1)
  /\ former_count' = s + n
  /\ DOMAIN vmap' = DOMAIN vmap \cup (base .. base + n - 1)
  /\ \A v \in base .. base + n - 1 : vmap'[v] = s + (v - base)
  /\ \A v \in DOMAIN vmap \ (base .. base + n - 1) : vmap'[v] = vmap[v]
  /\ desc' \in [Frames -> DescRec]
  /\ desc'[s + n - 1] = [entries |-> e, pages |-> n, home |-> <<0, i>>]
  /\ \A f \in s .. s + n - 2 : desc'[f] = NoDesc
  /\ \A f \in Frames \ (s .. s + n - 1) : desc'[f] = desc[f]
  /\ live' = live \cup {[base |-> base, pages |-> n, phys |-> s]}

(* Backing a range either fails, and changes nothing, or gives it frames of its own. *)
LEMMA BackFacts ==
  ASSUME Fixed, MemoryType, NEW n \in Nat \ {0}, NEW base \in Nat, NEW i \in Nat, NEW e \in Nat,
         NEW clear, clear = TRUE, Back(n, base, <<0, i>>, e, clear)
  PROVE  UNCHANGED <<memory, live>> \/ \E s : Given(n, base, i, e, s)
<1>1. CASE FrameFits(n) = {}
  BY <1>1 DEF Back
<1>2. CASE FrameFits(n) # {}
  <2> DEFINE s == Min(FrameFits(n))
             last == s + n - 1
  <2>1. FrameFits(n) \in SUBSET Nat
    BY DEF FrameFits, MemoryType, Fixed
  <2>2. s \in FrameFits(n)
    BY <1>2, <2>1, MinNat
  <2>3. s \in Nat /\ s + n <= NFrames /\ (s .. s + n - 1) \cap used = {}
    BY <2>1, <2>2 DEF FrameFits, MemoryType, Fixed
  <2>4. /\ used' = used \cup (s .. last)
        /\ former_count' = s + n
        /\ vmap' = [v \in DOMAIN vmap \cup (base .. base + n - 1) |->
                      IF v \in base .. base + n - 1 THEN s + (v - base) ELSE vmap[v]]
        /\ desc' = [f \in Frames |->
                      IF f = last THEN [entries |-> e, pages |-> n, home |-> <<0, i>>]
                      ELSE IF clear /\ f \in s .. last THEN NoDesc ELSE desc[f]]
        /\ live' = live \cup {[base |-> base, pages |-> n, phys |-> s]}
    BY <1>2, Zenon DEF Back
  <2> HIDE DEF s
  <2>5. [entries |-> e, pages |-> n, home |-> <<0, i>>] \in DescRec /\ NoDesc \in DescRec
    BY DEF DescRec, NoDesc
  <2>6. PICK d : d = [entries |-> e, pages |-> n, home |-> <<0, i>>]
    OBVIOUS
  <2>7. desc' = [f \in Frames |-> IF f = last THEN d
                                  ELSE IF f \in s .. last THEN NoDesc ELSE desc[f]]
    BY <2>4, <2>6
  <2>8. desc' \in [Frames -> DescRec]
    BY <2>5, <2>6, <2>7 DEF MemoryType
  <2>9. s .. last \subseteq Frames /\ last \in Frames
    BY <2>3 DEF Frames, Fixed
  <2>10. /\ desc'[last] = d
         /\ \A f \in s .. s + n - 2 : desc'[f] = NoDesc
         /\ \A f \in Frames \ (s .. last) : desc'[f] = desc[f]
    BY <2>3, <2>7, <2>9
  <2>11. /\ DOMAIN vmap' = DOMAIN vmap \cup (base .. base + n - 1)
         /\ \A v \in base .. base + n - 1 : vmap'[v] = s + (v - base)
         /\ \A v \in DOMAIN vmap \ (base .. base + n - 1) : vmap'[v] = vmap[v]
    BY <2>4
  <2> QED BY <2>3, <2>4, <2>6, <2>8, <2>10, <2>11 DEF Given
<1> QED BY <1>1, <1>2

(* the entries i .. j, free or new before, are claimed *)
Claims(i, j) ==
  /\ Len(list) <= Len(list')
  /\ \A k \in 1 .. Len(list) : list'[k].size = list[k].size
  /\ \A k \in 1 .. Len(list) : list[k].status = "Used" => list'[k].status = "Used"
  /\ 1 <= i /\ i <= j /\ j <= Len(list')
  /\ \A k \in i .. j : list'[k].status = "Used" /\ (k <= Len(list) => list[k].status = "Free")

(* The entries of a region that is held stay as they are when others are claimed. *)
LEMMA KeptEntries ==
  ASSUME Lists, Lists', MemoryType, Regions, NEW i \in Nat, NEW j \in Nat, Claims(i, j),
         NEW a \in live
  PROVE  /\ a \in Region /\ D(a) \in DescRec
         /\ Begin(a) \in Nat /\ D(a).entries \in Nat
         /\ Entries(a) \cap (i .. j) = {}
         /\ Begin(a) + D(a).entries - 1 <= Len(list')
         /\ \A k \in Entries(a) : list'[k].status = "Used"
         /\ Cursor(list')[Begin(a) - 1] = a.base
         /\ Cursor(list')[Begin(a) + D(a).entries - 1] >= a.base + a.pages
<1>1. a \in Region /\ Described(a) /\ Claimed(a) /\ Backed(a)
  BY DEF Regions, MemoryType
<1>2. a.base \in Nat /\ a.pages \in Nat \ {0} /\ a.phys \in Nat
  BY <1>1 DEF Region
<1>3. D(a) \in DescRec
  <2>1. LastOf(a) \in Frames
    BY <1>1, <1>2 DEF Backed, Phys, LastOf, MemoryType
  <2> QED BY <2>1 DEF D, MemoryType
<1>4. Begin(a) \in Nat /\ D(a).entries \in Nat
  BY <1>3 DEF DescRec, Begin
<1>5. Begin(a) >= 1 /\ D(a).entries >= 1 /\ Begin(a) + D(a).entries - 1 <= Len(list)
  BY <1>1 DEF Described
<1>6. Len(list) \in Nat /\ Len(list') \in Nat
       /\ (\A k \in 1 .. Len(list) : list[k].size \in Nat \ {0})
       /\ (\A k \in 1 .. Len(list') : list'[k].size \in Nat \ {0})
  <2>1. list \in Seq(EntryRec) /\ list' \in Seq(EntryRec)
    BY DEF Lists
  <2> QED BY <2>1, EntryTypes
<1>7. \A k \in 0 .. Len(list) : Cursor(list)[k] = Cursor(list')[k]
  <2>1. PICK s, t : s = list /\ t = list'
    OBVIOUS
  <2>2. Len(s) \in Nat /\ Len(t) \in Nat /\ Len(s) <= Len(t) /\ \A k \in 1 .. Len(s) : s[k].size = t[k].size
    BY <2>1, <1>6 DEF Claims
  <2>3. (\A k \in 1 .. Len(s) : s[k].size \in Nat) /\ (\A k \in 1 .. Len(t) : t[k].size \in Nat)
    BY <2>1, <1>6
  <2>4. Len(s) <= Len(s)
    BY <2>2
  <2>5. \A k \in 0 .. Len(s) : Cursor(s)[k] = Cursor(t)[k]
    BY <2>2, <2>3, <2>4, CursorSame, ZenonT(40)
  <2> QED BY <2>1, <2>5
<1>8. ASSUME NEW k \in Entries(a)
      PROVE  k \in 1 .. Len(list) /\ list[k].status = "Used" /\ list'[k].status = "Used" /\ k \notin i .. j
  <2>1. k \in 1 .. Len(list) /\ list[k].status = "Used"
    BY <1>1, <1>4, <1>5, <1>6 DEF Entries, Claimed
  <2> QED BY <2>1, <1>6 DEF Claims
<1>9. Len(list) <= Len(list')
  BY DEF Claims
<1>10. Begin(a) - 1 \in 0 .. Len(list) /\ Begin(a) + D(a).entries - 1 \in 0 .. Len(list)
  BY <1>4, <1>5, <1>6, SMTT(30)
<1>11. /\ Cursor(list')[Begin(a) - 1] = a.base
       /\ Cursor(list')[Begin(a) + D(a).entries - 1] >= a.base + a.pages
  BY <1>1, <1>7, <1>10 DEF Claimed
<1> QED BY <1>1, <1>3, <1>4, <1>5, <1>6, <1>8, <1>9, <1>11

-----------------------------------------------------------------------------
(* A claim for which there are no frames leaves every region as it is. *)
LEMMA ClaimFails ==
  ASSUME Fixed, machine' = machine, Lists, Lists', MemoryType, Regions, NEW i \in Nat, NEW j \in Nat,
         Claims(i, j), UNCHANGED <<memory, live>>
  PROVE  MemoryType' /\ Regions'
<1>1. /\ used' = used /\ former_count' = former_count /\ desc' = desc /\ vmap' = vmap
      /\ live' = live /\ NFrames' = NFrames /\ Frames' = Frames
  BY DEF memory, NFrames, Frames
<1>2. MemoryType'
  BY <1>1 DEF MemoryType
<1>3. ASSUME NEW a \in live'
      PROVE  /\ Described(a)' /\ Claimed(a)' /\ Backed(a)'
             /\ Entries(a)' = Entries(a) /\ Phys(a)' = Phys(a)
  <2>1. a \in live
    BY <1>1
  <2>2. Described(a) /\ Backed(a)
    BY <2>1 DEF Regions
  <2>3. D(a)' = D(a) /\ Begin(a)' = Begin(a)
    BY <1>1 DEF D, Begin, LastOf
  <2>4. Entries(a)' = Entries(a)
    BY <2>3 DEF Entries
  <2>5. /\ Begin(a) + D(a).entries - 1 <= Len(list')
        /\ \A k \in Entries(a) : list'[k].status = "Used"
        /\ Cursor(list')[Begin(a) - 1] = a.base
        /\ Cursor(list')[Begin(a) + D(a).entries - 1] >= a.base + a.pages
    BY <2>1, KeptEntries, Zenon
  <2>6. Described(a)'
    BY <2>2, <2>3, <2>5, <1>1 DEF Described, NoDesc
  <2>7. Claimed(a)'
    BY <2>3, <2>4, <2>5, Zenon DEF Claimed
  <2>8. Backed(a)'
    BY <2>2, <1>1 DEF Backed, Phys, Virt
  <2> QED BY <2>4, <2>6, <2>7, <2>8 DEF Phys
<1>4. ASSUME NEW a \in live', NEW b \in live', a # b PROVE Separate(a, b)'
  <2>1. Separate(a, b)
    BY <1>1, <1>4 DEF Regions
  <2> QED BY <2>1, <1>3, Zenon DEF Separate
<1> QED BY <1>2, <1>3, <1>4 DEF Regions

(* A region keeps its descriptor, its frames and its mapping when another one is given out. *)
LEMMA KeptMemory ==
  ASSUME Fixed, machine' = machine, Lists, Lists', MemoryType, Regions, NEW i \in Nat, NEW j \in Nat,
         Claims(i, j), NEW n \in Nat \ {0}, NEW base \in Nat, NEW e, NEW s, Given(n, base, i, e, s),
         Cursor(list')[i - 1] = base, Cursor(list')[j] >= base + n, NEW a \in live
  PROVE  /\ Described(a)' /\ Claimed(a)' /\ Backed(a)'
         /\ Entries(a)' = Entries(a) /\ Phys(a)' = Phys(a)
         /\ Phys(a) \cap (s .. s + n - 1) = {}
<1>1. a \in Region /\ Described(a) /\ Claimed(a) /\ Backed(a)
  BY DEF Regions, MemoryType
<1>2. a.base \in Nat /\ a.pages \in Nat \ {0} /\ a.phys \in Nat
  BY <1>1 DEF Region
<1>3. Phys(a) \cap (s .. s + n - 1) = {} /\ Phys(a) \subseteq Frames
  BY <1>1 DEF Backed, Given, MemoryType
<1>4. \A f \in Phys(a) : desc'[f] = desc[f]
  BY <1>3 DEF Given
<1>5. LastOf(a) \in Phys(a) /\ a.phys .. a.phys + a.pages - 2 \subseteq Phys(a)
  BY <1>2 DEF LastOf, Phys
<1>6. D(a)' = D(a) /\ Begin(a)' = Begin(a)
  <2>1. D(a)' = D(a)
    BY <1>4, <1>5 DEF D, LastOf
  <2> QED BY <2>1 DEF Begin
<1>7. Entries(a)' = Entries(a)
  BY <1>6 DEF Entries
<1>8. /\ Begin(a) \in Nat /\ D(a).entries \in Nat
      /\ Entries(a) \cap (i .. j) = {}
      /\ Begin(a) + D(a).entries - 1 <= Len(list')
      /\ \A k \in Entries(a) : list'[k].status = "Used"
      /\ Cursor(list')[Begin(a) - 1] = a.base
      /\ Cursor(list')[Begin(a) + D(a).entries - 1] >= a.base + a.pages
  BY KeptEntries, Zenon
<1>9. Begin(a) >= 1 /\ D(a).entries >= 1
  BY <1>1 DEF Described
<1>10. Described(a)'
  <2>1. \A f \in a.phys .. a.phys + a.pages - 2 : desc'[f] = NoDesc
    BY <1>1, <1>4, <1>5 DEF Described
  <2>2. NFrames' = NFrames
    BY DEF NFrames
  <2> QED BY <1>1, <1>6, <1>8, <2>1, <2>2 DEF Described, NoDesc
<1>11. Claimed(a)'
  BY <1>6, <1>7, <1>8, Zenon DEF Claimed
<1>12. Virt(a) \cap (base .. base + n - 1) = {}
  <2>1. list' \in Seq(EntryRec)
    BY DEF Lists
  <2>2. PICK L, c, b, p, last :
          L = Len(list') /\ c = Cursor(list') /\ b = Begin(a) /\ p = D(a).entries /\ last = b + p - 1
    OBVIOUS
  <2>3. Increasing(L, c)
    <3>1. Len(list') \in Nat /\ \A k \in 1 .. Len(list') : list'[k].size \in Nat \ {0}
      BY <2>1, EntryTypes
    <3> QED BY <2>2, <3>1, CursorGrows DEF Increasing
  <2>4. Stretch(L, c, b, last, a.base, a.pages)
    <3>1. /\ b \in Nat /\ p \in Nat /\ b >= 1 /\ p >= 1 /\ last = b + p - 1 /\ last <= L
          /\ c[b - 1] = a.base /\ c[last] >= a.base + a.pages
      BY <1>8, <1>9, <2>2, Zenon
    <3> QED BY <1>2, <3>1 DEF Stretch
  <2>5. Stretch(L, c, i, j, base, n)
    BY <2>2 DEF Claims, Stretch
  <2>6. last < i \/ j < b
    <3>1. Entries(a) = b .. last
      BY <2>2 DEF Entries
    <3>2. ~(b \in i .. j) /\ ~(i \in b .. last)
      <4>1. b \in b .. last /\ i \in i .. j
        BY <2>4, <2>5 DEF Stretch
      <4> QED BY <1>8, <3>1, <4>1
    <3> QED BY <2>4, <2>5, <3>2 DEF Stretch
  <2>7. a.base + a.pages <= base \/ base + n <= a.base
    BY <2>3, <2>4, <2>6, <2>5, StretchesApart, Zenon
  <2> QED BY <1>2, <2>7 DEF Virt
<1>13. Backed(a)'
  <2>1. Phys(a) \subseteq used'
    BY <1>1 DEF Given, Backed
  <2>2. \A v \in Virt(a) : v \in DOMAIN vmap' /\ vmap'[v] = a.phys + (v - a.base)
    BY <1>1, <1>12 DEF Given, Backed
  <2> QED BY <2>1, <2>2 DEF Backed, Phys, Virt
<1> QED BY <1>3, <1>7, <1>10, <1>11, <1>13 DEF Phys

(* The region that is given out is described, claimed and backed. *)
LEMMA NewRegion ==
  ASSUME Fixed, machine' = machine, NEW i \in Nat, NEW j \in Nat,
         Claims(i, j), NEW n \in Nat \ {0}, NEW base \in Nat, NEW e, e = j - i + 1,
         NEW s, Given(n, base, i, e, s),
         Cursor(list')[i - 1] = base, Cursor(list')[j] >= base + n,
         NEW a, a = [base |-> base, pages |-> n, phys |-> s]
  PROVE  /\ a \in Region /\ Described(a)' /\ Claimed(a)' /\ Backed(a)'
         /\ Entries(a)' = i .. j /\ Phys(a)' = s .. s + n - 1
<1>1. a.base = base /\ a.pages = n /\ a.phys = s /\ s \in Nat /\ a \in Region
  BY DEF Region, Given
<1>2. PICK d : d = [entries |-> e, pages |-> n, home |-> <<0, i>>]
  OBVIOUS
<1>3. D(a)' = d
  BY <1>1, <1>2 DEF D, LastOf, Given
<1>4. D(a)'.entries = e /\ D(a)'.pages = n /\ D(a)'.home = <<0, i>> /\ Begin(a)' = i
  BY <1>2, <1>3 DEF Begin
<1>5. 1 <= i /\ i <= j /\ j <= Len(list') /\ \A k \in i .. j : list'[k].status = "Used"
  BY DEF Claims
<1>6. Entries(a)' = i .. j
  BY <1>4, <1>5, SMTT(30) DEF Entries
<1>7. Described(a)'
  <2>1. NFrames' = NFrames /\ s + n <= NFrames
    BY DEF NFrames, Given
  <2>2. \A f \in s .. s + n - 2 : desc'[f] = NoDesc
    BY DEF Given
  <2> QED BY <1>1, <1>4, <1>5, <2>1, <2>2 DEF Described, NoDesc
<1>8. Claimed(a)'
  <2>1. i + e - 1 = j
    BY <1>5
  <2> QED BY <1>1, <1>4, <1>5, <1>6, <2>1 DEF Claimed
<1>9. Backed(a)'
  <2>1. s .. s + n - 1 \subseteq used' /\ \A v \in base .. base + n - 1 : v \in DOMAIN vmap' /\ vmap'[v] = s + (v - base)
    BY DEF Given
  <2> QED BY <1>1, <2>1 DEF Backed, Phys, Virt
<1> QED BY <1>1, <1>6, <1>7, <1>8, <1>9 DEF Phys

(* A claim that gets frames keeps every region apart. *)
LEMMA ClaimSucceeds ==
  ASSUME Fixed, machine' = machine, Lists, Lists', MemoryType, Regions, NEW i \in Nat, NEW j \in Nat,
         Claims(i, j), NEW n \in Nat \ {0}, NEW base \in Nat, NEW e, e = j - i + 1,
         NEW s, Given(n, base, i, e, s),
         Cursor(list')[i - 1] = base, Cursor(list')[j] >= base + n
  PROVE  MemoryType' /\ Regions'
<1>1. PICK new : new = [base |-> base, pages |-> n, phys |-> s]
  OBVIOUS
<1>2. live' = live \cup {new} /\ s \in Nat
  BY <1>1 DEF Given
<1>3. /\ new \in Region /\ Described(new)' /\ Claimed(new)' /\ Backed(new)'
      /\ Entries(new)' = i .. j /\ Phys(new)' = s .. s + n - 1
  BY <1>1, NewRegion
<1>4. ASSUME NEW a \in live
      PROVE  /\ Described(a)' /\ Claimed(a)' /\ Backed(a)'
             /\ Entries(a)' = Entries(a) /\ Phys(a)' = Phys(a)
             /\ Phys(a) \cap (s .. s + n - 1) = {} /\ Entries(a) \cap (i .. j) = {}
  <2>1. Entries(a) \cap (i .. j) = {}
    BY KeptEntries, Zenon
  <2> QED BY <2>1, KeptMemory, Zenon
<1>5. MemoryType'
  <2>1. Frames' = Frames
    BY DEF Frames, NFrames
  <2>2. s .. s + n - 1 \subseteq Frames
    BY <1>2, SMTT(30) DEF Frames, Fixed, Given
  <2> QED BY <1>2, <1>3, <2>1, <2>2, SMTT(30) DEF MemoryType, Given
<1>6. \A a \in live' : Described(a)' /\ Claimed(a)' /\ Backed(a)'
  BY <1>2, <1>3, <1>4, Zenon
<1>7. ASSUME NEW a \in live', NEW b \in live', a # b PROVE Separate(a, b)'
  <2>1. CASE a \in live /\ b \in live
    <3>1. Separate(a, b)
      BY <1>7, <2>1 DEF Regions
    <3> QED BY <2>1, <3>1, <1>4, Zenon DEF Separate
  <2>2. CASE a = new
    <3>1. b \in live
      BY <1>2, <1>7, <2>2
    <3> QED BY <2>2, <3>1, <1>3, <1>4 DEF Separate
  <2>3. CASE b = new
    <3>1. a \in live
      BY <1>2, <1>7, <2>3
    <3> QED BY <2>3, <3>1, <1>3, <1>4 DEF Separate
  <2> QED BY <1>2, <2>1, <2>2, <2>3
<1> QED BY <1>5, <1>6, <1>7 DEF Regions

-----------------------------------------------------------------------------
(* the part of the invariant that is about a pool of one page *)
Sane == fault = FALSE /\ Lists /\ MemoryType /\ Regions

(* Whether or not frames are left, a claim of entries that have room for n pages is sound. *)
LEMMA ClaimSound ==
  ASSUME Fixed, machine' = machine, Sane, Lists', fault' = fault, NEW i \in Nat, NEW j \in Nat, Claims(i, j),
         NEW n \in Nat \ {0}, NEW base \in Nat, NEW e \in Nat, e = j - i + 1, NEW clear, clear = TRUE,
         Back(n, base, <<0, i>>, e, clear),
         Cursor(list')[i - 1] = base, Cursor(list')[j] >= base + n
  PROVE  Sane'
<1>1. Lists /\ MemoryType /\ Regions /\ fault' = FALSE
  BY DEF Sane
<1>2. UNCHANGED <<memory, live>> \/ \E s : Given(n, base, i, e, s)
  BY <1>1, BackFacts, Zenon
<1>3. CASE UNCHANGED <<memory, live>>
  <2>1. MemoryType' /\ Regions'
    BY <1>1, <1>3, ClaimFails, Zenon
  <2> QED BY <1>1, <2>1 DEF Sane
<1>4. CASE \E s : Given(n, base, i, e, s)
  <2>1. PICK s : Given(n, base, i, e, s)
    BY <1>4
  <2>2. MemoryType' /\ Regions'
    BY <1>1, <2>1, ClaimSucceeds, Zenon
  <2> QED BY <1>1, <2>2 DEF Sane
<1> QED BY <1>2, <1>3, <1>4

(* The first call makes a list of one entry. *)
LEMMA FirstSound ==
  ASSUME Fixed, machine' = machine, Sane, NEW n \in Nat \ {0}, NEW clear, clear = TRUE, AllocFirst(n, clear)
  PROVE  Sane'
<1>1. /\ hdr = <<>> /\ list' = <<Entry(0, 1, n)>> /\ hdr' = <<Limit - 1>> /\ Back(n, 0, <<0, 1>>, 1, clear)
      /\ dma_metadata_pages' = dma_metadata_pages /\ fault' = fault
  BY DEF AllocFirst
<1>2. Lists /\ list = <<>> /\ dma_metadata_pages = 0
  BY <1>1 DEF Sane, Lists
<1>3. PICK x : x = Entry(0, 1, n)
  OBVIOUS
<1>4. x \in EntryRec /\ x.idx = 1 /\ x.status = "Used" /\ x.size = n
  BY <1>3 DEF Entry, EntryRec
<1>5. list' = <<x>> /\ list' \in Seq(EntryRec) /\ Len(list') = 1 /\ list'[1] = x
  BY <1>1, <1>3, <1>4
<1>6. Limit' = Limit /\ Limit \in Nat \ {0}
  BY DEF Limit, Fixed
<1>7. Lists'
  <2>1. Len(list') <= Limit' /\ \A k \in 1 .. Len(list') : list'[k].idx = k
    BY <1>4, <1>5, <1>6
  <2>2. \E c \in Nat : hdr' = <<c>> /\ c >= Limit' - Len(list') /\ Len(list') >= 1
    <3>1. Limit - 1 \in Nat /\ Limit - 1 >= Limit' - Len(list') /\ Len(list') >= 1
      BY <1>5, <1>6
    <3> QED BY <1>1, <3>1
  <2> QED BY <1>1, <1>2, <1>5, <2>1, <2>2 DEF Lists
<1>8. Len(list) = 0
  BY <1>2
<1>9. Claims(1, 1)
  BY <1>4, <1>5, <1>8 DEF Claims
<1>10. Cursor(list')[0] = 0 /\ Cursor(list')[1] = n
  <2>1. PICK s : s = list'
    OBVIOUS
  <2>2. Len(s) = 1 /\ s[1].size = n
    BY <1>4, <1>5, <2>1
  <2>3. /\ Cursor(s)[0] = 0
        /\ \A k \in 1 .. Len(s) : Cursor(s)[k] = Cursor(s)[k - 1] + s[k].size
    <3>1. Len(s) \in Nat /\ \A k \in 1 .. Len(s) : s[k].size \in Nat
      BY <2>2
    <3> QED BY <3>1, CursorSteps
  <2>4. Cursor(s)[1] = Cursor(s)[0] + n
    BY <2>2, <2>3
  <2> QED BY <2>1, <2>3, <2>4
<1>11. PICK one, zero : one = 1 /\ zero = 0
  OBVIOUS
<1>12. /\ one \in Nat /\ zero \in Nat /\ one = one - one + 1 /\ Claims(one, one) /\ Back(n, zero, <<0, one>>, one, clear)
       /\ Cursor(list')[one - 1] = zero /\ Cursor(list')[one] >= zero + n
  <2>1. Back(n, zero, <<0, one>>, one, clear) /\ Claims(one, one)
    BY <1>1, <1>9, <1>11, Zenon
  <2>2. one \in Nat /\ zero \in Nat /\ one = one - one + 1 /\ one - 1 = 0
    BY <1>11
  <2>3. Cursor(list')[one - 1] = zero /\ Cursor(list')[one] >= zero + n
    BY <1>10, <1>11, <2>2
  <2> QED BY <2>1, <2>2, <2>3
<1> QED BY <1>1, <1>7, <1>12, ClaimSound, Zenon

(* Reuse of a free run. *)
LEMMA ReuseSound ==
  ASSUME Fixed, machine' = machine, Sane, NEW n \in Nat \ {0}, NEW clear, clear = TRUE, AllocReuse(n, clear)
  PROVE  Sane'
<1>1. Lists /\ list \in Seq(EntryRec) /\ \A k \in 1 .. Len(list) : list[k].idx = k
  BY DEF Sane, Lists
<1>2. /\ Len(list) \in Nat /\ DOMAIN list = 1 .. Len(list)
      /\ \A k \in 1 .. Len(list) : list[k].page = 0 /\ list[k].size \in Nat \ {0}
  BY <1>1, EntryTypes
<1>3. PICK j : j = Min(Fits(n))
  OBVIOUS
<1>4. j \in Fits(n)
  <2>1. Fits(n) \in SUBSET Nat /\ Fits(n) # {}
    BY <1>2 DEF Fits, AllocReuse
  <2> QED BY <2>1, <1>3, MinNat
<1>5. j \in 1 .. Len(list) /\ list[j].status = "Free" /\ Pages(RunStart(j), j) >= n
  BY <1>2, <1>4 DEF Fits
<1>6. PICK i : i = RunStart(j)
  OBVIOUS
<1>7. i \in 1 .. j + 1 /\ (\A k \in i .. j : list[k].status = "Free") /\ i <= j
  BY <1>1, <1>5, <1>6, RunStartFacts
<1>8. /\ list' = SetStatus(list, i .. j, "Used") /\ Back(n, Base(i), Slot(list[i]), j - i + 1, clear)
      /\ UNCHANGED <<hdr, dma_metadata_pages, fault>>
  BY <1>3, <1>6 DEF AllocReuse
<1>9. PICK t : t = SetStatus(list, i .. j, "Used")
  OBVIOUS
<1>10. /\ t \in Seq(EntryRec) /\ Len(t) = Len(list)
       /\ \A k \in 1 .. Len(list) : t[k].idx = list[k].idx /\ t[k].size = list[k].size
            /\ t[k].status = IF k \in i .. j THEN "Used" ELSE list[k].status
  <2>1. PICK st : st = "Used"
    OBVIOUS
  <2>2. st \in {"Free", "Used"} /\ t = SetStatus(list, i .. j, st)
    BY <1>9, <2>1
  <2>3. Restated(list, t, i .. j, st)
    BY <1>1, <2>2, SetStatusFacts, Zenon
  <2> QED BY <2>1, <2>3 DEF Restated
<1>11. list' = t
  BY <1>8, <1>9
<1>12. Lists'
  <2>1. Limit' = Limit /\ hdr' = hdr /\ dma_metadata_pages' = dma_metadata_pages /\ Len(list') = Len(list) /\ list # <<>>
    BY <1>2, <1>5, <1>8, <1>10, <1>11 DEF Limit
  <2>2. \A k \in 1 .. Len(list') : list'[k].idx = k
    BY <1>1, <1>10, <1>11
  <2>3. list' \in Seq(EntryRec)
    BY <1>10, <1>11
  <2>4. Lists
    BY <1>1
  <2> QED BY <2>1, <2>2, <2>3, <2>4 DEF Lists
<1>13. i \in Nat /\ j \in Nat /\ i \in 1 .. Len(list)
  BY <1>2, <1>5, <1>7
<1>14. Claims(i, j)
  BY <1>2, <1>5, <1>7, <1>10, <1>11, <1>13 DEF Claims
<1>15. \A k \in 0 .. Len(list) : Cursor(list)[k] = Cursor(t)[k] /\ Cursor(list)[k] \in Nat
  <2>1. PICK s : s = list
    OBVIOUS
  <2>2. /\ Len(s) \in Nat /\ Len(t) \in Nat /\ Len(s) <= Len(s) /\ Len(s) <= Len(t)
        /\ (\A k \in 1 .. Len(s) : s[k].size \in Nat) /\ (\A k \in 1 .. Len(t) : t[k].size \in Nat)
        /\ \A k \in 1 .. Len(s) : s[k].size = t[k].size
    BY <1>2, <1>10, <2>1
  <2>3. \A k \in 0 .. Len(s) : Cursor(s)[k] = Cursor(t)[k]
    BY <2>2, CursorSame, ZenonT(40)
  <2>4. \A k \in 0 .. Len(s) : Cursor(s)[k] \in Nat
    BY <1>2, <2>1, CursorGrows
  <2> QED BY <2>1, <2>3, <2>4
<1>16. PICK base : base = Base(i)
  OBVIOUS
<1>17. base \in Nat /\ Cursor(list')[i - 1] = base /\ Cursor(list')[j] >= base + n
  <2>1. i - 1 \in 0 .. Len(list) /\ j \in 0 .. Len(list)
    BY <1>2, <1>5, <1>13
  <2>2. Cursor(list)[j] - Cursor(list)[i - 1] >= n /\ base = Cursor(list)[i - 1]
    BY <1>5, <1>6, <1>16 DEF Pages, Base
  <2> QED BY <1>11, <1>15, <2>1, <2>2
<1>18. Slot(list[i]) = <<0, i>>
  BY <1>1, <1>2, <1>13 DEF Slot
<1>19. PICK e : e = j - i + 1
  OBVIOUS
<1>20. e \in Nat /\ Back(n, base, <<0, i>>, e, clear) /\ fault' = fault
  <2>1. e \in Nat
    BY <1>7, <1>13, <1>19
  <2> QED BY <2>1, <1>8, <1>16, <1>18, <1>19, Zenon
<1> QED BY <1>12, <1>13, <1>14, <1>17, <1>19, <1>20, ClaimSound, Zenon

(* A new entry at the end takes what the free run before it lacks. *)
LEMMA ExtendSound ==
  ASSUME Fixed, machine' = machine, Sane, NEW n \in Nat \ {0}, NEW clear, clear = TRUE,
         OnePage, AllocExtend(n, clear)
  PROVE  Sane'
<1> DEFINE L == Len(list)
           claimed(i) == SetStatus(list, i .. L, "Used")
<1>1. /\ Lists /\ list \in Seq(EntryRec) /\ \A k \in 1 .. L : list[k].idx = k
      /\ dma_metadata_pages = 0 /\ hdr # <<>> /\ Fits(n) = {} /\ Roomy # {} /\ L < MaxEntries
  BY DEF Sane, Lists, AllocExtend
<1>2. /\ L \in Nat /\ DOMAIN list = 1 .. L
      /\ \A k \in 1 .. L : list[k].page = 0 /\ list[k].size \in Nat \ {0} /\ list[k].status \in {"Free", "Used"}
  BY <1>1, EntryTypes
<1>3. PICK c \in Nat : hdr = <<c>> /\ c >= Limit - L /\ L >= 1
  BY <1>1 DEF Lists
<1>4. L < Limit /\ Limit \in Nat /\ Limit' = Limit
  BY <1>1, <1>2, DmaPoolAssumption DEF OnePage, Fixed, Limit
<1>5. Roomy \in SUBSET {1} /\ Min(Roomy) = 1
  <2>1. Roomy \in SUBSET {1} /\ Roomy \in SUBSET Nat
    BY <1>3 DEF Roomy
  <2> QED BY <1>1, <2>1, MinNat
<1>6. Last(list) = list[L] /\ Last(list).idx = L /\ Last(list).page = 0
  BY <1>1, <1>2, <1>3 DEF Last
<1>7. /\ Extend(n, clear, list, 0, L + 1)
      /\ hdr' = [hdr EXCEPT ![1] = @ - 1]
      /\ fault' = fault /\ dma_metadata_pages' = dma_metadata_pages
  <2>1. Last(list).idx < Limit /\ ~(Last(list).idx = Limit)
    <3>1. L \in Nat
      BY <1>2
    <3> QED BY <1>4, <1>6, <3>1
  <2> QED BY <1>1, <1>5, <1>6, <2>1, Zenon DEF AllocExtend
<1>8. hdr' = <<c - 1>> /\ c - 1 \in Nat /\ c - 1 >= Limit - (L + 1)
  BY <1>2, <1>3, <1>4, <1>7
<1>9. PICK i : i = RunStart(L)
  OBVIOUS
<1>10. i \in 1 .. L + 1 /\ (\A k \in i .. L : list[k].status = "Free") /\ (list[L].status = "Free" => i <= L)
  <2>1. L \in 1 .. Len(list)
    BY <1>2, <1>3
  <2> QED BY <1>1, <1>9, <2>1, RunStartFacts
<1>11. i \in Nat /\ L + 1 \in Nat /\ i - 1 \in 0 .. L
  BY <1>2, <1>10
<1>12. PICK C : C = Cursor(list)
  OBVIOUS
<1>13. (\A k \in 0 .. L : C[k] \in Nat) /\ (\A j, k \in 0 .. L : j <= k => C[j] <= C[k])
  BY <1>2, <1>12, CursorGrows
<1>14. PICK p : p = Pages(i, L)
  OBVIOUS
<1>15. p = C[L] - C[i - 1] /\ p \in Nat /\ L \in 0 .. L
  <2>1. p = C[L] - C[i - 1]
    BY <1>12, <1>14 DEF Pages
  <2>2. L \in 0 .. L
    BY <1>2
  <2>3. C[i - 1] <= C[L] /\ C[i - 1] \in Nat /\ C[L] \in Nat
    BY <1>11, <1>13, <2>2
  <2> QED BY <2>1, <2>2, <2>3
<1>16. p < n
  <2>1. CASE list[L].status = "Free"
    <3>1. ~(p >= n)
      BY <1>1, <1>2, <1>3, <1>9, <1>14, <2>1 DEF Fits
    <3> QED BY <1>15, <3>1
  <2>2. CASE list[L].status # "Free"
    <3>1. i = L + 1
      BY <1>2, <1>3, <1>10, <2>2
    <3>2. i - 1 = L
      BY <1>2, <3>1
    <3>3. p = 0
      BY <1>13, <1>15, <3>2
    <3> QED BY <3>3
  <2> QED BY <2>1, <2>2
<1>17. PICK x : x = Entry(0, L + 1, n - p)
  OBVIOUS
<1>18. x \in EntryRec /\ x.idx = L + 1 /\ x.status = "Used" /\ x.size = n - p
  BY <1>11, <1>15, <1>16, <1>17 DEF Entry, EntryRec
<1>19. PICK s : s = claimed(i)
  OBVIOUS
<1>20. PICK st : st = "Used"
  OBVIOUS
<1>21. Restated(list, s, i .. L, st)
  <2>1. st \in {"Free", "Used"} /\ s = SetStatus(list, i .. L, st)
    BY <1>19, <1>20
  <2> HIDE DEF L
  <2> QED BY <1>1, <2>1, SetStatusFacts, Zenon
<1>22. /\ s \in Seq(EntryRec) /\ Len(s) = L
       /\ \A k \in 1 .. L : s[k].idx = list[k].idx /\ s[k].size = list[k].size
             /\ s[k].status = IF k \in i .. L THEN "Used" ELSE list[k].status
  BY <1>20, <1>21 DEF Restated
<1>23. /\ list' = Append(s, x)
       /\ Back(n, Base(i), IF i <= L THEN Slot(list[i]) ELSE <<0, L + 1>>, Cardinality(i .. L) + 1, clear)
  BY <1>7, <1>9, <1>14, <1>17, <1>19, Zenon DEF Extend
<1>24. /\ list' \in Seq(EntryRec) /\ Len(list') = L + 1
       /\ (\A k \in 1 .. L : list'[k] = s[k]) /\ list'[L + 1] = x
  BY <1>18, <1>22, <1>23
<1>25. Lists'
  <2>1. \A k \in 1 .. Len(list') : list'[k].idx = k
    BY <1>1, <1>2, <1>18, <1>22, <1>24
  <2>2. \E d \in Nat : hdr' = <<d>> /\ d >= Limit' - Len(list') /\ Len(list') >= 1
    BY <1>2, <1>4, <1>8, <1>24
  <2>3. Len(list') <= Limit'
    BY <1>2, <1>4, <1>24
  <2> QED BY <1>1, <1>7, <1>24, <2>1, <2>2, <2>3 DEF Lists
<1>26. Claims(i, L + 1)
  <2>1. Len(list) <= Len(list') /\ 1 <= i /\ i <= L + 1 /\ L + 1 <= Len(list')
    BY <1>2, <1>10, <1>24
  <2>2. /\ \A k \in 1 .. Len(list) : list'[k].size = list[k].size
        /\ \A k \in 1 .. Len(list) : list[k].status = "Used" => list'[k].status = "Used"
    BY <1>22, <1>24
  <2>3. \A k \in i .. L + 1 : list'[k].status = "Used" /\ (k <= Len(list) => list[k].status = "Free")
    BY <1>2, <1>10, <1>18, <1>22, <1>24
  <2> QED BY <2>1, <2>2, <2>3 DEF Claims
<1>27. Cursor(list')[i - 1] = C[i - 1] /\ Cursor(list')[L + 1] = C[i - 1] + n
  <2>1. PICK u, t : u = list /\ t = list'
    OBVIOUS
  <2>2. /\ Len(u) = L /\ Len(t) = L + 1 /\ (\A k \in 1 .. Len(u) : u[k].size \in Nat)
        /\ \A k \in 1 .. L : u[k].size = t[k].size
    BY <1>2, <1>22, <1>24, <2>1
  <2>3. \A k \in 1 .. Len(t) : t[k].size \in Nat
    BY <1>24, <2>1, EntryTypes
  <2>4. Len(u) \in Nat /\ Len(t) \in Nat /\ L <= Len(u) /\ L <= Len(t) /\ L \in Nat
    BY <1>2, <2>2
  <2>5. \A k \in 0 .. L : Cursor(u)[k] = Cursor(t)[k]
    <3>1. /\ Len(u) \in Nat /\ Len(t) \in Nat /\ Len(u) <= Len(u) /\ Len(u) <= Len(t)
          /\ (\A k \in 1 .. Len(u) : u[k].size \in Nat) /\ (\A k \in 1 .. Len(t) : t[k].size \in Nat)
          /\ \A k \in 1 .. Len(u) : u[k].size = t[k].size
      BY <2>2, <2>3, <2>4
    <3>2. \A k \in 0 .. Len(u) : Cursor(u)[k] = Cursor(t)[k]
      BY <3>1, CursorSame, ZenonT(40)
    <3> QED BY <2>2, <3>2
  <2>6. \A k \in 1 .. Len(t) : Cursor(t)[k] = Cursor(t)[k - 1] + t[k].size
    BY <2>3, <2>4, CursorSteps
  <2>7. Cursor(t)[L + 1] = Cursor(t)[L] + t[L + 1].size
    <3>1. L + 1 \in 1 .. Len(t) /\ (L + 1) - 1 = L
      BY <2>2, <2>4
    <3> QED BY <2>6, <3>1
  <2>8. Cursor(t)[L] = C[L] /\ Cursor(t)[i - 1] = C[i - 1]
    BY <1>11, <1>12, <1>15, <2>1, <2>5
  <2>9. Cursor(t)[L + 1] = C[L] + (n - p)
    BY <1>18, <1>24, <2>1, <2>7, <2>8
  <2>10. C[L] \in Nat /\ C[i - 1] \in Nat
    BY <1>11, <1>13, <1>15
  <2> QED BY <1>15, <2>1, <2>8, <2>9, <2>10
<1>28. (IF i <= L THEN Slot(list[i]) ELSE <<0, L + 1>>) = <<0, i>>
  BY <1>1, <1>2, <1>10 DEF Slot
<1>29. PICK base, e, j : base = Base(i) /\ e = Cardinality(i .. L) + 1 /\ j = L + 1
  OBVIOUS
<1>30. e = j - i + 1 /\ e \in Nat /\ j \in Nat
  <2>1. Cardinality(i .. L) = IF i > L THEN 0 ELSE L - i + 1
    <3>1. i \in Int /\ L \in Int
      BY <1>2, <1>11
    <3> QED BY <3>1, FS_Interval, Zenon
  <2> QED BY <1>2, <1>10, <1>29, <2>1
<1>31. base = C[i - 1] /\ base \in Nat
  BY <1>11, <1>12, <1>13, <1>29 DEF Base
<1>32. Back(n, base, <<0, i>>, e, clear) /\ Claims(i, j) /\ fault' = fault
  BY <1>7, <1>23, <1>26, <1>28, <1>29, Zenon
<1>33. Cursor(list')[i - 1] = base /\ Cursor(list')[j] >= base + n
  BY <1>27, <1>29, <1>31
<1> QED BY <1>11, <1>25, <1>30, <1>31, <1>32, <1>33, ClaimSound, Zenon

(* With one page there is always a slot for the entries the list may have. *)
LEMMA NeverGrows ==
  ASSUME Fixed, Sane, OnePage, NEW n, NEW clear, AllocGrow(n, clear) PROVE FALSE
<1>1. /\ Lists /\ hdr # <<>> /\ Roomy = {} /\ Len(list) < MaxEntries /\ Len(list) \in Nat
  <2>1. Lists /\ list \in Seq(EntryRec)
    BY DEF Sane, Lists
  <2> QED BY <2>1, EntryTypes DEF AllocGrow
<1>2. PICK c \in Nat : hdr = <<c>> /\ c >= Limit - Len(list)
  BY <1>1 DEF Lists
<1>3. c > 0
  BY <1>1, <1>2, DmaPoolAssumption DEF OnePage, Fixed
<1>4. 1 \in Roomy
  BY <1>2, <1>3 DEF Roomy
<1> QED BY <1>1, <1>4

(* allocate_dma keeps the invariant. *)
LEMMA AllocSound ==
  ASSUME Fixed, machine' = machine, Sane, OnePage, NEW size \in Sizes, NEW clear, clear = TRUE,
         allocate_dma(size, clear)
  PROVE  Sane'
<1>1. PICK n : n = PagesFor(size)
  OBVIOUS
<1>2. n \in Nat \ {0}
  BY <1>1, PagesForPositive DEF Fixed
<1>3. AllocFirst(n, clear) \/ AllocReuse(n, clear) \/ AllocExtend(n, clear) \/ AllocGrow(n, clear)
  BY <1>1, Zenon DEF allocate_dma
<1>4. CASE AllocFirst(n, clear)
  BY <1>2, <1>4, FirstSound, Zenon
<1>5. CASE AllocReuse(n, clear)
  BY <1>2, <1>5, ReuseSound, Zenon
<1>6. CASE AllocExtend(n, clear)
  BY <1>2, <1>6, ExtendSound, Zenon
<1>7. CASE AllocGrow(n, clear)
  BY <1>7, NeverGrows, Zenon
<1> QED BY <1>3, <1>4, <1>5, <1>6, <1>7

-----------------------------------------------------------------------------
(* the last entry of a region *)
Final(a) == Begin(a) + D(a).entries - 1

(* The cursor over the list of the pool does not go back. *)
LEMMA ListIncreasing ==
  ASSUME Sane PROVE Increasing(Len(list), Cursor(list))
<1>1. list \in Seq(EntryRec)
  BY DEF Sane, Lists
<1>2. Len(list) \in Nat /\ \A k \in 1 .. Len(list) : list[k].size \in Nat \ {0}
  BY <1>1, EntryTypes
<1> QED BY <1>2, CursorGrows DEF Increasing

(* What is known of a region that is held. *)
LEMMA RegionFacts ==
  ASSUME Sane, NEW a \in live
  PROVE  /\ Described(a) /\ Claimed(a) /\ Backed(a)
         /\ a.base \in Nat /\ a.pages \in Nat \ {0} /\ a.phys \in Nat
         /\ LastOf(a) \in Phys(a) /\ Phys(a) \subseteq Frames /\ D(a) \in DescRec
         /\ D(a).home = <<0, Begin(a)>> /\ D(a).entries \in Nat /\ Final(a) - Begin(a) + 1 = D(a).entries
         /\ Entries(a) = Begin(a) .. Final(a)
         /\ Stretch(Len(list), Cursor(list), Begin(a), Final(a), a.base, a.pages)
<1>1. a \in Region /\ Described(a) /\ Claimed(a) /\ Backed(a) /\ MemoryType
  BY DEF Sane, Regions, MemoryType
<1>2. a.base \in Nat /\ a.pages \in Nat \ {0} /\ a.phys \in Nat
  BY <1>1 DEF Region
<1>3. LastOf(a) \in Phys(a) /\ Phys(a) \subseteq Frames
  BY <1>1, <1>2 DEF Backed, Phys, LastOf, MemoryType
<1>4. D(a) \in DescRec
  BY <1>1, <1>3 DEF D, MemoryType
<1>5. Begin(a) \in Nat /\ D(a).entries \in Nat /\ D(a).home = <<0, Begin(a)>>
  <2>1. D(a).home[1] = 0
    BY <1>1 DEF Described
  <2> QED BY <1>4, <2>1 DEF DescRec, Begin
<1>6. PICK b, e, m : b = Begin(a) /\ e = D(a).entries /\ m = Final(a)
  OBVIOUS
<1>7. m = b + e - 1 /\ b >= 1 /\ e >= 1 /\ m <= Len(list) /\ b \in Nat /\ e \in Nat
  BY <1>1, <1>5, <1>6 DEF Described, Final
<1>8. Stretch(Len(list), Cursor(list), b, m, a.base, a.pages)
  <2>1. Cursor(list)[b - 1] = a.base /\ Cursor(list)[m] >= a.base + a.pages
    BY <1>1, <1>6 DEF Claimed, Final
  <2> QED BY <1>2, <1>7, <2>1 DEF Stretch
<1>9. m - b + 1 = e
  BY <1>7
<1>10. Entries(a) = Begin(a) .. Final(a)
  BY DEF Entries, Final
<1> QED BY <1>1, <1>2, <1>3, <1>4, <1>5, <1>6, <1>8, <1>9, <1>10

(* Regions that share no entry share no page. *)
LEMMA VirtualApart ==
  ASSUME Sane, NEW a \in live, NEW b \in live, a # b PROVE Virt(a) \cap Virt(b) = {}
<1>1. Entries(a) \cap Entries(b) = {}
  BY DEF Sane, Regions, Separate
<1>2. /\ a.base \in Nat /\ a.pages \in Nat \ {0} /\ Entries(a) = Begin(a) .. Final(a)
      /\ Stretch(Len(list), Cursor(list), Begin(a), Final(a), a.base, a.pages)
  BY RegionFacts, Zenon
<1>3. /\ b.base \in Nat /\ b.pages \in Nat \ {0} /\ Entries(b) = Begin(b) .. Final(b)
      /\ Stretch(Len(list), Cursor(list), Begin(b), Final(b), b.base, b.pages)
  BY RegionFacts, Zenon
<1>4. Final(a) < Begin(b) \/ Final(b) < Begin(a)
  <2>1. PICK i1, j1, i2, j2 : i1 = Begin(a) /\ j1 = Final(a) /\ i2 = Begin(b) /\ j2 = Final(b)
    OBVIOUS
  <2>2. /\ i1 \in Nat /\ j1 \in Nat /\ i1 <= j1 /\ i2 \in Nat /\ j2 \in Nat /\ i2 <= j2
    BY <1>2, <1>3, <2>1 DEF Stretch
  <2>3. (i1 .. j1) \cap (i2 .. j2) = {}
    BY <1>1, <1>2, <1>3, <2>1
  <2>4. ~(i1 \in i2 .. j2) /\ ~(i2 \in i1 .. j1)
    <3>1. i1 \in i1 .. j1 /\ i2 \in i2 .. j2
      BY <2>2
    <3> QED BY <2>3, <3>1
  <2> QED BY <2>1, <2>2, <2>4
<1>5. a.base + a.pages <= b.base \/ b.base + b.pages <= a.base
  BY <1>2, <1>3, <1>4, ListIncreasing, StretchesApart, Zenon
<1> QED BY <1>2, <1>3, <1>5, SMTT(30) DEF Virt

(* free_dma finds the descriptor of the region itself. *)
LEMMA FindsOwn ==
  ASSUME Sane, NEW a \in live
  PROVE  /\ Signed(a.base) # {} /\ find_descriptorBase(a.base) = D(a) /\ vmap[a.base] = a.phys
<1>1. /\ Described(a) /\ Backed(a) /\ a.base \in Nat /\ a.pages \in Nat \ {0} /\ a.phys \in Nat
      /\ LastOf(a) \in Phys(a) /\ D(a) \in DescRec /\ MemoryType
  BY RegionFacts, Zenon DEF Sane
<1>2. PICK v0 : v0 = a.base + a.pages - 1
  OBVIOUS
<1>3. \A v \in a.base .. v0 : v \in DOMAIN vmap /\ vmap[v] = a.phys + (v - a.base)
  BY <1>1, <1>2 DEF Backed, Virt
<1>4. v0 \in a.base .. v0 /\ a.base \in a.base .. v0 /\ vmap[v0] = LastOf(a) /\ vmap[a.base] = a.phys
  <2>1. v0 \in a.base .. v0 /\ a.base \in a.base .. v0
    BY <1>1, <1>2
  <2>2. a.phys + (v0 - a.base) = a.phys + a.pages - 1 /\ a.phys + (a.base - a.base) = a.phys
    BY <1>1, <1>2
  <2> QED BY <1>3, <2>1, <2>2 DEF LastOf
<1>5. D(a) # NoDesc
  <2>1. D(a).entries >= 1
    BY <1>1 DEF Described
  <2> QED BY <2>1 DEF NoDesc
<1>6. v0 \in Signed(a.base)
  BY <1>1, <1>2, <1>3, <1>4, <1>5 DEF Signed, D
<1>7. ASSUME NEW v \in Signed(a.base) PROVE v >= v0 /\ v \in Nat
  <2>1. v \in Nat /\ v >= a.base /\ desc[vmap[v]] # NoDesc
    BY <1>1 DEF Signed, MemoryType
  <2>2. ASSUME v < v0 PROVE FALSE
    <3>1. v \in a.base .. v0
      BY <1>1, <1>2, <2>1, <2>2
    <3>2. vmap[v] = a.phys + (v - a.base)
      BY <1>3, <3>1
    <3>3. a.phys + (v - a.base) \in a.phys .. a.phys + a.pages - 2
      BY <1>1, <1>2, <2>1, <2>2
    <3>4. desc[vmap[v]] = NoDesc
      BY <1>1, <3>2, <3>3 DEF Described
    <3> QED BY <2>1, <3>4
  <2> QED BY <1>1, <1>2, <2>1, <2>2
<1>8. Min(Signed(a.base)) = v0
  <2>1. Signed(a.base) \in SUBSET Nat /\ Signed(a.base) # {}
    BY <1>6, <1>7
  <2>2. Min(Signed(a.base)) \in Signed(a.base) /\ Min(Signed(a.base)) <= v0
    BY <1>6, <2>1, MinNat
  <2>3. Min(Signed(a.base)) >= v0 /\ Min(Signed(a.base)) \in Nat
    BY <1>7, <2>2
  <2> QED BY <1>1, <1>2, <2>2, <2>3
<1> QED BY <1>4, <1>6, <1>8 DEF find_descriptorBase, D

(* The chain of that descriptor are the entries of the region. *)
LEMMA ChainIsEntries ==
  ASSUME Sane, NEW a \in live
  PROVE  Chain(D(a)) = Entries(a) /\ IsFiniteSet(Entries(a)) /\ Cardinality(Entries(a)) = D(a).entries
<1>1. /\ D(a).home = <<0, Begin(a)>> /\ D(a).entries \in Nat /\ Entries(a) = Begin(a) .. Final(a)
      /\ Stretch(Len(list), Cursor(list), Begin(a), Final(a), a.base, a.pages)
      /\ Final(a) - Begin(a) + 1 = D(a).entries
  BY RegionFacts, Zenon
<1>2. PICK b, m, e : b = Begin(a) /\ m = Final(a) /\ e = D(a).entries
  OBVIOUS
<1>3. b \in Nat /\ m \in Nat /\ 1 <= b /\ b <= m /\ m <= Len(list) /\ m = b + e - 1 /\ e \in Nat
  BY <1>1, <1>2, SMTT(30) DEF Stretch
<1>4. /\ Len(list) \in Nat /\ DOMAIN list = 1 .. Len(list)
      /\ \A h \in 1 .. Len(list) : list[h].page = 0 /\ list[h].idx = h
  <2>1. list \in Seq(EntryRec) /\ \A h \in 1 .. Len(list) : list[h].idx = h
    BY DEF Sane, Lists
  <2> QED BY <2>1, EntryTypes
<1>5. \A h \in DOMAIN list : Slot(list[h]) = D(a).home <=> h = b
  BY <1>1, <1>2, <1>4 DEF Slot
<1>6. Chain(D(a)) = {i \in DOMAIN list : i \in b .. b + e - 1}
  <2>1. b \in DOMAIN list
    BY <1>3, <1>4
  <2> QED BY <1>2, <1>5, <2>1 DEF Chain
<1>7. Chain(D(a)) = b .. m
  BY <1>3, <1>4, <1>6
<1>8. IsFiniteSet(b .. m) /\ Cardinality(b .. m) = e
  <2>1. b \in Int /\ m \in Int /\ ~(b > m) /\ m - b + 1 = e
    BY <1>3
  <2>2. IsFiniteSet(b .. m) /\ Cardinality(b .. m) = IF b > m THEN 0 ELSE m - b + 1
    BY <2>1, FS_Interval, Zenon
  <2> QED BY <2>1, <2>2
<1> QED BY <1>1, <1>2, <1>7, <1>8

(* The entries of a region become free, and the one page of metadata stays. *)
LEMMA GivesBack ==
  ASSUME Fixed, machine' = machine, Sane, NEW a \in live, GiveBack(D(a))
  PROVE  Lists' /\ Restated(list, list', Entries(a), "Free")
<1>1. Chain(D(a)) = Entries(a) /\ IsFiniteSet(Entries(a))
  BY ChainIsEntries, Zenon
<1>2. Lists /\ list \in Seq(EntryRec) /\ dma_metadata_pages = 0 /\ \A k \in 1 .. Len(list) : list[k].idx = k
  BY DEF Sane, Lists
<1>3. Len(list) \in Nat /\ Len(list) >= 1
  <2>1. Stretch(Len(list), Cursor(list), Begin(a), Final(a), a.base, a.pages)
    BY RegionFacts, Zenon
  <2>2. Len(list) \in Nat
    BY <1>2
  <2> QED BY <2>1, <2>2 DEF Stretch
<1>4. PICK c \in Nat : hdr = <<c>> /\ c >= Limit - Len(list)
  <2>1. list # <<>>
    BY <1>3
  <2> QED BY <1>2, <2>1 DEF Lists
<1>5. PICK f, t :
        /\ f = [k \in DOMAIN hdr |-> hdr[k] + Cardinality({i \in Chain(D(a)) : list[i].page = k - 1})]
        /\ t = SetStatus(list, Chain(D(a)), "Free")
  OBVIOUS
<1>6. /\ dma_metadata_pages' = dma_metadata_pages - Cardinality(Empty(f))
      /\ \/ Empty(f) = {} /\ list' = t /\ hdr' = f
         \/ \E k \in Empty(f) : k = Min(Empty(f)) /\ list' = SubSeq(t, 1, FirstOf(k - 1) - 1) /\ hdr' = SubSeq(f, 1, k - 1)
  BY <1>5, Zenon DEF GiveBack
<1>7. PICK m : m = Cardinality({i \in Chain(D(a)) : list[i].page = 0})
  OBVIOUS
<1>8. m \in Nat
  <2>1. IsFiniteSet({i \in Chain(D(a)) : list[i].page = 0})
    BY <1>1, FS_Subset
  <2> QED BY <1>7, <2>1, FS_CardinalityType
<1>9. f = <<c + m>>
  <2>1. DOMAIN hdr = {1} /\ hdr[1] = c
    BY <1>4
  <2>2. DOMAIN f = {1}
    BY <1>5, <2>1
  <2>3. f[1] = c + m
    <3>1. 1 - 1 = 0
      BY SMT
    <3> QED BY <1>5, <1>7, <2>1, <3>1
  <2>4. f = [k \in {1} |-> f[k]]
    BY <1>5, <2>1
  <2> QED BY <2>2, <2>3, <2>4
<1>10. Empty(f) = {}
  <2>1. Len(f) = 1
    BY <1>9
  <2> QED BY <2>1 DEF Empty
<1>11. list' = t /\ hdr' = <<c + m>> /\ dma_metadata_pages' = 0
  <2>1. Cardinality(Empty(f)) = 0
    BY <1>10, FS_EmptySet
  <2>2. list' = t /\ hdr' = f
    BY <1>6, <1>10
  <2> QED BY <1>2, <1>6, <1>9, <2>1, <2>2
<1>12. PICK st : st = "Free"
  OBVIOUS
<1>13. Restated(list, t, Entries(a), st)
  <2>1. st \in {"Free", "Used"} /\ t = SetStatus(list, Entries(a), st)
    BY <1>1, <1>5, <1>12
  <2> QED BY <1>2, <2>1, SetStatusFacts, Zenon
<1>14. t \in Seq(EntryRec) /\ Len(t) = Len(list) /\ \A k \in 1 .. Len(list) : t[k].idx = k
  BY <1>2, <1>13 DEF Restated
<1>15. Limit' = Limit /\ Limit \in Nat
  BY DEF Limit, Fixed
<1>16. Lists'
  <2>1. \E d \in Nat : hdr' = <<d>> /\ d >= Limit' - Len(list') /\ Len(list') >= 1
    <3>1. c + m \in Nat /\ c + m >= Limit' - Len(list') /\ Len(list') >= 1
      BY <1>3, <1>4, <1>8, <1>11, <1>14, <1>15
    <3> QED BY <1>11, <3>1
  <2>2. Len(list') <= Limit'
    BY <1>2, <1>11, <1>14, <1>15 DEF Lists
  <2> QED BY <1>11, <1>14, <2>1, <2>2 DEF Lists
<1> QED BY <1>11, <1>12, <1>13, <1>16, Zenon

(* free_dma gives up one region, with all its frames, and keeps the others. *)
LEMMA FreeSound ==
  ASSUME Fixed, machine' = machine, Sane, NEW a \in live, free_dma(a)
  PROVE  Sane' /\ live' = live \ {a} /\ Phys(a) \cap used' = {}
<1>1. /\ find_descriptorBase(a.base) = D(a) /\ Signed(a.base) # {} /\ vmap[a.base] = a.phys
  BY FindsOwn, Zenon
<1>2. Chain(D(a)) = Entries(a) /\ Cardinality(Entries(a)) = D(a).entries
  BY ChainIsEntries, Zenon
<1>3. /\ a.base \in Nat /\ a.pages \in Nat \ {0} /\ a.phys \in Nat /\ D(a).pages = a.pages
  BY RegionFacts, Zenon DEF Described
<1>4. Len(hdr) = dma_metadata_pages + 1
  <2>1. Lists /\ Stretch(Len(list), Cursor(list), Begin(a), Final(a), a.base, a.pages)
    BY RegionFacts, Zenon DEF Sane
  <2>2. Len(list) >= 1 /\ list # <<>>
    <3>1. list \in Seq(EntryRec)
      BY <2>1 DEF Lists
    <3>2. Len(list) \in Nat /\ Len(list) >= 1
      BY <2>1, <3>1 DEF Stretch
    <3> QED BY <3>2
  <2>3. PICK c \in Nat : hdr = <<c>>
    BY <2>1, <2>2 DEF Lists
  <2> QED BY <2>1, <2>3 DEF Lists
<1>5. ~Stray(a.base)
  BY <1>1, <1>2, <1>4 DEF Stray, Dangling
<1>6. live' = live \ {a} /\ Release(a.base, D(a)) /\ fault = FALSE
  BY <1>1, <1>5, Zenon DEF free_dma, Sane
<1>7. /\ used' = used \ Phys(a)
      /\ former_count' = (IF a.phys < former_count THEN a.phys ELSE former_count)
      /\ vmap' = [v \in DOMAIN vmap \ Virt(a) |-> vmap[v]]
      /\ GiveBack(D(a)) /\ desc' = desc /\ fault' = FALSE
  <2>1. /\ used' = used \ (a.phys .. a.phys + a.pages - 1)
        /\ vmap' = [v \in DOMAIN vmap \ (a.base .. a.base + a.pages - 1) |-> vmap[v]]
        /\ former_count' = (IF a.phys < former_count THEN a.phys ELSE former_count)
        /\ GiveBack(D(a)) /\ desc' = desc /\ fault' = fault
    BY <1>1, <1>3, <1>6 DEF Release
  <2> QED BY <1>6, <2>1 DEF Phys, Virt
<1>8. Lists' /\ Restated(list, list', Entries(a), "Free")
  BY <1>7, GivesBack, Zenon
<1>9. /\ list \in Seq(EntryRec) /\ list' \in Seq(EntryRec) /\ Len(list') = Len(list)
      /\ \A k \in 1 .. Len(list) : list'[k].size = list[k].size /\ (k \notin Entries(a) => list'[k].status = list[k].status)
  BY <1>8 DEF Restated, Sane, Lists
<1>10. \A k \in 0 .. Len(list) : Cursor(list')[k] = Cursor(list)[k]
  <2>1. PICK s, t : s = list' /\ t = list
    OBVIOUS
  <2>2. /\ Len(s) \in Nat /\ Len(t) \in Nat /\ Len(t) <= Len(s) /\ Len(t) <= Len(t)
        /\ (\A k \in 1 .. Len(s) : s[k].size \in Nat) /\ (\A k \in 1 .. Len(t) : t[k].size \in Nat)
        /\ \A k \in 1 .. Len(t) : s[k].size = t[k].size
    BY <1>9, <2>1, EntryTypes
  <2>3. \A k \in 0 .. Len(t) : Cursor(s)[k] = Cursor(t)[k]
    BY <2>2, CursorSame, Zenon
  <2> QED BY <2>1, <2>3
<1>11. MemoryType'
  <2>1. Frames' = Frames /\ MemoryType
    BY DEF Frames, NFrames, Sane
  <2>2. former_count' \in Nat
    BY <1>3, <1>7, <2>1 DEF MemoryType
  <2> QED BY <1>6, <1>7, <2>1, <2>2 DEF MemoryType
<1>12. ASSUME NEW b \in live'
       PROVE  /\ Described(b)' /\ Claimed(b)' /\ Backed(b)'
              /\ Entries(b)' = Entries(b) /\ Phys(b)' = Phys(b) /\ b \in live
  <2>1. b \in live /\ b # a
    BY <1>6
  <2>2. /\ Described(b) /\ Claimed(b) /\ Backed(b) /\ Entries(b) = Begin(b) .. Final(b)
        /\ Stretch(Len(list), Cursor(list), Begin(b), Final(b), b.base, b.pages)
    BY <2>1, RegionFacts, Zenon
  <2>3. Separate(a, b)
    BY <2>1 DEF Sane, Regions
  <2>4. Virt(a) \cap Virt(b) = {}
    BY <2>1, VirtualApart, Zenon
  <2>5. D(b)' = D(b) /\ Begin(b)' = Begin(b) /\ Entries(b)' = Entries(b)
    BY <1>7 DEF D, Begin, Entries, LastOf
  <2>6. Described(b)'
    <3>1. NFrames' = NFrames
      BY DEF NFrames
    <3> QED BY <1>7, <1>9, <2>2, <2>5, <3>1 DEF Described, NoDesc
  <2>7. Begin(b) - 1 \in 0 .. Len(list) /\ Final(b) \in 0 .. Len(list) /\ Entries(b) \subseteq 1 .. Len(list)
    <3>1. Len(list) \in Nat
      BY <1>9
    <3> QED BY <2>2, <3>1 DEF Stretch
  <2>8. Claimed(b)'
    <3>1. \A k \in Entries(b) : list'[k].status = "Used"
      BY <1>9, <2>2, <2>3, <2>7 DEF Claimed, Separate
    <3>2. /\ Cursor(list')[Begin(b) - 1] = b.base
          /\ Cursor(list')[Begin(b) + D(b).entries - 1] >= b.base + b.pages
      BY <1>10, <2>2, <2>7 DEF Claimed, Final
    <3> QED BY <2>5, <3>1, <3>2, Zenon DEF Claimed
  <2>9. Backed(b)'
    <3>1. Phys(b) \subseteq used'
      BY <1>7, <2>2, <2>3 DEF Backed, Separate
    <3>2. \A v \in Virt(b) : v \in DOMAIN vmap' /\ vmap'[v] = b.phys + (v - b.base)
      BY <1>7, <2>2, <2>4 DEF Backed
    <3> QED BY <3>1, <3>2 DEF Backed, Phys, Virt
  <2> QED BY <2>1, <2>5, <2>6, <2>8, <2>9 DEF Phys
<1>13. ASSUME NEW b \in live', NEW c \in live', b # c PROVE Separate(b, c)'
  <2>1. Separate(b, c)
    BY <1>12, <1>13 DEF Sane, Regions
  <2> QED BY <2>1, <1>12, Zenon DEF Separate
<1>14. Regions'
  BY <1>12, <1>13 DEF Regions
<1> QED BY <1>6, <1>7, <1>8, <1>11, <1>14 DEF Sane

-----------------------------------------------------------------------------
(* the inductive invariant *)
PoolInvariant == machine \in Machines /\ (OnePage => Sane)

(* The empty pool satisfies it. *)
LEMMA PoolStarts ==
  Init => PoolInvariant
<1> SUFFICES ASSUME Init PROVE PoolInvariant
  OBVIOUS
<1>1. Fixed
  BY MachineTypes DEF Init
<1>2. Lists
  <2>1. list = <<>> /\ hdr = <<>> /\ dma_metadata_pages = 0 /\ Len(<<>>) = 0
    BY DEF Init
  <2>2. list \in Seq(EntryRec) /\ Len(list) <= Limit
    BY <1>1, <2>1 DEF Fixed
  <2> QED BY <2>1, <2>2 DEF Lists
<1>3. MemoryType
  <2>1. NoDesc \in DescRec
    BY DEF NoDesc, DescRec
  <2> QED BY <2>1 DEF Init, MemoryType
<1>4. Regions
  BY DEF Init, Regions
<1> QED BY <1>2, <1>3, <1>4 DEF Init, Sane, PoolInvariant

(* Every step keeps it, if the callers clear what they get. *)
LEMMA PoolSteps ==
  ASSUME Clears = {TRUE}, PoolInvariant, [Next]_vars PROVE PoolInvariant'
<1>1. machine' = machine
  BY DEF Next, vars
<1>2. machine \in Machines /\ Fixed
  BY MachineTypes DEF PoolInvariant
<1>3. OnePage' = OnePage
  BY <1>1 DEF OnePage, Limit
<1> SUFFICES ASSUME OnePage PROVE Sane'
  BY <1>1, <1>2, <1>3 DEF PoolInvariant
<1>4. Sane
  BY DEF PoolInvariant
<1>5. ASSUME NEW size \in Sizes, NEW clear \in Clears, allocate_dma(size, clear) PROVE Sane'
  <2>1. clear = TRUE
    OBVIOUS
  <2> QED BY <1>1, <1>2, <1>4, <1>5, <2>1, AllocSound, Zenon
<1>6. ASSUME NEW a \in live, free_dma(a) PROVE Sane'
  BY <1>1, <1>2, <1>4, <1>6, FreeSound, ZenonT(40)
<1>7. ASSUME UNCHANGED vars PROVE Sane'
  BY <1>4, <1>7 DEF vars, Sane, Lists, Limit, MemoryType, Frames, NFrames, Regions, Described, Claimed, Backed,
     Separate, Entries, Begin, D, LastOf, Phys, Virt
<1> QED BY <1>5, <1>6, <1>7 DEF Next

(* With callers that clear what they get the invariant holds all the time. *)
THEOREM PoolInvariantHolds ==
  ASSUME Clears = {TRUE} PROVE Spec => []PoolInvariant
<1>1. Init => PoolInvariant
  BY PoolStarts
<1>2. PoolInvariant /\ [Next]_vars => PoolInvariant'
  BY PoolSteps
<1> QED BY <1>1, <1>2, PTL DEF Spec

(* Regions that drivers hold never share a virtual page. *)
THEOREM NonOverlappingHolds ==
  ASSUME Clears = {TRUE} PROVE Spec => []NonOverlapping
<1>1. PoolInvariant => NonOverlapping
  BY VirtualApart, Zenon DEF PoolInvariant, NonOverlapping, Apart
<1> QED BY <1>1, PoolInvariantHolds, PTL

(* A region stays mapped, to the frames it was given. *)
THEOREM LiveMappedHolds ==
  ASSUME Clears = {TRUE} PROVE Spec => []LiveMapped
<1>1. ASSUME PoolInvariant PROVE LiveMapped
  <2> SUFFICES ASSUME OnePage, NEW a \in live
               PROVE  /\ Phys(a) \subseteq used
                      /\ \A k \in 0 .. a.pages - 1 : a.base + k \in DOMAIN vmap /\ vmap[a.base + k] = a.phys + k
    BY DEF LiveMapped, Mapped
  <2>1. Backed(a) /\ a.base \in Nat /\ a.pages \in Nat \ {0} /\ a.phys \in Nat
    BY <1>1, RegionFacts, Zenon DEF PoolInvariant
  <2>2. ASSUME NEW k \in 0 .. a.pages - 1 PROVE a.base + k \in DOMAIN vmap /\ vmap[a.base + k] = a.phys + k
    <3>1. a.base + k \in Virt(a) /\ a.phys + ((a.base + k) - a.base) = a.phys + k
      BY <2>1 DEF Virt
    <3> QED BY <2>1, <3>1 DEF Backed
  <2> QED BY <2>1, <2>2 DEF Backed
<1> QED BY <1>1, PoolInvariantHolds, PTL

(* The descriptor free_dma will find is the region's own. *)
THEOREM DescriptorMatchesHolds ==
  ASSUME Clears = {TRUE} PROVE Spec => []DescriptorMatches
<1>1. ASSUME PoolInvariant PROVE DescriptorMatches
  <2> SUFFICES ASSUME OnePage, NEW a \in live
               PROVE  LET d == find_descriptorBase(a.base)
                      IN /\ d.pages = a.pages
                         /\ Cardinality(Chain(d)) = d.entries
                         /\ \A i \in Chain(d) : list[i].status = "Used"
                         /\ Base(Min(Chain(d))) = a.base /\ Pages(Min(Chain(d)), Max(Chain(d))) >= a.pages
    BY DEF DescriptorMatches, OwnDescriptor
  <2>1. Sane
    BY <1>1 DEF PoolInvariant
  <2>2. find_descriptorBase(a.base) = D(a)
    BY <2>1, FindsOwn, Zenon
  <2>3. Chain(D(a)) = Entries(a) /\ Cardinality(Entries(a)) = D(a).entries
    BY <2>1, ChainIsEntries, Zenon
  <2>4. /\ Described(a) /\ Claimed(a) /\ Entries(a) = Begin(a) .. Final(a)
        /\ Stretch(Len(list), Cursor(list), Begin(a), Final(a), a.base, a.pages)
    BY <2>1, RegionFacts, Zenon
  <2>5. PICK b, m : b = Begin(a) /\ m = Final(a)
    OBVIOUS
  <2>6. b \in Nat /\ m \in Nat /\ b <= m /\ Cursor(list)[b - 1] = a.base /\ Cursor(list)[m] >= a.base + a.pages
        /\ a.base \in Nat /\ a.pages \in Nat /\ 1 <= b /\ m <= Len(list)
    BY <2>4, <2>5 DEF Stretch
  <2>7. Min(b .. m) = b
    <3>1. b .. m \in SUBSET Nat /\ b \in b .. m
      BY <2>6
    <3>2. Min(b .. m) \in b .. m /\ Min(b .. m) <= b
      BY <3>1, MinNat
    <3> QED BY <2>6, <3>2
  <2>8. Max(b .. m) = m
    <3>1. \E x \in b .. m : \A y \in b .. m : x >= y
      <4>1. m \in b .. m /\ \A y \in b .. m : m >= y
        BY <2>6
      <4> QED BY <4>1
    <3>2. Max(b .. m) \in b .. m /\ \A y \in b .. m : Max(b .. m) >= y
      BY <3>1 DEF Max
    <3> QED BY <2>6, <3>2
  <2>9. Cursor(list)[m] \in Nat
    <3>1. m \in 0 .. Len(list) /\ Increasing(Len(list), Cursor(list))
      BY <2>1, <2>6, ListIncreasing DEF Increasing
    <3> QED BY <3>1 DEF Increasing
  <2>10. Base(b) = a.base /\ Pages(b, m) >= a.pages
    BY <2>6, <2>9 DEF Base, Pages
  <2>11. Chain(D(a)) = b .. m
    BY <2>3, <2>4, <2>5
  <2>12. Base(Min(Chain(D(a)))) = a.base /\ Pages(Min(Chain(D(a))), Max(Chain(D(a)))) >= a.pages
    BY <2>7, <2>8, <2>10, <2>11
  <2> QED BY <2>2, <2>3, <2>4, <2>12 DEF Described, Claimed
<1> QED BY <1>1, PoolInvariantHolds, PTL

(* The step that frees a region releases each of its frames. *)
THEOREM FreeReleasesEveryPageHolds ==
  ASSUME Clears = {TRUE} PROVE Spec => FreeReleasesEveryPage
<1>1. ASSUME PoolInvariant, [Next]_vars PROVE [OnePage => \A a \in live \ live' : Phys(a) \cap used' = {}]_vars
  <2> SUFFICES ASSUME OnePage, NEW a \in live \ live' PROVE Phys(a) \cap used' = {}
    OBVIOUS
  <2>1. machine' = machine /\ Sane /\ Fixed
    BY <1>1, MachineTypes DEF PoolInvariant, Next, vars
  <2>2. ASSUME NEW size \in Sizes, NEW clear \in Clears, allocate_dma(size, clear) PROVE FALSE
    <3>1. live \subseteq live'
      BY <2>2 DEF allocate_dma, AllocFirst, AllocReuse, AllocExtend, AllocGrow, Extend, Back
    <3> QED BY <3>1
  <2>3. ASSUME NEW b \in live, free_dma(b) PROVE Phys(a) \cap used' = {}
    <3>1. live' = live \ {b} /\ Phys(b) \cap used' = {}
      BY <2>1, <2>3, FreeSound, Zenon
    <3> QED BY <3>1
  <2>4. CASE UNCHANGED vars
    BY <2>4 DEF vars
  <2> QED BY <1>1, <2>2, <2>3, <2>4 DEF Next
<1> QED BY <1>1, PoolInvariantHolds, PTL DEF Spec, FreeReleasesEveryPage

(***************************************************************************)
(* The page tables, for tables of any number of entries, any processor and *)
(* any calls.  That a call has mapped or unmapped what it was asked to is  *)
(* not inductive on its own: the walk for an address stays in the tables   *)
(* only while they are a tree, each table at one place (Tree), and between *)
(* two rounds a call has done its work up to some address d (CreateAt,     *)
(* DestroyAt), or is mapping a huge page again piece by piece (SplitAt).   *)
(* PagingInv says these.  The hypothesis TableLimit < VSize leaves out the *)
(* ranges that end where the address space does: for those virtual_end     *)
(* wraps to 0 and create_mapping returns at once.                          *)
(***************************************************************************)

(* the addresses a walk can be for *)
Space == 0 .. PG!VSize - 1

(* the part of the address space that the table on the way to v at level l is for *)
Zone(v, l) == IF l = 3 THEN 0 ELSE v \div PG!Size(l + 1)

-----------------------------------------------------------------------------
(* The size of an entry is F times the size of an entry one level down. *)
LEMMA LevelSizes ==
  ASSUME PG!PagingConstants
  PROVE  /\ F \in Nat /\ F > 1 /\ PG!VSize \in Nat /\ PG!Size(0) = 1
         /\ \A l \in PG!Levels : PG!Size(l) \in Nat /\ PG!Size(l) > 0
         /\ \A l \in 0 .. 2 : PG!Size(l + 1) = F * PG!Size(l)
         /\ PG!VSize = F * PG!Size(3)
<1>1. F \in Nat /\ F > 1
  BY DEF PG!PagingConstants
<1>2. F * F \in Nat /\ F * F > 0
  BY <1>1
<1>3. F * F * F \in Nat /\ F * F * F > 0
  <2>1. PICK g : g = F * F
    OBVIOUS
  <2>2. g \in Nat /\ g > 0 /\ g * F \in Nat /\ g * F > 0
    BY <1>1, <1>2, <2>1
  <2> QED
    BY <2>1, <2>2
<1>4. PG!Size(0) = 1 /\ PG!Size(1) = F /\ PG!Size(2) = F * F /\ PG!Size(3) = F * F * F
  BY DEF PG!Size
<1>5. \A l \in PG!Levels : PG!Size(l) \in Nat /\ PG!Size(l) > 0
  BY <1>1, <1>2, <1>3, <1>4 DEF PG!Levels
<1>6. PG!Size(1) = F * PG!Size(0) /\ PG!Size(2) = F * PG!Size(1)
  BY <1>1, <1>4
<1>7. PG!Size(3) = F * PG!Size(2)
  BY <1>1, <1>4
<1>8. \A l \in 0 .. 2 : PG!Size(l + 1) = F * PG!Size(l)
  BY <1>6, <1>7
<1>9. PG!VSize \in Nat
  BY <1>1, <1>5 DEF PG!VSize, PG!Levels
<1> QED
  BY <1>1, <1>4, <1>5, <1>8, <1>9 DEF PG!VSize

(* Quotient and remainder. *)
LEMMA Euclid ==
  ASSUME NEW v \in Nat, NEW d \in Nat, d > 0
  PROVE  v \div d \in Nat /\ v % d \in 0 .. d - 1 /\ v = d * (v \div d) + (v % d)
<1>1. v \div d \in Int
  OBVIOUS
<1>2. v % d \in 0 .. d - 1
  OBVIOUS
<1>3. v = d * (v \div d) + (v % d)
  OBVIOUS
<1>4. v \div d >= 0
  <2> SUFFICES ASSUME v \div d <= -1 PROVE FALSE
    BY <1>1
  <2>1. PICK q \in Int : q = v \div d
    BY <1>1
  <2>2. d * q <= -d
    BY <2>1
  <2> QED
    BY <1>2, <1>3, <2>1, <2>2
<1> QED
  BY <1>1, <1>2, <1>3, <1>4

(* They are the only ones. *)
LEMMA EuclidUnique ==
  ASSUME NEW v \in Nat, NEW d \in Nat, d > 0, NEW q \in Nat, NEW r \in 0 .. d - 1, v = d * q + r
  PROVE  v \div d = q /\ v % d = r
  BY SMTT(30)

(* The number of the entry of v at a level, from the one a level up. *)
LEMMA DivStep ==
  ASSUME NEW v \in Nat, NEW f \in Nat, f > 0, NEW d \in Nat, d > 0
  PROVE  /\ v \div d \in Nat /\ v \div (f * d) \in Nat
         /\ (v \div d) % f \in 0 .. f - 1
         /\ v \div d = f * (v \div (f * d)) + ((v \div d) % f)
<1>1. PICK q \in Nat, r \in 0 .. d - 1 : v = d * q + r
  <2>1. v \div d \in Nat /\ v % d \in 0 .. d - 1 /\ v = d * (v \div d) + (v % d)
    BY Euclid
  <2> QED
    BY <2>1, Zenon
<1>2. v \div d = q
  BY <1>1, EuclidUnique
<1>3. PICK p \in Nat, s \in 0 .. f - 1 : q = f * p + s
  <2>1. q \div f \in Nat /\ q % f \in 0 .. f - 1 /\ q = f * (q \div f) + (q % f)
    BY Euclid
  <2> QED
    BY <2>1, Zenon
<1>4. q % f = s
  BY <1>3, EuclidUnique
<1>5. PICK b \in Nat : b = f * d /\ b > 0
  BY SMT
<1>6. PICK y \in Nat : y = d * s + r /\ y < b
  <2>1. d * s \in Nat /\ d * s <= d * (f - 1)
    BY <1>3
  <2>2. d * (f - 1) = b - d
    BY <1>5
  <2> QED
    BY <1>1, <2>1, <2>2
<1>7. v = b * p + y
  <2>1. d * (f * p + s) = d * (f * p) + d * s
    BY <1>3
  <2>2. d * (f * p) = (f * d) * p
    BY <1>3
  <2> QED
    BY <1>1, <1>3, <1>5, <1>6, <2>1, <2>2
<1>8. v \div b = p
  BY <1>5, <1>6, <1>7, EuclidUnique
<1>9. v \div (f * d) = p
  BY <1>5, <1>8
<1>10. (v \div d) % f = s
  BY <1>2, <1>4
<1>11. v \div d = f * p + s
  BY <1>2, <1>3
<1>12. v \div d \in Nat
  BY <1>2
<1>13. f * (v \div (f * d)) + ((v \div d) % f) = f * p + s
  BY <1>9, <1>10
<1> QED
  BY <1>9, <1>10, <1>11, <1>12, <1>13, Zenon

(* The place of v at each level: its entry in the table, the table's zone.  Two addresses with *)
(* the same zone and the same entry have the same zone one level down, and the other way round. *)
LEMMA PlaceFacts ==
  ASSUME PG!PagingConstants, NEW v \in Space, NEW l \in PG!Levels
  PROVE  /\ PG!Index(v, l) \in 0 .. F - 1 /\ Zone(v, l) \in Nat /\ v \div PG!Size(l) \in Nat
         /\ v \div PG!Size(l) = F * Zone(v, l) + PG!Index(v, l)
<1>1. v \in Nat /\ v < PG!VSize
  BY LevelSizes DEF Space
<1>2. F \in Nat /\ F > 1 /\ PG!Size(l) \in Nat /\ PG!Size(l) > 0
  BY LevelSizes
<1>3. /\ v \div PG!Size(l) \in Nat /\ v \div (F * PG!Size(l)) \in Nat
      /\ (v \div PG!Size(l)) % F \in 0 .. F - 1
      /\ v \div PG!Size(l) = F * (v \div (F * PG!Size(l))) + ((v \div PG!Size(l)) % F)
  <2>1. PICK d \in Nat : d = PG!Size(l) /\ d > 0
    BY <1>2
  <2>2. F > 0
    BY <1>2
  <2>3. /\ v \div d \in Nat /\ v \div (F * d) \in Nat /\ (v \div d) % F \in 0 .. F - 1
        /\ v \div d = F * (v \div (F * d)) + ((v \div d) % F)
    BY <1>1, <1>2, <2>1, <2>2, DivStep
  <2> QED
    BY <2>1, <2>3
<1>4. Zone(v, l) = v \div (F * PG!Size(l))
  <2>1. CASE l = 3
    <3>1. PG!VSize = F * PG!Size(3) /\ PG!VSize \in Nat /\ PG!VSize > 0
      BY <1>1, LevelSizes
    <3>2. v = PG!VSize * 0 + v /\ v \in 0 .. PG!VSize - 1
      BY <1>1, <3>1
    <3>3. v \div PG!VSize = 0
      BY <1>1, <3>1, <3>2, EuclidUnique
    <3> QED
      BY <2>1, <3>1, <3>3 DEF Zone
  <2>2. CASE l # 3
    <3>1. l \in 0 .. 2
      BY <2>2 DEF PG!Levels
    <3> QED
      BY <2>2, <3>1, LevelSizes DEF Zone
  <2> QED
    BY <2>1, <2>2
<1> QED
  BY <1>3, <1>4 DEF PG!Index

(* Of two addresses: same zone and same entry, or same zone one level down. *)
LEMMA SamePlace ==
  ASSUME PG!PagingConstants, NEW v \in Space, NEW w \in Space, NEW l \in PG!Levels
  PROVE  v \div PG!Size(l) = w \div PG!Size(l) <=> (Zone(v, l) = Zone(w, l) /\ PG!Index(v, l) = PG!Index(w, l))
<1>1. PICK f \in Nat : f = F /\ f > 1
  BY LevelSizes
<1>2. PICK i \in 0 .. f - 1, z \in Nat : i = PG!Index(v, l) /\ z = Zone(v, l) /\ v \div PG!Size(l) = f * z + i
  BY <1>1, PlaceFacts
<1>3. PICK j \in 0 .. f - 1, y \in Nat : j = PG!Index(w, l) /\ y = Zone(w, l) /\ w \div PG!Size(l) = f * y + j
  BY <1>1, PlaceFacts
<1>4. f * z + i = f * y + j <=> z = y /\ i = j
  <2>1. ASSUME f * z + i = f * y + j PROVE z = y /\ i = j
    <3>1. PICK x \in Nat : x = f * z + i
      BY <1>1, <1>2
    <3>2. f > 0 /\ x = f * y + j
      BY <1>1, <2>1, <3>1
    <3>3. x \div f = z /\ x % f = i
      BY <3>1, <3>2, EuclidUnique
    <3>4. x \div f = y /\ x % f = j
      BY <3>2, EuclidUnique
    <3> QED
      BY <3>3, <3>4
  <2> QED
    BY <2>1
<1> QED
  BY <1>2, <1>3, <1>4

(* Two addresses in one zone at a level are in one zone, and at one entry, at each level above. *)
LEMMA SameAbove ==
  ASSUME PG!PagingConstants, NEW v \in Space, NEW w \in Space, NEW l \in PG!Levels, NEW k \in PG!Levels,
         k > l, Zone(v, l) = Zone(w, l)
  PROVE  Zone(v, k) = Zone(w, k) /\ PG!Index(v, k) = PG!Index(w, k)
<1>1. \A i \in 0 .. 2 : Zone(v, i) = v \div PG!Size(i + 1) /\ Zone(w, i) = w \div PG!Size(i + 1)
  BY DEF Zone
<1>2. \A i \in 0 .. 2 : Zone(v, i) = Zone(w, i) =>
        Zone(v, i + 1) = Zone(w, i + 1) /\ PG!Index(v, i + 1) = PG!Index(w, i + 1)
  <2> SUFFICES ASSUME NEW i \in 0 .. 2, Zone(v, i) = Zone(w, i)
               PROVE  Zone(v, i + 1) = Zone(w, i + 1) /\ PG!Index(v, i + 1) = PG!Index(w, i + 1)
    OBVIOUS
  <2>1. i + 1 \in PG!Levels
    BY DEF PG!Levels
  <2> QED
    BY <1>1, <2>1, SamePlace
<1> QED
  BY <1>2 DEF PG!Levels


(* The address space is a whole number of entries of each level. *)
LEMMA Whole ==
  ASSUME PG!PagingConstants, NEW l \in PG!Levels
  PROVE  \E g \in Nat : PG!VSize = (F * PG!Size(l)) * g
<1>1. F \in Nat /\ F > 1
  BY LevelSizes
<1>2. /\ PG!Size(0) = 1 /\ PG!Size(1) = F /\ PG!Size(2) = F * F /\ PG!Size(3) = F * F * F
      /\ PG!VSize = F * (F * F * F)
  BY LevelSizes DEF PG!Size
<1>3. PICK s \in Nat : s = F * F
  BY <1>1
<1>4. PICK c \in Nat : c = s * F
  BY <1>1, <1>3
<1>5. PG!VSize = (F * PG!Size(0)) * c
  BY <1>1, <1>2, <1>3, <1>4
<1>6. PG!VSize = (F * PG!Size(1)) * s
  BY <1>1, <1>2, <1>3
<1>7. PG!VSize = (F * PG!Size(2)) * F /\ PG!VSize = (F * PG!Size(3)) * 1
  BY <1>1, <1>2, <1>3, <1>4
<1> QED
  BY <1>1, <1>3, <1>4, <1>5, <1>6, <1>7 DEF PG!Levels

(* The addresses of an entry are a block of the address space that starts at a multiple of its size. *)
LEMMA Block ==
  ASSUME PG!PagingConstants, NEW v \in Space, NEW l \in PG!Levels, NEW w \in Int
  PROVE  /\ v % PG!Size(l) \in 0 .. PG!Size(l) - 1
         /\ v - (v % PG!Size(l)) \in Nat /\ v - (v % PG!Size(l)) + PG!Size(l) <= PG!VSize
         /\ (v - (v % PG!Size(l)) <= w /\ w < v - (v % PG!Size(l)) + PG!Size(l))
              <=> (w \in Space /\ w \div PG!Size(l) = v \div PG!Size(l))
         /\ w \in Space /\ w \div PG!Size(l) = v \div PG!Size(l) => w % PG!Size(l) = w - (v - (v % PG!Size(l)))
<1>1. PICK d \in Nat : d = PG!Size(l) /\ d > 0
  BY LevelSizes
<1>2. v \in Nat /\ v < PG!VSize /\ PG!VSize \in Nat /\ F \in Nat /\ F > 1
  BY LevelSizes DEF Space
<1>3. PICK q \in Nat, r \in 0 .. d - 1 : q = v \div d /\ r = v % d /\ v = d * q + r
  <2>1. v \div d \in Nat /\ v % d \in 0 .. d - 1 /\ v = d * (v \div d) + (v % d)
    BY <1>1, <1>2, Euclid
  <2> QED
    BY <2>1, Zenon
<1>4. PICK b \in Nat : b = d * q /\ b = v - r
  BY <1>3
<1>5. PICK h \in Nat : PG!VSize = d * h
  <2>1. PICK g \in Nat : PG!VSize = (F * d) * g
    BY <1>1, Whole
  <2>2. (F * d) * g = d * (F * g)
    BY <1>1, <1>2
  <2>3. F * g \in Nat
    BY <1>2
  <2> QED
    BY <2>1, <2>2, <2>3
<1>6. q < h
  <2> SUFFICES ASSUME q >= h PROVE FALSE
    BY <1>3, <1>5
  <2>1. d * q >= d * h
    BY <1>1
  <2> QED
    BY <1>2, <1>4, <1>5, <2>1
<1>7. b + d <= PG!VSize
  <2>1. d * (q + 1) <= d * h
    BY <1>1, <1>6
  <2>2. d * (q + 1) = b + d
    BY <1>1, <1>4
  <2> QED
    BY <1>5, <2>1, <2>2
<1>8. ASSUME b <= w, w < b + d PROVE w \in Space /\ w \div d = q /\ w % d = w - b
  <2>1. PICK s \in 0 .. d - 1 : s = w - b
    BY <1>1, <1>4, <1>8
  <2>2. w \in Nat /\ w = d * q + s
    BY <1>4, <1>8, <2>1
  <2>3. w \div d = q /\ w % d = s
    BY <1>1, <2>2, EuclidUnique
  <2> QED
    BY <1>2, <1>7, <1>8, <2>1, <2>2, <2>3 DEF Space
<1>9. ASSUME w \in Space, w \div d = q PROVE b <= w /\ w < b + d
  <2>1. w \in Nat
    BY <1>2, <1>9 DEF Space
  <2>2. w = d * (w \div d) + (w % d) /\ w % d \in 0 .. d - 1
    BY <1>1, <2>1, Euclid
  <2> QED
    BY <1>4, <1>9, <2>1, <2>2
<1>10. w \in Space /\ w \div d = q => w % d = w - b
  BY <1>8, <1>9
<1> QED
  BY <1>1, <1>3, <1>4, <1>7, <1>8, <1>9, <1>10

(* A run of entries of one table, from that of v on, is a run of addresses. *)
LEMMA Span ==
  ASSUME PG!PagingConstants, NEW v \in Space, NEW l \in PG!Levels, v % PG!Size(l) = 0,
         NEW k \in Nat, k <= F - PG!Index(v, l), NEW w \in Space
  PROVE  /\ (v <= w /\ w < v + k * PG!Size(l))
              <=> (Zone(w, l) = Zone(v, l) /\ PG!Index(w, l) \in PG!Index(v, l) .. PG!Index(v, l) + k - 1)
         /\ Zone(w, l) = Zone(v, l) => w = v + (PG!Index(w, l) - PG!Index(v, l)) * PG!Size(l) + (w % PG!Size(l))
<1>1. PICK d \in Nat : d = PG!Size(l) /\ d > 0
  BY LevelSizes
<1>2. v \in Nat /\ w \in Nat /\ F \in Nat /\ F > 1
  BY LevelSizes DEF Space
<1>3. PICK q \in Nat : q = v \div d /\ v = d * q
  BY <1>1, <1>2, Euclid
<1>4. PICK p \in Nat, r \in 0 .. d - 1 : p = w \div d /\ r = w % d /\ w = d * p + r
  <2>1. w \div d \in Nat /\ w % d \in 0 .. d - 1 /\ w = d * (w \div d) + (w % d)
    BY <1>1, <1>2, Euclid
  <2> QED
    BY <2>1, Zenon
<1>5. PICK z \in Nat, i \in 0 .. F - 1 : z = Zone(v, l) /\ i = PG!Index(v, l) /\ q = F * z + i
  BY <1>1, <1>3, PlaceFacts
<1>6. PICK y \in Nat, j \in 0 .. F - 1 : y = Zone(w, l) /\ j = PG!Index(w, l) /\ p = F * y + j
  BY <1>1, <1>4, PlaceFacts
<1>7. v <= w /\ w < v + k * d <=> q <= p /\ p < q + k
  <2>1. ASSUME q <= p, p < q + k PROVE v <= w /\ w < v + k * d
    <3>1. d * q <= d * p /\ d * (p + 1) <= d * (q + k)
      BY <1>1, <2>1
    <3>2. d * (p + 1) = d * p + d /\ d * (q + k) = d * q + k * d
      BY <1>1
    <3>3. d * p \in Nat /\ d * q \in Nat /\ k * d \in Nat
      BY <1>1
    <3> QED
      BY <1>3, <1>4, <3>1, <3>2, <3>3
  <2>2. ASSUME p < q PROVE w < v
    <3>1. d * (p + 1) <= d * q /\ d * (p + 1) = d * p + d
      BY <1>1, <2>2
    <3> QED
      BY <1>1, <1>3, <1>4, <3>1
  <2>3. ASSUME p >= q + k PROVE w >= v + k * d
    <3>1. d * (q + k) <= d * p /\ d * (q + k) = d * q + k * d
      BY <1>1, <2>3
    <3> QED
      BY <1>1, <1>3, <1>4, <3>1
  <2>4. k * d \in Nat
    BY <1>1
  <2> QED
    BY <1>2, <2>1, <2>2, <2>3, <2>4
<1>8. q <= p /\ p < q + k <=> y = z /\ j \in i .. i + k - 1
  <2>1. i + k <= F
    BY <1>2, <1>5
  <2>2. ASSUME q <= p, p < q + k PROVE y = z /\ j \in i .. i + k - 1
    <3>1. PICK n \in 0 .. F - 1 : n = i + (p - q)
      BY <1>2, <2>1, <2>2
    <3>2. p = F * z + n /\ F > 0
      BY <1>2, <1>5, <3>1
    <3>3. p \div F = z /\ p % F = n
      BY <1>2, <3>2, EuclidUnique
    <3>4. p \div F = y /\ p % F = j
      BY <1>2, <1>6, <3>2, EuclidUnique
    <3> QED
      BY <2>2, <3>1, <3>3, <3>4
  <2>3. ASSUME y = z, j \in i .. i + k - 1 PROVE q <= p /\ p < q + k
    BY <1>2, <1>5, <1>6, <2>3
  <2> QED
    BY <2>2, <2>3
<1>9. ASSUME y = z PROVE w = v + (j - i) * d + r
  <2>1. p = q + (j - i)
    BY <1>2, <1>5, <1>6, <1>9
  <2>2. d * (q + (j - i)) = d * q + (j - i) * d
    BY <1>1
  <2> QED
    BY <1>1, <1>3, <1>4, <2>1, <2>2
<1>10. (v <= w /\ w < v + k * d) <=> (y = z /\ j \in i .. i + k - 1)
  BY <1>7, <1>8
<1> QED
  BY <1>1, <1>4, <1>5, <1>6, <1>9, <1>10


(* Every entry of a table on the way to v is on the way to some address. *)
LEMMA Sibling ==
  ASSUME PG!PagingConstants, NEW v \in Space, NEW l \in PG!Levels, NEW i \in 0 .. F - 1
  PROVE  \E w \in Space : Zone(w, l) = Zone(v, l) /\ PG!Index(w, l) = i
<1>1. PICK d \in Nat : d = PG!Size(l) /\ d > 0
  BY LevelSizes
<1>2. v \in Nat /\ v < PG!VSize /\ PG!VSize \in Nat /\ F \in Nat /\ F > 1
  BY LevelSizes DEF Space
<1>3. PICK q \in Nat : q = v \div d /\ d * q <= v
  <2>1. v \div d \in Nat /\ v % d \in 0 .. d - 1 /\ v = d * (v \div d) + (v % d)
    BY <1>1, <1>2, Euclid
  <2> QED
    BY <1>1, <1>2, <2>1
<1>4. PICK z \in Nat, j \in 0 .. F - 1 : z = Zone(v, l) /\ j = PG!Index(v, l) /\ q = F * z + j
  BY <1>1, <1>3, PlaceFacts
<1>5. PICK g \in Nat : PG!VSize = (F * d) * g
  BY <1>1, Whole
<1>6. PICK e \in Nat : e = F * d /\ e > 0
  BY <1>1, <1>2
<1>7. e * z <= v
  <2>1. d * q = d * (F * z) + d * j /\ d * j >= 0
    BY <1>1, <1>2, <1>4
  <2>2. d * (F * z) = e * z
    BY <1>1, <1>2, <1>6
  <2>3. e * z \in Nat /\ d * q \in Nat /\ d * j \in Nat
    BY <1>1, <1>6
  <2> QED
    BY <1>2, <1>3, <2>1, <2>2, <2>3
<1>8. z < g
  <2> SUFFICES ASSUME z >= g PROVE FALSE
    OBVIOUS
  <2>1. e * z >= e * g
    BY <1>6
  <2> QED
    BY <1>2, <1>5, <1>6, <1>7, <2>1
<1>9. PICK p \in Nat : p = F * z + i
  BY <1>2
<1>10. PICK w \in Nat : w = d * p
  BY <1>1
<1>11. w < PG!VSize
  <2>1. d * p = d * (F * z) + d * i /\ d * i <= d * (F - 1)
    BY <1>1, <1>2, <1>9
  <2>2. d * (F * z) = e * z /\ d * (F - 1) = e - d
    <3>1. d * (F * z) = e * z
      BY <1>1, <1>2, <1>6
    <3>2. d * (F - 1) = d * F - d /\ d * F = F * d
      BY <1>1, <1>2
    <3> QED
      BY <1>6, <3>1, <3>2
  <2>3. e * (z + 1) <= e * g /\ e * (z + 1) = e * z + e
    BY <1>6, <1>8
  <2>4. d * i \in Nat /\ e * z \in Nat
    BY <1>1, <1>6
  <2> QED
    BY <1>1, <1>2, <1>5, <1>6, <1>10, <2>1, <2>2, <2>3, <2>4
<1>12. w \in Space
  BY <1>2, <1>11 DEF Space
<1>13. w \div d = p
  <2>1. 0 \in 0 .. d - 1 /\ w = d * p + 0
    BY <1>1, <1>10
  <2> QED
    BY <1>1, <2>1, EuclidUnique
<1>14. PICK y \in Nat, n \in 0 .. F - 1 : y = Zone(w, l) /\ n = PG!Index(w, l) /\ p = F * y + n
  BY <1>1, <1>12, <1>13, PlaceFacts
<1>15. y = z /\ n = i
  <2>1. F > 0 /\ p = F * z + i
    BY <1>2, <1>9
  <2>2. p \div F = z /\ p % F = i
    BY <1>2, <2>1, EuclidUnique
  <2>3. p \div F = y /\ p % F = n
    BY <1>2, <1>14, <2>1, EuclidUnique
  <2> QED
    BY <2>2, <2>3
<1> QED
  BY <1>4, <1>12, <1>14, <1>15

-----------------------------------------------------------------------------
(* what an entry may hold *)
EntrySet == {PG!None} \cup {PG!Table(t) : t \in Nat} \cup {PG!Page(p, a) : p \in Nat, a \in Attrs}

(* the frames that hold tables, and what is in them *)
Memory(m) ==
  /\ IsFiniteSet(DOMAIN m) /\ DOMAIN m \subseteq Nat /\ PG!KernelPML4 \in DOMAIN m
  /\ m \in [DOMAIN m -> [0 .. F - 1 -> EntrySet]]

(* a walk stays in the tables, and meets entries its level can have *)
Walks(m) ==
  /\ \A v \in Space, l \in PG!Levels : PG!Reached(m, v, l) => PG!TableOf(m, v, l) \in DOMAIN m
  /\ \A v \in Space : PG!Reached(m, v, 0) => PG!Entry(m, v, 0).kind # "table"
  /\ \A v \in Space : PG!Entry(m, v, 3).kind # "page"

(* a table is at one place of the tree *)
OneZone(m) ==
  \A v, w \in Space, k, l \in PG!Levels :
    PG!Reached(m, v, k) /\ PG!Reached(m, w, l) /\ PG!TableOf(m, v, k) = PG!TableOf(m, w, l)
      => k = l /\ Zone(v, k) = Zone(w, l)

(* a table is at some place of the tree *)
Placed(m) ==
  \A t \in DOMAIN m : \E v \in Space, l \in PG!Levels : PG!Reached(m, v, l) /\ PG!TableOf(m, v, l) = t

Tree(m) == Memory(m) /\ Walks(m) /\ OneZone(m) /\ Placed(m)

-----------------------------------------------------------------------------
(* One step of a walk, for any contents of the memory. *)
LEMMA WalkDown ==
  ASSUME NEW m, NEW v
  PROVE  /\ PG!Reached(m, v, 3) /\ PG!TableOf(m, v, 3) = PG!KernelPML4
         /\ \A l \in 0 .. 2 : PG!Reached(m, v, l) <=> PG!Reached(m, v, l + 1) /\ PG!Entry(m, v, l + 1).kind = "table"
         /\ \A l \in 0 .. 2 : PG!TableOf(m, v, l) = PG!Entry(m, v, l + 1).to
         /\ \A l \in PG!Levels : PG!Entry(m, v, l) = m[PG!TableOf(m, v, l)][PG!Index(v, l)]
<1>1. PG!Reached(m, v, 3) /\ PG!TableOf(m, v, 3) = PG!KernelPML4
  BY DEF PG!Reached, PG!TableOf
<1>2. /\ PG!Reached(m, v, 2) <=> PG!Reached(m, v, 3) /\ PG!Entry(m, v, 3).kind = "table"
      /\ PG!Reached(m, v, 1) <=> PG!Reached(m, v, 2) /\ PG!Entry(m, v, 2).kind = "table"
      /\ PG!Reached(m, v, 0) <=> PG!Reached(m, v, 1) /\ PG!Entry(m, v, 1).kind = "table"
  BY DEF PG!Reached
<1>3. PG!TableOf(m, v, 2) = PG!Entry(m, v, 3).to /\ PG!TableOf(m, v, 1) = PG!Entry(m, v, 2).to
        /\ PG!TableOf(m, v, 0) = PG!Entry(m, v, 1).to
  BY DEF PG!Entry, PG!TableOf, PG!PDPT, PG!PD, PG!PT
<1>4. \A l \in 0 .. 2 : l = 0 \/ l = 1 \/ l = 2
  OBVIOUS
<1>5. \A l \in PG!Levels : PG!Entry(m, v, l) = m[PG!TableOf(m, v, l)][PG!Index(v, l)]
  BY DEF PG!Entry
<1>6. \A l \in 0 .. 2 : PG!Reached(m, v, l) <=> PG!Reached(m, v, l + 1) /\ PG!Entry(m, v, l + 1).kind = "table"
  BY <1>2, <1>4
<1>7. \A l \in 0 .. 2 : PG!TableOf(m, v, l) = PG!Entry(m, v, l + 1).to
  BY <1>3, <1>4
<1> QED
  BY <1>1, <1>5, <1>6, <1>7

(* The levels a walk reached are those from some level up. *)
LEMMA ReachedAbove ==
  ASSUME NEW m, NEW v, NEW l \in PG!Levels, NEW k \in PG!Levels, k > l, PG!Reached(m, v, l)
  PROVE  PG!Reached(m, v, k) /\ PG!Entry(m, v, k).kind = "table"
  BY DEF PG!Reached, PG!Levels

(* The entries of a memory, by their kind. *)
LEMMA EntryKinds ==
  ASSUME NEW e \in EntrySet
  PROVE  /\ e.kind \in {"none", "table", "page"}
         /\ e.kind = "none" <=> e = PG!None
         /\ e.kind = "table" => e.to \in Nat /\ e = PG!Table(e.to)
         /\ e.kind = "page" => e.to \in Nat /\ e.attr \in Attrs
  BY DEF EntrySet, PG!None, PG!Table, PG!Page


(* Addresses of one zone are walked for through the same tables down to that level. *)
LEMMA SameWalk ==
  ASSUME PG!PagingConstants, NEW m, NEW v \in Space, NEW w \in Space, NEW l \in PG!Levels, Zone(v, l) = Zone(w, l)
  PROVE  \A k \in PG!Levels : k >= l =>
           (PG!Reached(m, v, k) <=> PG!Reached(m, w, k)) /\ PG!TableOf(m, v, k) = PG!TableOf(m, w, k)
<1> DEFINE Same(k) == (PG!Reached(m, v, k) <=> PG!Reached(m, w, k)) /\ PG!TableOf(m, v, k) = PG!TableOf(m, w, k)
<1>1. Same(3)
  BY WalkDown
<1>2. ASSUME NEW k \in 0 .. 2, k >= l, Same(k + 1) PROVE Same(k)
  <2>1. k + 1 \in PG!Levels /\ k + 1 > l
    BY <1>2 DEF PG!Levels
  <2>2. PG!Index(v, k + 1) = PG!Index(w, k + 1)
    BY <2>1, SameAbove
  <2>3. PG!Entry(m, v, k + 1) = PG!Entry(m, w, k + 1)
    BY <1>2, <2>1, <2>2, WalkDown
  <2>4. /\ PG!Reached(m, v, k) <=> PG!Reached(m, v, k + 1) /\ PG!Entry(m, v, k + 1).kind = "table"
        /\ PG!TableOf(m, v, k) = PG!Entry(m, v, k + 1).to
    BY WalkDown
  <2>5. /\ PG!Reached(m, w, k) <=> PG!Reached(m, w, k + 1) /\ PG!Entry(m, w, k + 1).kind = "table"
        /\ PG!TableOf(m, w, k) = PG!Entry(m, w, k + 1).to
    BY WalkDown
  <2> QED
    BY <1>2, <2>3, <2>4, <2>5
<1> HIDE DEF Same
<1>3. 2 >= l => Same(2)
  BY <1>1, <1>2 DEF PG!Levels
<1>4. 1 >= l => Same(1)
  BY <1>2, <1>3 DEF PG!Levels
<1>5. 0 >= l => Same(0)
  BY <1>2, <1>4 DEF PG!Levels
<1>6. \A k \in PG!Levels : k >= l => Same(k)
  BY <1>1, <1>3, <1>4, <1>5 DEF PG!Levels
<1> QED
  BY <1>6 DEF Same

(* The walk for an address ends at one level. *)
LEMMA Ends ==
  ASSUME NEW m, Tree(m), NEW v \in Space
  PROVE  /\ PG!EndLevel(m, v) \in PG!Levels /\ PG!Reached(m, v, PG!EndLevel(m, v))
         /\ PG!Entry(m, v, PG!EndLevel(m, v)).kind # "table"
         /\ \A l \in PG!Levels : PG!Reached(m, v, l) /\ PG!Entry(m, v, l).kind # "table" => PG!EndLevel(m, v) = l
         /\ \A l \in PG!Levels : PG!Reached(m, v, l) => PG!EndLevel(m, v) <= l
<1>1. \E l \in PG!Levels : PG!Reached(m, v, l) /\ PG!Entry(m, v, l).kind # "table"
  <2>1. PG!Reached(m, v, 0) => PG!Entry(m, v, 0).kind # "table"
    BY DEF Tree, Walks
  <2> QED
    BY <2>1 DEF PG!Reached, PG!Levels
<1>2. PG!EndLevel(m, v) \in PG!Levels /\ PG!Reached(m, v, PG!EndLevel(m, v)) /\ PG!Entry(m, v, PG!EndLevel(m, v)).kind # "table"
  BY <1>1 DEF PG!EndLevel
<1>3. \A k, l \in PG!Levels : k > l /\ PG!Reached(m, v, l) => PG!Entry(m, v, k).kind = "table"
  BY ReachedAbove
<1>4. \A l \in PG!Levels : PG!Reached(m, v, l) => PG!EndLevel(m, v) <= l
  BY <1>2, <1>3 DEF PG!Levels
<1>5. ASSUME NEW l \in PG!Levels, PG!Reached(m, v, l), PG!Entry(m, v, l).kind # "table" PROVE PG!EndLevel(m, v) >= l
  BY <1>2, <1>3, <1>5 DEF PG!Levels
<1> QED
  BY <1>2, <1>4, <1>5 DEF PG!Levels

(* What an entry of a walk is. *)
LEMMA EntryOf ==
  ASSUME PG!PagingConstants, NEW m, Tree(m), NEW v \in Space, NEW l \in PG!Levels, PG!Reached(m, v, l)
  PROVE  PG!TableOf(m, v, l) \in DOMAIN m /\ PG!Index(v, l) \in 0 .. F - 1 /\ PG!Entry(m, v, l) \in EntrySet
<1>1. PG!TableOf(m, v, l) \in DOMAIN m
  BY DEF Tree, Walks
<1>2. PG!Index(v, l) \in 0 .. F - 1
  BY PlaceFacts
<1> QED
  BY <1>1, <1>2 DEF Tree, Memory, PG!Entry


-----------------------------------------------------------------------------
(* w is translated by one of the entries I of the table of u at level k *)
Hit(w, u, k, I) == Zone(w, k) = Zone(u, k) /\ PG!Index(w, k) \in I

(* the tables below those entries *)
Under(m, u, k, I) ==
  {t \in DOMAIN m : \E w \in Space, l \in PG!Levels :
     l < k /\ Hit(w, u, k, I) /\ PG!Reached(m, w, l) /\ PG!TableOf(m, w, l) = t}

(* in x those entries have been replaced by the ones in e *)
Edited(m, x, u, k, I, e) ==
  \A t \in DOMAIN m \ Under(m, u, k, I) :
    /\ t \in DOMAIN x
    /\ \A i \in 0 .. F - 1 :
         x[t][i] = IF t = PG!TableOf(m, u, k) /\ i \in I THEN e[i] ELSE m[t][i]

(* A table that is not below those entries stays. *)
LEMMA NotUnder ==
  ASSUME PG!PagingConstants, NEW m, Tree(m), NEW u \in Space, NEW k \in PG!Levels, NEW I,
         NEW w \in Space, NEW l \in PG!Levels, PG!Reached(m, w, l), ~(Hit(w, u, k, I) /\ l < k)
  PROVE  PG!TableOf(m, w, l) \in DOMAIN m \ Under(m, u, k, I)
<1>1. PG!TableOf(m, w, l) \in DOMAIN m
  BY EntryOf
<1>2. ASSUME NEW y \in Space, NEW j \in PG!Levels, j < k, Hit(y, u, k, I), PG!Reached(m, y, j),
             PG!TableOf(m, y, j) = PG!TableOf(m, w, l)
      PROVE  FALSE
  <2>1. j = l /\ Zone(y, j) = Zone(w, l)
    BY <1>2 DEF Tree, OneZone
  <2>2. Zone(y, k) = Zone(w, k) /\ PG!Index(y, k) = PG!Index(w, k)
    BY <1>2, <2>1, SameAbove
  <2> QED
    BY <1>2, <2>1, <2>2 DEF Hit
<1> QED
  BY <1>1, <1>2 DEF Under

(* A walk is as before, down to an entry that was replaced. *)
LEMMA EditedWalk ==
  ASSUME PG!PagingConstants, NEW m, NEW x, Tree(m), NEW u \in Space, NEW k \in PG!Levels, NEW I, NEW e,
         PG!Reached(m, u, k), Edited(m, x, u, k, I, e), NEW w \in Space
  PROVE  \A l \in PG!Levels : ~(Hit(w, u, k, I) /\ l < k) =>
           /\ PG!Reached(x, w, l) <=> PG!Reached(m, w, l)
           /\ PG!Reached(m, w, l) =>
                /\ PG!TableOf(x, w, l) = PG!TableOf(m, w, l)
                /\ PG!Entry(x, w, l) = IF Hit(w, u, k, I) /\ l = k THEN e[PG!Index(w, k)] ELSE PG!Entry(m, w, l)
<1> DEFINE Kept(l) == ~(Hit(w, u, k, I) /\ l < k)
           Agree(l) == /\ PG!Reached(x, w, l) <=> PG!Reached(m, w, l)
                       /\ PG!Reached(m, w, l) => PG!TableOf(x, w, l) = PG!TableOf(m, w, l)
           Same(l) == PG!Reached(m, w, l) =>
             PG!Entry(x, w, l) = IF Hit(w, u, k, I) /\ l = k THEN e[PG!Index(w, k)] ELSE PG!Entry(m, w, l)
<1>1. ASSUME NEW l \in PG!Levels, Kept(l), Agree(l) PROVE Same(l)
  <2> SUFFICES ASSUME PG!Reached(m, w, l)
               PROVE  PG!Entry(x, w, l) = IF Hit(w, u, k, I) /\ l = k THEN e[PG!Index(w, k)] ELSE PG!Entry(m, w, l)
    OBVIOUS
  <2>1. PICK t : t = PG!TableOf(m, w, l)
    OBVIOUS
  <2>2. t \in DOMAIN m \ Under(m, u, k, I)
    BY <1>1, <2>1, NotUnder
  <2>3. PICK i \in 0 .. F - 1 : i = PG!Index(w, l)
    BY PlaceFacts
  <2>4. x[t][i] = IF t = PG!TableOf(m, u, k) /\ i \in I THEN e[i] ELSE m[t][i]
    BY <2>2 DEF Edited
  <2>5. PG!Entry(x, w, l) = x[t][i] /\ PG!Entry(m, w, l) = m[t][i]
    BY <1>1, <2>1, <2>3 DEF PG!Entry
  <2>6. t = PG!TableOf(m, u, k) => l = k /\ Zone(w, l) = Zone(u, k)
    <3>1. OneZone(m)
      BY DEF Tree
    <3>2. PG!Reached(m, w, l) /\ PG!Reached(m, u, k) /\ PG!TableOf(m, w, l) = PG!TableOf(m, u, k)
            => l = k /\ Zone(w, l) = Zone(u, k)
      BY ONLY <3>1, w \in Space, u \in Space, l \in PG!Levels, k \in PG!Levels DEF OneZone
    <3> QED
      BY <2>1, <3>2
  <2>7. l = k /\ Zone(w, l) = Zone(u, k) => t = PG!TableOf(m, u, k)
    <3> SUFFICES ASSUME l = k, Zone(w, k) = Zone(u, k) PROVE PG!TableOf(m, w, k) = PG!TableOf(m, u, k)
      BY <2>1
    <3>1. k >= k
      BY DEF PG!Levels
    <3> QED
      BY <3>1, SameWalk
  <2>8. t = PG!TableOf(m, u, k) /\ i \in I <=> Hit(w, u, k, I) /\ l = k
    BY <2>3, <2>6, <2>7 DEF Hit
  <2> QED
    BY <2>3, <2>4, <2>5, <2>8
<1>2. Agree(3)
  BY WalkDown
<1>3. ASSUME NEW l \in 0 .. 2, Kept(l), Agree(l + 1) PROVE Agree(l)
  <2>1. l + 1 \in PG!Levels /\ l \in PG!Levels /\ Kept(l + 1)
    BY <1>3 DEF PG!Levels
  <2>2. Same(l + 1)
    BY <1>1, <1>3, <2>1
  <2>3. ~(Hit(w, u, k, I) /\ l + 1 = k)
    BY <1>3
  <2>4. PG!Reached(m, w, l + 1) => PG!Entry(x, w, l + 1) = PG!Entry(m, w, l + 1)
    BY <2>2, <2>3
  <2>5. /\ PG!Reached(m, w, l) <=> PG!Reached(m, w, l + 1) /\ PG!Entry(m, w, l + 1).kind = "table"
        /\ PG!TableOf(m, w, l) = PG!Entry(m, w, l + 1).to
    BY WalkDown
  <2>6. /\ PG!Reached(x, w, l) <=> PG!Reached(x, w, l + 1) /\ PG!Entry(x, w, l + 1).kind = "table"
        /\ PG!TableOf(x, w, l) = PG!Entry(x, w, l + 1).to
    BY WalkDown
  <2> QED
    BY <1>3, <2>4, <2>5, <2>6
<1>4. \A l \in 0 .. 2 : Kept(l) => Kept(l + 1)
  BY DEF PG!Levels
<1> HIDE DEF Agree, Same, Kept
<1>5. Kept(2) => Agree(2)
  BY <1>2, <1>3
<1>6. Kept(1) => Agree(1)
  BY <1>3, <1>4, <1>5
<1>7. Kept(0) => Agree(0)
  BY <1>3, <1>4, <1>6
<1>8. \A l \in PG!Levels : Kept(l) => Agree(l)
  BY <1>2, <1>5, <1>6, <1>7 DEF PG!Levels
<1>9. \A l \in PG!Levels : Kept(l) => Agree(l) /\ Same(l)
  BY <1>1, <1>8
<1> QED
  BY <1>9 DEF Agree, Same, Kept


(* Entries of one table that translate or not, but point to no table, replace what was there with *)
(* the tables below: the tables are a tree, and exactly the walks through these entries change.   *)
LEMMA EditLeaves ==
  ASSUME PG!PagingConstants, NEW m, NEW x, Tree(m), NEW u \in Space, NEW k \in 0 .. 2, NEW I, NEW e,
         PG!Reached(m, u, k), Edited(m, x, u, k, I, e), DOMAIN x = DOMAIN m \ Under(m, u, k, I), Memory(x),
         \A i \in I : e[i].kind # "table"
  PROVE  /\ Tree(x)
         /\ \A w \in Space : ~Hit(w, u, k, I) =>
              PG!EndLevel(x, w) = PG!EndLevel(m, w) /\ PG!Entry(x, w, PG!EndLevel(m, w)) = PG!Entry(m, w, PG!EndLevel(m, w))
         /\ \A w \in Space : Hit(w, u, k, I) => PG!EndLevel(x, w) = k /\ PG!Entry(x, w, k) = e[PG!Index(w, k)]
<1>0. k \in PG!Levels /\ 3 \in PG!Levels /\ 0 \in PG!Levels
  BY DEF PG!Levels
<1>1. \A w \in Space : Hit(w, u, k, I) => PG!Reached(m, w, k)
  <2> SUFFICES ASSUME NEW w \in Space, Hit(w, u, k, I) PROVE PG!Reached(m, w, k)
    OBVIOUS
  <2>1. Zone(w, k) = Zone(u, k) /\ k >= k
    BY DEF Hit
  <2> QED
    BY <1>0, <2>1, SameWalk
<1>2. ASSUME NEW w \in Space, NEW l \in PG!Levels, ~(Hit(w, u, k, I) /\ l < k)
      PROVE  /\ PG!Reached(x, w, l) <=> PG!Reached(m, w, l)
             /\ PG!Reached(m, w, l) => /\ PG!TableOf(x, w, l) = PG!TableOf(m, w, l)
                                    /\ PG!TableOf(m, w, l) \in DOMAIN x
                                    /\ PG!Entry(x, w, l) = IF Hit(w, u, k, I) /\ l = k THEN e[PG!Index(w, k)] ELSE PG!Entry(m, w, l)
  <2>1. /\ PG!Reached(x, w, l) <=> PG!Reached(m, w, l)
        /\ PG!Reached(m, w, l) => /\ PG!TableOf(x, w, l) = PG!TableOf(m, w, l)
                               /\ PG!Entry(x, w, l) = IF Hit(w, u, k, I) /\ l = k THEN e[PG!Index(w, k)] ELSE PG!Entry(m, w, l)
    BY <1>0, <1>2, EditedWalk
  <2>2. PG!Reached(m, w, l) => PG!TableOf(m, w, l) \in DOMAIN m \ Under(m, u, k, I)
    BY <1>0, <1>2, NotUnder
  <2> QED
    BY <2>1, <2>2
<1>3. ASSUME NEW w \in Space, Hit(w, u, k, I)
      PROVE  /\ PG!Reached(x, w, k) /\ PG!Entry(x, w, k) = e[PG!Index(w, k)] /\ PG!Entry(x, w, k).kind # "table"
             /\ \A l \in PG!Levels : l < k => ~PG!Reached(x, w, l)
  <2>1. ~(Hit(w, u, k, I) /\ k < k) /\ PG!Index(w, k) \in I
    BY <1>3 DEF Hit
  <2>2. PG!Reached(m, w, k)
    BY <1>1, <1>3
  <2>3. PG!Reached(x, w, k) /\ PG!Entry(x, w, k) = e[PG!Index(w, k)]
    BY <1>0, <1>2, <1>3, <2>1, <2>2
  <2>4. PG!Entry(x, w, k).kind # "table"
    BY <2>1, <2>3
  <2>5. \A l \in PG!Levels : l < k /\ PG!Reached(x, w, l) => PG!Entry(x, w, k).kind = "table"
    BY <1>0, ReachedAbove
  <2> QED
    BY <2>3, <2>4, <2>5
<1>4. ASSUME NEW w \in Space, NEW l \in PG!Levels, PG!Reached(x, w, l)
      PROVE  /\ ~(Hit(w, u, k, I) /\ l < k) /\ PG!Reached(m, w, l) /\ PG!TableOf(x, w, l) = PG!TableOf(m, w, l)
             /\ PG!TableOf(x, w, l) \in DOMAIN x
  BY <1>2, <1>3, <1>4
<1>5. Walks(x)
  <2>1. \A w \in Space, l \in PG!Levels : PG!Reached(x, w, l) => PG!TableOf(x, w, l) \in DOMAIN x
    BY <1>4
  <2>2. ASSUME NEW w \in Space, PG!Reached(x, w, 0) PROVE PG!Entry(x, w, 0).kind # "table"
    <3>1. CASE Hit(w, u, k, I)
      <4>1. k = 0
        BY <1>0, <1>4, <2>2, <3>1
      <4> QED
        BY <1>3, <3>1, <4>1
    <3>2. CASE ~Hit(w, u, k, I)
      <4>1. PG!Reached(m, w, 0) /\ PG!Entry(x, w, 0) = PG!Entry(m, w, 0)
        BY <1>0, <1>2, <2>2, <3>2
      <4> QED
        BY <4>1 DEF Tree, Walks
    <3> QED
      BY <3>1, <3>2
  <2>3. ASSUME NEW w \in Space PROVE PG!Entry(x, w, 3).kind # "page"
    <3>1. PG!Reached(m, w, 3) /\ ~(Hit(w, u, k, I) /\ 3 < k) /\ k # 3
      BY WalkDown
    <3>2. PG!Entry(x, w, 3) = PG!Entry(m, w, 3)
      BY <1>0, <1>2, <3>1
    <3> QED
      BY <3>2 DEF Tree, Walks
  <2> QED
    BY <2>1, <2>2, <2>3 DEF Walks
<1>6. OneZone(x)
  <2> SUFFICES ASSUME NEW v \in Space, NEW w \in Space, NEW j \in PG!Levels, NEW l \in PG!Levels,
                      PG!Reached(x, v, j), PG!Reached(x, w, l), PG!TableOf(x, v, j) = PG!TableOf(x, w, l)
               PROVE  j = l /\ Zone(v, j) = Zone(w, l)
    BY DEF OneZone
  <2>1. PG!Reached(m, v, j) /\ PG!Reached(m, w, l) /\ PG!TableOf(m, v, j) = PG!TableOf(m, w, l)
    BY <1>4
  <2>2. OneZone(m)
    BY DEF Tree
  <2> QED
    BY ONLY <2>1, <2>2, v \in Space, w \in Space, j \in PG!Levels, l \in PG!Levels DEF OneZone
<1>7. Placed(x)
  <2> SUFFICES ASSUME NEW t \in DOMAIN x
               PROVE  \E v \in Space, l \in PG!Levels : PG!Reached(x, v, l) /\ PG!TableOf(x, v, l) = t
    BY DEF Placed
  <2>1. t \in DOMAIN m /\ t \notin Under(m, u, k, I)
    OBVIOUS
  <2>2. PICK v \in Space, l \in PG!Levels : PG!Reached(m, v, l) /\ PG!TableOf(m, v, l) = t
    BY <2>1 DEF Tree, Placed
  <2>3. ~(Hit(v, u, k, I) /\ l < k)
    BY <2>1, <2>2 DEF Under
  <2> QED
    BY <1>2, <2>2, <2>3
<1>8. Tree(x)
  BY <1>5, <1>6, <1>7 DEF Tree
<1>9. ASSUME NEW w \in Space, ~Hit(w, u, k, I)
      PROVE  PG!EndLevel(x, w) = PG!EndLevel(m, w) /\ PG!Entry(x, w, PG!EndLevel(m, w)) = PG!Entry(m, w, PG!EndLevel(m, w))
  <2>1. PICK l \in PG!Levels : l = PG!EndLevel(m, w) /\ PG!Reached(m, w, l) /\ PG!Entry(m, w, l).kind # "table"
    BY Ends
  <2>2. PG!Reached(x, w, l) /\ PG!Entry(x, w, l) = PG!Entry(m, w, l)
    BY <1>2, <1>9, <2>1
  <2>3. PG!EndLevel(x, w) = l
    BY <1>8, <2>1, <2>2, Ends
  <2> QED
    BY <2>1, <2>2, <2>3
<1>10. ASSUME NEW w \in Space, Hit(w, u, k, I) PROVE PG!EndLevel(x, w) = k /\ PG!Entry(x, w, k) = e[PG!Index(w, k)]
  <2>1. PG!Reached(x, w, k) /\ PG!Entry(x, w, k).kind # "table" /\ PG!Entry(x, w, k) = e[PG!Index(w, k)]
    BY <1>3, <1>10
  <2> QED
    BY <1>0, <1>8, <2>1, Ends
<1> QED
  BY <1>8, <1>9, <1>10


(* An entry that points to no table gets an empty one: the tables are a tree, and the addresses *)
(* of the entry are not mapped.                                                                *)
LEMMA EditTable ==
  ASSUME PG!PagingConstants, NEW m, NEW x, Tree(m), NEW u \in Space, NEW k \in 1 .. 3, NEW f \in Nat, NEW e,
         PG!Reached(m, u, k), PG!Entry(m, u, k).kind # "table", f \notin DOMAIN m,
         DOMAIN x = DOMAIN m \cup {f}, Memory(x), x[f] = PG!Blank,
         Edited(m, x, u, k, {PG!Index(u, k)}, e), e[PG!Index(u, k)] = PG!Table(f)
  PROVE  /\ Tree(x)
         /\ \A w \in Space : w \div PG!Size(k) # u \div PG!Size(k) =>
              PG!EndLevel(x, w) = PG!EndLevel(m, w) /\ PG!Entry(x, w, PG!EndLevel(m, w)) = PG!Entry(m, w, PG!EndLevel(m, w))
         /\ \A w \in Space : w \div PG!Size(k) = u \div PG!Size(k) =>
              /\ PG!EndLevel(x, w) = k - 1 /\ PG!Entry(x, w, k - 1) = PG!None
              /\ PG!EndLevel(m, w) = k /\ PG!Entry(m, w, k) = PG!Entry(m, u, k)
         /\ PG!Reached(x, u, k - 1)
<1> DEFINE I == {PG!Index(u, k)}
<1>0. k \in PG!Levels /\ k - 1 \in PG!Levels /\ k - 1 \in 0 .. 2 /\ 3 \in PG!Levels /\ 0 \in PG!Levels /\ k - 1 + 1 = k
  BY DEF PG!Levels
<1>1. \A w \in Space : Hit(w, u, k, I) <=> w \div PG!Size(k) = u \div PG!Size(k)
  BY <1>0, SamePlace DEF Hit
<1>2. \A w \in Space : Hit(w, u, k, I) => PG!Reached(m, w, k) /\ PG!Entry(m, w, k) = PG!Entry(m, u, k)
  <2> SUFFICES ASSUME NEW w \in Space, Hit(w, u, k, I) PROVE PG!Reached(m, w, k) /\ PG!Entry(m, w, k) = PG!Entry(m, u, k)
    OBVIOUS
  <2>1. Zone(w, k) = Zone(u, k) /\ k >= k /\ PG!Index(w, k) = PG!Index(u, k)
    BY DEF Hit
  <2>2. PG!Reached(m, w, k) /\ PG!TableOf(m, w, k) = PG!TableOf(m, u, k)
    BY <1>0, <2>1, SameWalk
  <2> QED
    BY <2>1, <2>2 DEF PG!Entry
<1>3. \A w \in Space, l \in PG!Levels : Hit(w, u, k, I) /\ l < k => ~PG!Reached(m, w, l)
  <2> SUFFICES ASSUME NEW w \in Space, NEW l \in PG!Levels, Hit(w, u, k, I), l < k, PG!Reached(m, w, l) PROVE FALSE
    OBVIOUS
  <2>1. PG!Entry(m, w, k).kind # "table"
    BY <1>2
  <2>2. k > l
    BY <1>0 DEF PG!Levels
  <2>3. PG!Entry(m, w, k).kind = "table"
    BY ONLY l \in PG!Levels, PG!Reached(m, w, l), <1>0, <2>2, ReachedAbove
  <2> QED
    BY <2>1, <2>3
<1>4. Under(m, u, k, I) = {}
  BY <1>3 DEF Under
<1>5. ASSUME NEW w \in Space, NEW l \in PG!Levels, ~(Hit(w, u, k, I) /\ l < k)
      PROVE  /\ PG!Reached(x, w, l) <=> PG!Reached(m, w, l)
             /\ PG!Reached(m, w, l) => /\ PG!TableOf(x, w, l) = PG!TableOf(m, w, l)
                                    /\ PG!TableOf(m, w, l) \in DOMAIN m
                                    /\ PG!Entry(x, w, l) = IF Hit(w, u, k, I) /\ l = k THEN e[PG!Index(w, k)] ELSE PG!Entry(m, w, l)
  <2>1. /\ PG!Reached(x, w, l) <=> PG!Reached(m, w, l)
        /\ PG!Reached(m, w, l) => /\ PG!TableOf(x, w, l) = PG!TableOf(m, w, l)
                               /\ PG!Entry(x, w, l) = IF Hit(w, u, k, I) /\ l = k THEN e[PG!Index(w, k)] ELSE PG!Entry(m, w, l)
    <3>1. Edited(m, x, u, k, I, e)
      OBVIOUS
    <3> HIDE DEF I
    <3> QED
      <4>1. k \in PG!Levels /\ w \in Space
        BY <1>0
      <4>2. \A j \in PG!Levels : ~(Hit(w, u, k, I) /\ j < k) =>
              /\ PG!Reached(x, w, j) <=> PG!Reached(m, w, j)
              /\ PG!Reached(m, w, j) =>
                   /\ PG!TableOf(x, w, j) = PG!TableOf(m, w, j)
                   /\ PG!Entry(x, w, j) = IF Hit(w, u, k, I) /\ j = k THEN e[PG!Index(w, k)] ELSE PG!Entry(m, w, j)
        BY ONLY PG!PagingConstants, Tree(m), u \in Space, PG!Reached(m, u, k), <3>1, <4>1, EditedWalk, SMTT(30)
      <4> QED
        BY <1>5, <4>2
  <2>2. PG!Reached(m, w, l) => PG!TableOf(m, w, l) \in DOMAIN m
    BY EntryOf
  <2> QED
    BY <2>1, <2>2
<1>6. ASSUME NEW w \in Space, Hit(w, u, k, I)
      PROVE  /\ PG!Reached(x, w, k) /\ PG!Entry(x, w, k) = PG!Table(f) /\ PG!Reached(x, w, k - 1)
             /\ PG!TableOf(x, w, k - 1) = f /\ PG!Entry(x, w, k - 1) = PG!None
             /\ \A l \in PG!Levels : l < k - 1 => ~PG!Reached(x, w, l)
  <2>1. PG!Index(w, k) = PG!Index(u, k)
    BY <1>6 DEF Hit
  <2>2. PG!Reached(x, w, k) /\ PG!Entry(x, w, k) = PG!Table(f)
    <3>1. k \in PG!Levels /\ ~(k < k)
      BY <1>0 DEF PG!Levels
    <3>2. /\ PG!Reached(x, w, k) <=> PG!Reached(m, w, k)
          /\ PG!Reached(m, w, k) => PG!Entry(x, w, k) = IF Hit(w, u, k, I) /\ k = k THEN e[PG!Index(w, k)] ELSE PG!Entry(m, w, k)
      BY <1>5, <3>1, Zenon
    <3>3. PG!Reached(m, w, k)
      BY <1>2, <1>6
    <3> QED
      BY <1>6, <2>1, <3>2, <3>3
  <2>3. PG!Entry(x, w, k).kind = "table" /\ PG!Entry(x, w, k).to = f
    BY <2>2 DEF PG!Table
  <2>4. PG!Reached(x, w, k - 1) /\ PG!TableOf(x, w, k - 1) = f
    <3>1. PICK j \in 0 .. 2 : j = k - 1 /\ k = j + 1
      OBVIOUS
    <3>2. PG!Reached(x, w, j + 1) /\ PG!Entry(x, w, j + 1).kind = "table" /\ PG!Entry(x, w, j + 1).to = f
      BY <2>2, <2>3, <3>1
    <3>3. /\ PG!Reached(x, w, j) <=> PG!Reached(x, w, j + 1) /\ PG!Entry(x, w, j + 1).kind = "table"
          /\ PG!TableOf(x, w, j) = PG!Entry(x, w, j + 1).to
      BY WalkDown
    <3> QED
      BY <3>1, <3>2, <3>3
  <2>5. PG!Entry(x, w, k - 1) = PG!None
    <3>1. PG!Entry(x, w, k - 1) = x[f][PG!Index(w, k - 1)] /\ PG!Index(w, k - 1) \in 0 .. F - 1
      BY <1>0, <2>4, PlaceFacts DEF PG!Entry
    <3> QED
      BY <3>1 DEF PG!Blank
  <2>6. \A l \in PG!Levels : l < k - 1 /\ PG!Reached(x, w, l) => PG!Entry(x, w, k - 1).kind = "table"
    BY <1>0, ReachedAbove
  <2>7. PG!None.kind # "table"
    BY DEF PG!None
  <2> QED
    BY <2>2, <2>4, <2>5, <2>6, <2>7
<1>7. ASSUME NEW w \in Space, NEW l \in PG!Levels, PG!Reached(x, w, l)
      PROVE  \/ ~(Hit(w, u, k, I) /\ l < k) /\ PG!Reached(m, w, l) /\ PG!TableOf(x, w, l) = PG!TableOf(m, w, l)
                  /\ PG!TableOf(x, w, l) \in DOMAIN m
             \/ Hit(w, u, k, I) /\ l = k - 1 /\ PG!TableOf(x, w, l) = f
  <2>1. CASE Hit(w, u, k, I) /\ l < k
    <3>1. ~(l < k - 1)
      BY <1>6, <1>7, <2>1
    <3>2. l = k - 1
      BY <2>1, <3>1 DEF PG!Levels
    <3> QED
      BY <1>6, <2>1, <3>2
  <2>2. CASE ~(Hit(w, u, k, I) /\ l < k)
    BY <1>5, <1>7, <2>2
  <2> QED
    BY <2>1, <2>2
<1>8. Walks(x)
  <2>1. \A w \in Space, l \in PG!Levels : PG!Reached(x, w, l) => PG!TableOf(x, w, l) \in DOMAIN x
    BY <1>7
  <2>2. ASSUME NEW w \in Space, PG!Reached(x, w, 0) PROVE PG!Entry(x, w, 0).kind # "table"
    <3>1. CASE Hit(w, u, k, I)
      <4>1. k - 1 = 0
        <5>1. 0 \in PG!Levels /\ 0 < k
          BY <1>0
        <5>2. ~(Hit(w, u, k, I) /\ 0 < k) \/ (Hit(w, u, k, I) /\ 0 = k - 1)
          BY <1>7, <2>2, <5>1
        <5> QED
          BY <3>1, <5>1, <5>2
      <4>2. PG!Entry(x, w, 0) = PG!None
        BY <1>6, <3>1, <4>1
      <4> QED
        BY <4>2 DEF PG!None
    <3>2. CASE ~Hit(w, u, k, I)
      <4>1. PG!Reached(m, w, 0) /\ PG!Entry(x, w, 0) = PG!Entry(m, w, 0)
        BY <1>0, <1>5, <2>2, <3>2
      <4> QED
        BY <4>1 DEF Tree, Walks
    <3> QED
      BY <3>1, <3>2
  <2>3. ASSUME NEW w \in Space PROVE PG!Entry(x, w, 3).kind # "page"
    <3>1. PG!Reached(m, w, 3) /\ ~(Hit(w, u, k, I) /\ 3 < k)
      BY WalkDown
    <3>2. PG!Entry(x, w, 3) = IF Hit(w, u, k, I) /\ 3 = k THEN e[PG!Index(w, k)] ELSE PG!Entry(m, w, 3)
      BY <1>0, <1>5, <3>1
    <3>3. CASE Hit(w, u, k, I) /\ 3 = k
      <4>1. PG!Entry(x, w, 3) = PG!Table(f)
        BY <1>6, <3>3
      <4> QED
        BY <4>1 DEF PG!Table
    <3>4. CASE ~(Hit(w, u, k, I) /\ 3 = k)
      BY <3>2, <3>4 DEF Tree, Walks
    <3> QED
      BY <3>3, <3>4
  <2> QED
    BY <2>1, <2>2, <2>3 DEF Walks
<1>9. OneZone(x)
  <2> SUFFICES ASSUME NEW v \in Space, NEW w \in Space, NEW j \in PG!Levels, NEW l \in PG!Levels,
                      PG!Reached(x, v, j), PG!Reached(x, w, l), PG!TableOf(x, v, j) = PG!TableOf(x, w, l)
               PROVE  j = l /\ Zone(v, j) = Zone(w, l)
    BY DEF OneZone
  <2>1. CASE PG!TableOf(x, v, j) # f
    <3>1. PG!Reached(m, v, j) /\ PG!Reached(m, w, l) /\ PG!TableOf(m, v, j) = PG!TableOf(m, w, l)
      BY <1>7, <2>1
    <3>2. OneZone(m)
      BY DEF Tree
    <3> QED
      BY ONLY <3>1, <3>2, v \in Space, w \in Space, j \in PG!Levels, l \in PG!Levels DEF OneZone
  <2>2. CASE PG!TableOf(x, v, j) = f
    <3>1. Hit(v, u, k, I) /\ Hit(w, u, k, I) /\ j = k - 1 /\ l = k - 1
      BY <1>7, <2>2
    <3>2. v \div PG!Size(k) = w \div PG!Size(k)
      BY <1>1, <3>1
    <3>3. Zone(v, k - 1) = v \div PG!Size(k) /\ Zone(w, k - 1) = w \div PG!Size(k)
      BY <1>0 DEF Zone
    <3> QED
      BY <3>1, <3>2, <3>3
  <2> QED
    BY <2>1, <2>2
<1>10. Placed(x)
  <2> SUFFICES ASSUME NEW t \in DOMAIN x
               PROVE  \E v \in Space, l \in PG!Levels : PG!Reached(x, v, l) /\ PG!TableOf(x, v, l) = t
    BY DEF Placed
  <2>1. CASE t = f
    BY <1>0, <1>1, <1>6, <2>1
  <2>2. CASE t # f
    <3>1. PICK v \in Space, l \in PG!Levels : PG!Reached(m, v, l) /\ PG!TableOf(m, v, l) = t
      BY <2>2 DEF Tree, Placed
    <3> QED
      BY <1>3, <1>5, <3>1
  <2> QED
    BY <2>1, <2>2
<1>11. Tree(x)
  BY <1>8, <1>9, <1>10 DEF Tree
<1>12. ASSUME NEW w \in Space, ~Hit(w, u, k, I)
       PROVE  PG!EndLevel(x, w) = PG!EndLevel(m, w) /\ PG!Entry(x, w, PG!EndLevel(m, w)) = PG!Entry(m, w, PG!EndLevel(m, w))
  <2>1. PICK l \in PG!Levels : l = PG!EndLevel(m, w) /\ PG!Reached(m, w, l) /\ PG!Entry(m, w, l).kind # "table"
    BY Ends
  <2>2. PG!Reached(x, w, l) /\ PG!Entry(x, w, l) = PG!Entry(m, w, l)
    BY <1>5, <1>12, <2>1
  <2>3. PG!EndLevel(x, w) = l
    BY <1>11, <2>1, <2>2, Ends
  <2> QED
    BY <2>1, <2>2, <2>3
<1>13. ASSUME NEW w \in Space, Hit(w, u, k, I)
       PROVE  /\ PG!EndLevel(x, w) = k - 1 /\ PG!Entry(x, w, k - 1) = PG!None
              /\ PG!EndLevel(m, w) = k /\ PG!Entry(m, w, k) = PG!Entry(m, u, k)
  <2>1. PG!Reached(x, w, k - 1) /\ PG!Entry(x, w, k - 1) = PG!None
    BY <1>6, <1>13
  <2>2. PG!Entry(x, w, k - 1).kind # "table"
    BY <2>1 DEF PG!None
  <2>3. PG!EndLevel(x, w) = k - 1
    BY <1>0, <1>11, <2>1, <2>2, Ends
  <2>4. PG!Reached(m, w, k) /\ PG!Entry(m, w, k) = PG!Entry(m, u, k)
    BY <1>2, <1>13
  <2>5. PG!EndLevel(m, w) = k
    BY <1>0, <2>4, Ends
  <2> QED
    BY <2>1, <2>3, <2>4, <2>5
<1>14. PG!Reached(x, u, k - 1)
  BY <1>1, <1>6
<1> HIDE DEF I
<1> QED
  BY <1>1, <1>11, <1>12, <1>13, <1>14


-----------------------------------------------------------------------------
(* the module of the page tables counts as this one does *)
LEMMA FrameCount == \A S : PG!Cardinality(S) = Cardinality(S)
  BY Zenon DEF PG!Cardinality, Cardinality

(* alloc_pages finds a frame that holds no table. *)
LEMMA Fresh ==
  ASSUME NEW m, Memory(m)
  PROVE  PG!FreshFrame(m) \in Nat /\ PG!FreshFrame(m) \notin DOMAIN m
<1>1. PICK n \in Nat : n = Cardinality(DOMAIN m)
  BY FS_CardinalityType DEF Memory
<1>2. \E t \in 0 .. n : t \notin DOMAIN m
  <2> SUFFICES ASSUME 0 .. n \subseteq DOMAIN m PROVE FALSE
    OBVIOUS
  <2>1. Cardinality(0 .. n) <= Cardinality(DOMAIN m)
    BY FS_Subset DEF Memory
  <2>2. Cardinality(0 .. n) = n + 1
    BY FS_Interval
  <2> QED
    BY <1>1, <2>1, <2>2
<1>3. PG!FreshFrame(m) \in 0 .. n /\ PG!FreshFrame(m) \notin DOMAIN m
  <2>1. PG!FreshFrame(m) = CHOOSE t \in 0 .. n : t \notin DOMAIN m
    BY <1>1, FrameCount, Zenon DEF PG!FreshFrame
  <2> QED
    BY <1>2, <2>1, Zenon
<1> QED
  BY <1>3

(* Walks for u have been opened down to level k: an address is mapped as before, or it shared a *)
(* page larger than level k with u and is not mapped any more.                                  *)
Opens(m, x, u, k) ==
  \A w \in Space :
    \/ PG!EndLevel(x, w) = PG!EndLevel(m, w) /\ PG!Entry(x, w, PG!EndLevel(m, w)) = PG!Entry(m, w, PG!EndLevel(m, w))
    \/ /\ PG!EndLevel(m, w) > k
       /\ w \div PG!Size(PG!EndLevel(m, w)) = u \div PG!Size(PG!EndLevel(m, w))
       /\ PG!Entry(x, w, PG!EndLevel(x, w)) = PG!None

(* Opening further down opens. *)
LEMMA OpensTwice ==
  ASSUME NEW m, NEW x, NEW y, Tree(m), NEW u, NEW j \in PG!Levels, NEW k \in PG!Levels, k <= j,
         Opens(m, x, u, j), Opens(x, y, u, k)
  PROVE  Opens(m, y, u, k)
<1> SUFFICES ASSUME NEW w \in Space
             PROVE  \/ PG!EndLevel(y, w) = PG!EndLevel(m, w) /\ PG!Entry(y, w, PG!EndLevel(m, w)) = PG!Entry(m, w, PG!EndLevel(m, w))
                    \/ /\ PG!EndLevel(m, w) > k
                       /\ w \div PG!Size(PG!EndLevel(m, w)) = u \div PG!Size(PG!EndLevel(m, w))
                       /\ PG!Entry(y, w, PG!EndLevel(y, w)) = PG!None
  BY DEF Opens
<1>1. PG!EndLevel(m, w) \in PG!Levels
  BY Ends
<1>2. \/ PG!EndLevel(x, w) = PG!EndLevel(m, w) /\ PG!Entry(x, w, PG!EndLevel(m, w)) = PG!Entry(m, w, PG!EndLevel(m, w))
      \/ /\ PG!EndLevel(m, w) > k
         /\ w \div PG!Size(PG!EndLevel(m, w)) = u \div PG!Size(PG!EndLevel(m, w))
         /\ PG!Entry(x, w, PG!EndLevel(x, w)) = PG!None
  BY <1>1 DEF Opens, PG!Levels
<1>3. \/ PG!EndLevel(y, w) = PG!EndLevel(x, w) /\ PG!Entry(y, w, PG!EndLevel(x, w)) = PG!Entry(x, w, PG!EndLevel(x, w))
      \/ /\ PG!EndLevel(x, w) > k
         /\ w \div PG!Size(PG!EndLevel(x, w)) = u \div PG!Size(PG!EndLevel(x, w))
         /\ PG!Entry(y, w, PG!EndLevel(y, w)) = PG!None
  BY DEF Opens
<1> QED
  BY <1>2, <1>3

(* What WithTable makes of a tree: the walk for u comes one level further down. *)
LEMMA WithTableSound ==
  ASSUME PG!PagingConstants, NEW m, Tree(m), NEW u \in Space, NEW k \in 1 .. 3, PG!Reached(m, u, k),
         NEW x, x = PG!WithTable(m, PG!TableOf(m, u, k), PG!Index(u, k))
  PROVE  Tree(x) /\ PG!Reached(x, u, k - 1) /\ Opens(m, x, u, k - 1)
<1>0. k \in PG!Levels /\ k - 1 \in PG!Levels /\ k - 1 < k
  BY DEF PG!Levels
<1>1. PICK t \in DOMAIN m, i \in 0 .. F - 1 : t = PG!TableOf(m, u, k) /\ i = PG!Index(u, k) /\ PG!Entry(m, u, k) = m[t][i]
  BY <1>0, EntryOf DEF PG!Entry
<1>2. CASE m[t][i].kind = "table"
  <2>1. x = m
    BY <1>1, <1>2 DEF PG!WithTable
  <2>2. PICK j \in 0 .. 2 : j = k - 1 /\ k = j + 1
    OBVIOUS
  <2>3. PG!Reached(m, u, j) <=> PG!Reached(m, u, j + 1) /\ PG!Entry(m, u, j + 1).kind = "table"
    BY WalkDown
  <2> QED
    BY <1>1, <1>2, <2>1, <2>2, <2>3 DEF Opens
<1>3. CASE m[t][i].kind # "table"
  <2>1. PICK f \in Nat : f = PG!FreshFrame(m) /\ f \notin DOMAIN m
    BY Fresh DEF Tree
  <2>2. PICK b : b = PG!alloc_pages(m)
    OBVIOUS
  <2>3. /\ b = [s \in DOMAIN m \cup {f} |-> IF s \in DOMAIN m THEN m[s] ELSE PG!Blank]
        /\ x = [b EXCEPT ![t][i] = PG!Table(f)]
    BY <1>1, <1>3, <2>1, <2>2 DEF PG!WithTable, PG!alloc_pages
  <2>4. m \in [DOMAIN m -> [0 .. F - 1 -> EntrySet]] /\ IsFiniteSet(DOMAIN m) /\ DOMAIN m \subseteq Nat /\ PG!KernelPML4 \in DOMAIN m
    BY DEF Tree, Memory
  <2>5. PG!Blank \in [0 .. F - 1 -> EntrySet] /\ PG!Table(f) \in EntrySet
    BY DEF PG!Blank, EntrySet
  <2>6. /\ DOMAIN x = DOMAIN m \cup {f} /\ x \in [DOMAIN m \cup {f} -> [0 .. F - 1 -> EntrySet]]
        /\ x[f] = PG!Blank
        /\ \A s \in DOMAIN m, j \in 0 .. F - 1 : x[s][j] = IF s = t /\ j = i THEN PG!Table(f) ELSE m[s][j]
    <3>1. b \in [DOMAIN m \cup {f} -> [0 .. F - 1 -> EntrySet]]
      BY <2>3, <2>4, <2>5
    <3>2. PICK r : r = [b[t] EXCEPT ![i] = PG!Table(f)]
      OBVIOUS
    <3>3. b[t] = m[t] /\ t # f /\ b[f] = PG!Blank
      BY <2>1, <2>3
    <3>4. r \in [0 .. F - 1 -> EntrySet] /\ \A j \in 0 .. F - 1 : r[j] = IF j = i THEN PG!Table(f) ELSE m[t][j]
      BY <2>4, <2>5, <3>2, <3>3
    <3>5. x = [b EXCEPT ![t] = r]
      BY <2>3, <3>2
    <3>6. DOMAIN x = DOMAIN m \cup {f} /\ x \in [DOMAIN m \cup {f} -> [0 .. F - 1 -> EntrySet]] /\ x[t] = r
      BY <3>1, <3>4, <3>5
    <3>7. \A s \in DOMAIN m \cup {f} : s # t => x[s] = b[s]
      BY <3>1, <3>5
    <3>8. \A s \in DOMAIN m : s # t => x[s] = m[s]
      BY <2>3, <3>7
    <3> QED
      BY <3>3, <3>4, <3>6, <3>7, <3>8
  <2>7. Memory(x)
    BY <2>4, <2>6, FS_AddElement DEF Memory
  <2>8. PICK e : e = [j \in {i} |-> PG!Table(f)]
    OBVIOUS
  <2>9. e[PG!Index(u, k)] = PG!Table(f)
    BY <1>1, <2>8
  <2>10. Edited(m, x, u, k, {PG!Index(u, k)}, e)
    BY <1>1, <2>6, <2>8 DEF Edited
  <2>11. PG!Entry(m, u, k).kind # "table"
    BY <1>1, <1>3
  <2>12. /\ Tree(x)
         /\ \A w \in Space : w \div PG!Size(k) # u \div PG!Size(k) =>
              PG!EndLevel(x, w) = PG!EndLevel(m, w) /\ PG!Entry(x, w, PG!EndLevel(m, w)) = PG!Entry(m, w, PG!EndLevel(m, w))
         /\ \A w \in Space : w \div PG!Size(k) = u \div PG!Size(k) =>
              /\ PG!EndLevel(x, w) = k - 1 /\ PG!Entry(x, w, k - 1) = PG!None
              /\ PG!EndLevel(m, w) = k /\ PG!Entry(m, w, k) = PG!Entry(m, u, k)
         /\ PG!Reached(x, u, k - 1)
    <3>1. x[f] = PG!Blank /\ DOMAIN x = DOMAIN m \cup {f}
      BY <2>6
    <3> QED
      BY ONLY PG!PagingConstants, Tree(m), u \in Space, k \in 1 .. 3, PG!Reached(m, u, k), <2>1, <2>7, <2>9, <2>10, <2>11,
         <3>1, EditTable, ZenonT(40)
  <2>13. Opens(m, x, u, k - 1)
    <3> SUFFICES ASSUME NEW w \in Space
                 PROVE  \/ PG!EndLevel(x, w) = PG!EndLevel(m, w) /\ PG!Entry(x, w, PG!EndLevel(m, w)) = PG!Entry(m, w, PG!EndLevel(m, w))
                        \/ /\ PG!EndLevel(m, w) > k - 1
                           /\ w \div PG!Size(PG!EndLevel(m, w)) = u \div PG!Size(PG!EndLevel(m, w))
                           /\ PG!Entry(x, w, PG!EndLevel(x, w)) = PG!None
      BY DEF Opens
    <3> QED
      BY <1>0, <2>12
  <2> QED
    BY <2>12, <2>13
<1> QED
  BY <1>2, <1>3

(* What WithPath makes of a tree: the walk for u comes down to level l. *)
LEMMA WithPathSound ==
  ASSUME PG!PagingConstants, NEW m, Tree(m), NEW u \in Space, NEW l \in 0 .. 2
  PROVE  LET x == PG!WithPath(m, u, l) IN Tree(x) /\ PG!Reached(x, u, l) /\ Opens(m, x, u, l)
<1>0. 0 \in PG!Levels /\ 1 \in PG!Levels /\ 2 \in PG!Levels /\ 3 - 1 = 2 /\ 2 - 1 = 1 /\ 1 - 1 = 0
  BY DEF PG!Levels
<1>1. PICK m2 : m2 = PG!WithTable(m, PG!KernelPML4, PG!Index(u, 3))
  OBVIOUS
<1>2. PICK m1 : m1 = PG!WithTable(m2, PG!PDPT(m2, u), PG!Index(u, 2))
  OBVIOUS
<1>3. PICK m0 : m0 = PG!WithTable(m1, PG!PD(m1, u), PG!Index(u, 1))
  OBVIOUS
<1>4. PG!WithPath(m, u, l) = CASE l = 2 -> m2 [] l = 1 -> m1 [] l = 0 -> m0
  BY <1>1, <1>2, <1>3 DEF PG!WithPath
<1>5. Tree(m2) /\ PG!Reached(m2, u, 2) /\ Opens(m, m2, u, 2)
  <2>1. PG!Reached(m, u, 3) /\ PG!TableOf(m, u, 3) = PG!KernelPML4
    BY WalkDown
  <2> QED
    BY <1>0, <1>1, <2>1, WithTableSound
<1>6. Tree(m1) /\ PG!Reached(m1, u, 1) /\ Opens(m2, m1, u, 1)
  <2>1. PG!TableOf(m2, u, 2) = PG!PDPT(m2, u)
    BY DEF PG!TableOf
  <2> QED
    BY <1>0, <1>2, <1>5, <2>1, WithTableSound
<1>7. Tree(m0) /\ PG!Reached(m0, u, 0) /\ Opens(m1, m0, u, 0)
  <2>1. PG!TableOf(m1, u, 1) = PG!PD(m1, u)
    BY DEF PG!TableOf
  <2> QED
    BY <1>0, <1>3, <1>6, <2>1, WithTableSound
<1>8. Opens(m, m1, u, 1)
  BY <1>0, <1>5, <1>6, OpensTwice
<1>9. Opens(m, m0, u, 0)
  BY <1>0, <1>7, <1>8, OpensTwice
<1> QED
  BY <1>4, <1>5, <1>6, <1>7, <1>8, <1>9


(* S is the set of the entries I of table t *)
EntriesAre(S, m, t, I) == I \subseteq 0 .. F - 1 /\ \A e : e \in S <=> \E i \in I : e = m[t][i]

(* free_pdpt frees exactly the tables below the entries it is given. *)
LEMMA FreedTables ==
  ASSUME PG!PagingConstants, NEW m, Tree(m), NEW u \in Space, NEW k \in 0 .. 2, PG!Reached(m, u, k),
         NEW I, NEW t, t = PG!TableOf(m, u, k), NEW S, EntriesAre(S, m, t, I)
  PROVE  PG!free_pdpt(m, S) = Under(m, u, k, I)
<1> DEFINE T == PG!TablesIn(S)
           Gone == PG!free_pdpt(m, S)
<1>0. k \in PG!Levels /\ k >= k
  BY DEF PG!Levels
<1>1. I \subseteq 0 .. F - 1 /\ \A s : s \in T <=> \E i \in I : m[t][i].kind = "table" /\ m[t][i].to = s
  BY DEF PG!TablesIn, EntriesAre
<1>2. \A s : s \in Gone <=> \/ s \in T
                         \/ \E q \in T : \E i \in DOMAIN m[q] : m[q][i].kind = "table" /\ m[q][i].to = s
  BY DEF PG!free_pdpt, PG!TablesIn
<1> HIDE DEF T, Gone
<1>3. \A w \in Space : Zone(w, k) = Zone(u, k) =>
        PG!Reached(m, w, k) /\ PG!TableOf(m, w, k) = t /\ PG!Entry(m, w, k) = m[t][PG!Index(w, k)]
  <2> SUFFICES ASSUME NEW w \in Space, Zone(w, k) = Zone(u, k)
               PROVE  PG!Reached(m, w, k) /\ PG!TableOf(m, w, k) = t /\ PG!Entry(m, w, k) = m[t][PG!Index(w, k)]
    OBVIOUS
  <2>1. PG!Reached(m, w, k) /\ PG!TableOf(m, w, k) = t
    BY <1>0, SameWalk
  <2> QED
    BY <1>0, <2>1 DEF PG!Entry
<1>4. ASSUME NEW w \in Space, NEW l \in PG!Levels, l < k, Hit(w, u, k, I), PG!Reached(m, w, l)
      PROVE  PG!TableOf(m, w, l) \in Gone
  <2>1. PG!Entry(m, w, k) = m[t][PG!Index(w, k)] /\ PG!Index(w, k) \in I
    BY <1>3, <1>4 DEF Hit
  <2>2. PG!Entry(m, w, k).kind = "table"
    BY <1>0, <1>4, ReachedAbove
  <2>3. PG!Entry(m, w, k).to \in T
    BY <1>1, <2>1, <2>2, ZenonT(40)
  <2>4. CASE l = k - 1
    <3>1. l \in 0 .. 2 /\ l + 1 = k
      BY <1>4, <2>4 DEF PG!Levels
    <3>2. PG!TableOf(m, w, l) = PG!Entry(m, w, l + 1).to
      BY <3>1, WalkDown
    <3> QED
      BY <1>2, <2>3, <3>1, <3>2
  <2>5. CASE l # k - 1
    <3>1. k = 2 /\ l = 0 /\ 1 \in PG!Levels /\ 0 + 1 = 1 /\ 1 + 1 = 2
      BY <1>4, <2>5 DEF PG!Levels
    <3>2. PG!Reached(m, w, 1) /\ PG!Entry(m, w, 1).kind = "table"
      BY <1>4, <3>1, ReachedAbove
    <3>3. PG!TableOf(m, w, 1) = PG!Entry(m, w, 2).to /\ PG!TableOf(m, w, 0) = PG!Entry(m, w, 1).to
      BY <3>1, WalkDown
    <3>4. PICK q \in DOMAIN m, i \in 0 .. F - 1 : q = PG!TableOf(m, w, 1) /\ i = PG!Index(w, 1) /\ PG!Entry(m, w, 1) = m[q][i]
      BY <3>1, <3>2, EntryOf DEF PG!Entry
    <3>5. i \in DOMAIN m[q]
      BY <3>4 DEF Tree, Memory
    <3>6. q \in T
      BY <2>3, <3>1, <3>3, <3>4
    <3>7. \E y \in T : \E j \in DOMAIN m[y] : m[y][j].kind = "table" /\ m[y][j].to = PG!TableOf(m, w, l)
      BY <3>1, <3>2, <3>3, <3>4, <3>5, <3>6
    <3> QED
      BY <1>2, <3>7
  <2> QED
    BY <2>4, <2>5
<1>5. ASSUME NEW s \in T
      PROVE  \E w \in Space : /\ Hit(w, u, k, I) /\ k - 1 \in PG!Levels
                              /\ PG!Reached(m, w, k - 1) /\ PG!TableOf(m, w, k - 1) = s
  <2>1. PICK i \in I : m[t][i].kind = "table" /\ m[t][i].to = s
    BY <1>1, <1>5
  <2>2. i \in 0 .. F - 1
    BY <1>1
  <2>3. PICK w \in Space : Zone(w, k) = Zone(u, k) /\ PG!Index(w, k) = i
    BY <1>0, <2>2, Sibling
  <2>4. PG!Reached(m, w, k) /\ PG!Entry(m, w, k) = m[t][i]
    BY <1>3, <2>3
  <2>5. k # 0
    BY <2>1, <2>4 DEF Tree, Walks
  <2>6. PICK j \in 0 .. 2 : j = k - 1 /\ k = j + 1
    BY <2>5
  <2>7. /\ PG!Reached(m, w, j) <=> PG!Reached(m, w, j + 1) /\ PG!Entry(m, w, j + 1).kind = "table"
        /\ PG!TableOf(m, w, j) = PG!Entry(m, w, j + 1).to
    BY WalkDown
  <2>8. PG!Reached(m, w, j) /\ PG!TableOf(m, w, j) = s
    BY <2>1, <2>4, <2>6, <2>7
  <2>9. Hit(w, u, k, I) /\ j \in PG!Levels
    BY <2>3 DEF Hit, PG!Levels
  <2> QED
    BY <2>6, <2>8, <2>9
<1>6. ASSUME NEW q \in T, NEW i \in DOMAIN m[q], m[q][i].kind = "table"
      PROVE  \E w \in Space, l \in PG!Levels : l < k /\ Hit(w, u, k, I) /\ PG!Reached(m, w, l) /\ PG!TableOf(m, w, l) = m[q][i].to
  <2>1. PICK v \in Space : /\ Hit(v, u, k, I) /\ k - 1 \in PG!Levels
                           /\ PG!Reached(m, v, k - 1) /\ PG!TableOf(m, v, k - 1) = q
    BY <1>5
  <2>2. PICK j \in PG!Levels : j = k - 1 /\ j < k /\ j >= j
    BY <2>1
  <2>3. q \in DOMAIN m /\ i \in 0 .. F - 1
    <3>1. q \in DOMAIN m
      BY <2>1, <2>2, EntryOf
    <3> QED
      BY <1>6, <3>1 DEF Tree, Memory
  <2>4. PICK w \in Space : Zone(w, j) = Zone(v, j) /\ PG!Index(w, j) = i
    BY <2>2, <2>3, Sibling
  <2>5. PG!Reached(m, w, j) /\ PG!TableOf(m, w, j) = q
    BY <2>1, <2>2, <2>4, SameWalk
  <2>6. PG!Entry(m, w, j) = m[q][i]
    BY <2>4, <2>5 DEF PG!Entry
  <2>7. j # 0
    BY <1>6, <2>5, <2>6 DEF Tree, Walks
  <2>8. PICK l \in 0 .. 2 : j = l + 1 /\ l < k /\ l \in PG!Levels
    BY <2>2, <2>7 DEF PG!Levels
  <2>9. /\ PG!Reached(m, w, l) <=> PG!Reached(m, w, l + 1) /\ PG!Entry(m, w, l + 1).kind = "table"
        /\ PG!TableOf(m, w, l) = PG!Entry(m, w, l + 1).to
    BY WalkDown
  <2>10. PG!Reached(m, w, l) /\ PG!TableOf(m, w, l) = m[q][i].to
    BY <1>6, <2>5, <2>6, <2>8, <2>9
  <2>11. Zone(w, k) = Zone(v, k) /\ PG!Index(w, k) = PG!Index(v, k)
    BY <1>0, <2>2, <2>4, SameAbove
  <2>12. Hit(w, u, k, I)
    BY <2>1, <2>11 DEF Hit
  <2> QED
    BY <2>8, <2>10, <2>12
<1>7. ASSUME NEW s \in Gone
      PROVE  \E w \in Space, l \in PG!Levels : l < k /\ Hit(w, u, k, I) /\ PG!Reached(m, w, l) /\ PG!TableOf(m, w, l) = s
  <2>1. CASE s \in T
    BY <1>5, <2>1
  <2>2. CASE s \notin T
    BY <1>2, <1>6, <1>7, <2>2
  <2> QED
    BY <2>1, <2>2
<1>8. ASSUME NEW s \in Gone PROVE s \in Under(m, u, k, I)
  <2>1. PICK w \in Space, l \in PG!Levels : l < k /\ Hit(w, u, k, I) /\ PG!Reached(m, w, l) /\ PG!TableOf(m, w, l) = s
    BY <1>7
  <2>2. s \in DOMAIN m
    BY <2>1, EntryOf
  <2> QED
    BY <2>1, <2>2 DEF Under
<1>9. ASSUME NEW s \in Under(m, u, k, I) PROVE s \in Gone
  BY <1>4 DEF Under
<1>10. Gone = Under(m, u, k, I)
  BY <1>8, <1>9
<1> QED
  BY <1>10 DEF Gone

(* The entries from the first one on. *)
LEMMA Shifted ==
  ASSUME NEW h \in Nat, NEW n \in Nat
  PROVE  /\ {h + j : j \in 0 .. n - 1} = h .. h + n - 1
         /\ \A i \in h .. h + n - 1 : i - h \in 0 .. n - 1
<1>1. \A i \in h .. h + n - 1 : i - h \in 0 .. n - 1 /\ i = h + (i - h)
  OBVIOUS
<1>2. \A j \in 0 .. n - 1 : h + j \in h .. h + n - 1
  OBVIOUS
<1> QED
  BY <1>1, <1>2

(* What WriteEntries makes of a tree. *)
LEMMA WriteSound ==
  ASSUME PG!PagingConstants, NEW m, Tree(m), NEW u \in Space, NEW k \in 0 .. 2, PG!Reached(m, u, k),
         NEW n \in Nat, n <= F - PG!Index(u, k), NEW new, new \in [0 .. n - 1 -> EntrySet],
         \A j \in 0 .. n - 1 : new[j].kind # "table",
         NEW I, I = PG!Index(u, k) .. PG!Index(u, k) + n - 1
  PROVE  LET x == PG!WriteEntries(m, u, k, new) IN
         /\ Tree(x)
         /\ \A w \in Space : ~Hit(w, u, k, I) =>
              PG!EndLevel(x, w) = PG!EndLevel(m, w) /\ PG!Entry(x, w, PG!EndLevel(m, w)) = PG!Entry(m, w, PG!EndLevel(m, w))
         /\ \A w \in Space : Hit(w, u, k, I) =>
              PG!EndLevel(x, w) = k /\ PG!Entry(x, w, k) = new[PG!Index(w, k) - PG!Index(u, k)]
<1> DEFINE t == PG!TableOf(m, u, k)
           h == PG!Index(u, k)
           J == {h + j : j \in DOMAIN new}
           r == [i \in 0 .. F - 1 |-> IF i \in J THEN new[i - h] ELSE m[t][i]]
           y == [m EXCEPT ![t] = r]
           Gone == PG!free_pdpt(m, {m[t][i] : i \in J})
           x == PG!WriteEntries(m, u, k, new)
           e == [i \in I |-> new[i - h]]
<1>1. x = [s \in DOMAIN y \ Gone |-> y[s]]
  BY Zenon DEF PG!WriteEntries, PG!free_pages
<1>2. k \in PG!Levels /\ F \in Nat /\ F > 1
  BY LevelSizes DEF PG!Levels
<1>3. t \in DOMAIN m /\ h \in 0 .. F - 1
  BY <1>2, EntryOf
<1>4. I = h .. h + n - 1
  OBVIOUS
<1>5. DOMAIN new = 0 .. n - 1
  OBVIOUS
<1> HIDE DEF t, h
<1>6. J = I
  <2>1. h \in Nat
    BY <1>2, <1>3
  <2>2. J = {h + j : j \in 0 .. n - 1}
    BY <1>5
  <2> HIDE DEF J
  <2> QED
    BY ONLY <1>4, <2>1, <2>2, n \in Nat, Shifted
<1>7. I \subseteq 0 .. F - 1
  BY <1>2, <1>3, <1>4 DEF h
<1> HIDE DEF J
<1>8. Gone = Under(m, u, k, I)
  <2>1. PICK S : S = {m[t][i] : i \in I}
    OBVIOUS
  <2>2. t = PG!TableOf(m, u, k) /\ EntriesAre(S, m, t, I)
    BY <1>7, <2>1 DEF t, EntriesAre
  <2>3. PG!free_pdpt(m, S) = Under(m, u, k, I)
    BY ONLY PG!PagingConstants, Tree(m), u \in Space, k \in 0 .. 2, PG!Reached(m, u, k), <2>2, FreedTables
  <2> QED
    BY <1>6, <2>1, <2>3
<1> HIDE DEF Gone, x
<1>9. Memory(m)
  BY DEF Tree
<1>10. m \in [DOMAIN m -> [0 .. F - 1 -> EntrySet]] /\ IsFiniteSet(DOMAIN m) /\ DOMAIN m \subseteq Nat
         /\ PG!KernelPML4 \in DOMAIN m
  BY <1>9 DEF Memory
<1>11. \A i \in I : i - h \in 0 .. n - 1
  <2>1. h \in Nat
    BY <1>2, <1>3
  <2> QED
    BY ONLY <1>4, <2>1, n \in Nat, Shifted
<1>12. r \in [0 .. F - 1 -> EntrySet] /\ \A i \in 0 .. F - 1 : r[i] = IF i \in I THEN new[i - h] ELSE m[t][i]
  BY <1>3, <1>6, <1>10, <1>11
<1> HIDE DEF r
<1>13. DOMAIN y = DOMAIN m /\ \A s \in DOMAIN m : y[s] = IF s = t THEN r ELSE m[s]
  BY <1>10
<1>14. \A s \in DOMAIN m : y[s] \in [0 .. F - 1 -> EntrySet]
  BY <1>10, <1>12, <1>13
<1> HIDE DEF y
<1>15. DOMAIN x = DOMAIN m \ Gone /\ x = [s \in DOMAIN m \ Gone |-> y[s]] /\ \A s \in DOMAIN m \ Gone : x[s] = y[s]
  BY <1>1, <1>13
<1>16. PG!KernelPML4 \notin Gone
  <2>1. PG!Reached(m, u, 3) /\ PG!TableOf(m, u, 3) = PG!KernelPML4 /\ 3 \in PG!Levels /\ ~(3 < k)
    BY WalkDown DEF PG!Levels
  <2>2. PG!TableOf(m, u, 3) \in DOMAIN m \ Under(m, u, k, I)
    BY <1>2, <2>1, NotUnder
  <2> QED
    BY <1>8, <2>1, <2>2
<1>17. Memory(x)
  <2>1. x \in [DOMAIN m \ Gone -> [0 .. F - 1 -> EntrySet]]
    BY <1>14, <1>15
  <2>2. IsFiniteSet(DOMAIN m \ Gone)
    BY <1>10, FS_Difference
  <2> QED
    BY <1>10, <1>15, <1>16, <2>1, <2>2 DEF Memory
<1>18. Edited(m, x, u, k, I, e)
  <2>1. ASSUME NEW s \in DOMAIN m \ Under(m, u, k, I)
        PROVE  /\ s \in DOMAIN x
               /\ \A i \in 0 .. F - 1 : x[s][i] = IF s = t /\ i \in I THEN e[i] ELSE m[s][i]
    <3>1. s \in DOMAIN x /\ x[s] = IF s = t THEN r ELSE m[s]
      BY <1>8, <1>13, <1>15
    <3> QED
      BY <1>12, <3>1
  <2>2. t = PG!TableOf(m, u, k)
    BY DEF t
  <2> HIDE DEF x, e
  <2> QED
    BY <2>1, <2>2, ZenonT(40) DEF Edited
<1>19. \A i \in I : e[i].kind # "table"
  BY <1>11
<1>20. DOMAIN x = DOMAIN m \ Under(m, u, k, I)
  BY <1>8, <1>15
<1>21. \A w \in Space : Hit(w, u, k, I) => e[PG!Index(w, k)] = new[PG!Index(w, k) - PG!Index(u, k)]
  BY DEF Hit, h
<1> HIDE DEF e
<1>22. /\ Tree(x)
       /\ \A w \in Space : ~Hit(w, u, k, I) =>
            PG!EndLevel(x, w) = PG!EndLevel(m, w) /\ PG!Entry(x, w, PG!EndLevel(m, w)) = PG!Entry(m, w, PG!EndLevel(m, w))
       /\ \A w \in Space : Hit(w, u, k, I) => PG!EndLevel(x, w) = k /\ PG!Entry(x, w, k) = e[PG!Index(w, k)]
  BY ONLY PG!PagingConstants, Tree(m), u \in Space, k \in 0 .. 2, PG!Reached(m, u, k),
     <1>17, <1>18, <1>19, <1>20, EditLeaves
<1> QED
  BY <1>21, <1>22 DEF x


-----------------------------------------------------------------------------
(* a page is one the processor accepts, it is inside the addresses callers map, and has a *)
(* size that the processor has                                                            *)
PagesOK(m) ==
  \A w \in Space :
    LET l == PG!EndLevel(m, w)
        e == PG!Entry(m, w, l)
    IN  e.kind = "page" => /\ l # 3 /\ e.to % PG!Size(l) = 0
                           /\ w - (w % PG!Size(l)) + PG!Size(l) <= TableLimit
                           /\ l = 2 => GbPageSupport

(* the tables are what they should be *)
Good(m) == Tree(m) /\ PagesOK(m)

(* x translates w with the entry that m has *)
Unmoved(m, x, w) == PG!EndLevel(x, w) = PG!EndLevel(m, w) /\ PG!Entry(x, w, PG!EndLevel(m, w)) = PG!Entry(m, w, PG!EndLevel(m, w))

(* An address is translated by the entry its walk ends at. *)
LEMMA TranslateIs ==
  ASSUME PG!PagingConstants, NEW m, Tree(m), NEW w \in Space, NEW l, l = PG!EndLevel(m, w), NEW e, e = PG!Entry(m, w, l)
  PROVE  /\ l \in PG!Levels /\ e \in EntrySet /\ e.kind \in {"none", "page"}
         /\ e.kind = "none" <=> e = PG!None
         /\ e.kind = "none" <=> PG!Translate(m, w) = PG!None
         /\ e.kind = "page" => PG!Translate(m, w) = PG!Page(e.to + (w % PG!Size(l)), e.attr)
<1>1. l \in PG!Levels /\ PG!Reached(m, w, l) /\ e.kind # "table"
  BY Ends
<1>2. e \in EntrySet
  BY <1>1, EntryOf
<1>3. e.kind \in {"none", "page"} /\ (e.kind = "none" <=> e = PG!None)
  BY <1>1, <1>2, EntryKinds
<1>4. PG!Translate(m, w) = IF e.kind = "none" THEN PG!None ELSE PG!Page(e.to + (w % PG!Size(l)), e.attr)
  BY DEF PG!Translate
<1>5. PG!Page(e.to + (w % PG!Size(l)), e.attr) # PG!None
  BY DEF PG!Page, PG!None
<1> QED
  BY <1>1, <1>2, <1>3, <1>4, <1>5

(* What is not moved is translated as before. *)
LEMMA UnmovedSame ==
  ASSUME NEW m, NEW x, NEW w, Unmoved(m, x, w)
  PROVE  PG!Translate(x, w) = PG!Translate(m, w)
  BY DEF Unmoved, PG!Translate

(* The level a round works at. *)
LEMMA FitFacts ==
  ASSUME PG!PagingConstants, NEW n \in Nat, n > 0, NEW S, S \subseteq Nat, NEW l, l = PG!FitLevel(n, S)
  PROVE  /\ l \in 0 .. 2 /\ n >= PG!Size(l) /\ \A s \in S : s % PG!Size(l) = 0
         /\ l = 2 => GbPageSupport
         /\ \A k \in PG!Levels : n < PG!Size(k) => l < k
         /\ \A k \in 0 .. 2 : l < k /\ (k = 2 => GbPageSupport) => n < PG!Size(k) \/ \E s \in S : s % PG!Size(k) # 0
<1>1. PG!Size(0) = 1 /\ \A s \in S : s % PG!Size(0) = 0
  BY LevelSizes
<1>2. l \in 0 .. 2 /\ n >= PG!Size(l) /\ (\A s \in S : s % PG!Size(l) = 0) /\ (l = 2 => GbPageSupport)
  BY <1>1 DEF PG!FitLevel
<1>3. PG!Size(0) <= PG!Size(1) /\ PG!Size(1) <= PG!Size(2) /\ PG!Size(2) <= PG!Size(3) /\ \A k \in PG!Levels : PG!Size(k) \in Nat
  <2>1. F \in Nat /\ F > 1 /\ \A k \in PG!Levels : PG!Size(k) \in Nat
    BY LevelSizes
  <2>2. ASSUME NEW d \in Nat PROVE d <= F * d
    BY <2>1
  <2>3. PG!Size(0) \in Nat /\ PG!Size(1) \in Nat /\ PG!Size(2) \in Nat
    BY <2>1 DEF PG!Levels
  <2>4. PG!Size(1) = F * PG!Size(0) /\ PG!Size(2) = F * PG!Size(1) /\ PG!Size(3) = F * PG!Size(2)
    <3>1. \A k \in 0 .. 2 : PG!Size(k + 1) = F * PG!Size(k)
      BY LevelSizes
    <3> QED
      BY <3>1
  <2> QED
    BY <2>1, <2>2, <2>3, <2>4
<1>4. ASSUME NEW k \in PG!Levels, n < PG!Size(k) PROVE l < k
  <2> SUFFICES ASSUME k <= l PROVE FALSE
    BY <1>2 DEF PG!Levels
  <2>1. PG!Size(k) <= PG!Size(l)
    BY <1>2, <1>3 DEF PG!Levels
  <2> QED
    BY <1>2, <1>3, <1>4, <2>1 DEF PG!Levels
<1>5. ASSUME NEW k \in 0 .. 2, l < k, k = 2 => GbPageSupport PROVE n < PG!Size(k) \/ \E s \in S : s % PG!Size(k) # 0
  BY <1>2, <1>3, <1>5 DEF PG!FitLevel, PG!Levels
<1> QED
  BY <1>2, <1>4, <1>5

(* The number of entries a round writes. *)
LEMMA CountFacts ==
  ASSUME PG!PagingConstants, NEW v \in Space, NEW l \in 0 .. 2, NEW n \in Nat, n >= PG!Size(l),
         NEW k, k = PG!Smaller(n \div PG!Size(l), F - PG!Index(v, l))
  PROVE  /\ k \in Nat /\ k > 0 /\ k <= F - PG!Index(v, l)
         /\ k * PG!Size(l) \in Nat /\ k * PG!Size(l) > 0 /\ k * PG!Size(l) <= n
<1>1. PICK d \in Nat : d = PG!Size(l) /\ d > 0
  <2>1. l \in PG!Levels
    BY DEF PG!Levels
  <2> QED
    BY <2>1, LevelSizes
<1>2. PICK q \in Nat, r \in 0 .. d - 1 : q = n \div d /\ n = d * q + r
  <2>1. n \div d \in Nat /\ n % d \in 0 .. d - 1 /\ n = d * (n \div d) + (n % d)
    BY <1>1, Euclid
  <2> QED
    BY <2>1, Zenon
<1>3. q > 0
  <2> SUFFICES ASSUME q = 0 PROVE FALSE
    BY <1>2
  <2>1. d * q = 0
    BY <1>1
  <2>2. n >= d
    BY <1>1
  <2>3. n = r
    BY <1>2, <2>1
  <2> QED
    BY <1>1, <2>2, <2>3
<1>4. PICK f \in Nat : f = F - PG!Index(v, l) /\ f > 0
  <2>1. l \in PG!Levels
    BY DEF PG!Levels
  <2> QED
    BY <2>1, PlaceFacts, LevelSizes
<1>5. k \in Nat /\ k > 0 /\ k <= f /\ k <= q
  BY <1>1, <1>2, <1>3, <1>4 DEF PG!Smaller
<1>6. k * d \in Nat /\ k * d > 0 /\ k * d <= d * q /\ d * q \in Nat
  BY <1>1, <1>5
<1> QED
  BY <1>1, <1>2, <1>4, <1>5, <1>6


(* What a round writes, by address: the addresses from v on, as many as the entries cover. *)
LEMMA RoundSound ==
  ASSUME PG!PagingConstants, NEW m, Tree(m), NEW v \in Space, NEW l \in 0 .. 2, PG!Reached(m, v, l),
         v % PG!Size(l) = 0, NEW k \in Nat, k <= F - PG!Index(v, l), NEW new, new \in [0 .. k - 1 -> EntrySet],
         \A j \in 0 .. k - 1 : new[j].kind # "table", NEW x, x = PG!WriteEntries(m, v, l, new)
  PROVE  /\ Tree(x)
         /\ \A w \in Space : ~(v <= w /\ w < v + k * PG!Size(l)) => Unmoved(m, x, w)
         /\ \A w \in Space : v <= w /\ w < v + k * PG!Size(l) =>
              /\ PG!EndLevel(x, w) = l
              /\ \E j \in 0 .. k - 1 : PG!Entry(x, w, l) = new[j] /\ w = v + j * PG!Size(l) + (w % PG!Size(l))
<1>1. PICK I : I = PG!Index(v, l) .. PG!Index(v, l) + k - 1
  OBVIOUS
<1>2. l \in PG!Levels
  BY DEF PG!Levels
<1>3. /\ Tree(x)
      /\ \A w \in Space : ~Hit(w, v, l, I) =>
           PG!EndLevel(x, w) = PG!EndLevel(m, w) /\ PG!Entry(x, w, PG!EndLevel(m, w)) = PG!Entry(m, w, PG!EndLevel(m, w))
      /\ \A w \in Space : Hit(w, v, l, I) =>
           PG!EndLevel(x, w) = l /\ PG!Entry(x, w, l) = new[PG!Index(w, l) - PG!Index(v, l)]
  BY <1>1, WriteSound
<1>4. ASSUME NEW w \in Space
      PROVE  /\ Hit(w, v, l, I) <=> (v <= w /\ w < v + k * PG!Size(l))
             /\ Hit(w, v, l, I) => w = v + (PG!Index(w, l) - PG!Index(v, l)) * PG!Size(l) + (w % PG!Size(l))
  <2>1. /\ (v <= w /\ w < v + k * PG!Size(l))
             <=> (Zone(w, l) = Zone(v, l) /\ PG!Index(w, l) \in PG!Index(v, l) .. PG!Index(v, l) + k - 1)
        /\ Zone(w, l) = Zone(v, l) => w = v + (PG!Index(w, l) - PG!Index(v, l)) * PG!Size(l) + (w % PG!Size(l))
    BY <1>2, Span
  <2> QED
    BY <1>1, <2>1 DEF Hit
<1>5. ASSUME NEW w \in Space, Hit(w, v, l, I)
      PROVE  \E j \in 0 .. k - 1 : PG!Entry(x, w, l) = new[j] /\ w = v + j * PG!Size(l) + (w % PG!Size(l))
  <2>1. PG!Index(w, l) \in PG!Index(v, l) .. PG!Index(v, l) + k - 1 /\ PG!Index(v, l) \in 0 .. F - 1 /\ PG!Index(w, l) \in 0 .. F - 1
    BY <1>1, <1>2, <1>5, PlaceFacts DEF Hit
  <2>2. PICK j \in 0 .. k - 1 : j = PG!Index(w, l) - PG!Index(v, l)
    BY <2>1
  <2> QED
    BY <1>3, <1>4, <1>5, <2>2
<1>6. \A w \in Space : ~(v <= w /\ w < v + k * PG!Size(l)) => Unmoved(m, x, w)
  BY <1>3, <1>4 DEF Unmoved
<1>7. \A w \in Space : v <= w /\ w < v + k * PG!Size(l) =>
              /\ PG!EndLevel(x, w) = l
              /\ \E j \in 0 .. k - 1 : PG!Entry(x, w, l) = new[j] /\ w = v + j * PG!Size(l) + (w % PG!Size(l))
  BY <1>3, <1>4, <1>5
<1> QED
  BY <1>3, <1>6, <1>7

(* Multiples of a size. *)
LEMMA Multiples ==
  ASSUME NEW d \in Nat, d > 0, NEW j \in Nat
  PROVE  /\ j * d \in Nat
         /\ \A k \in Nat : j + 1 <= k => j * d + d <= k * d
         /\ \A p \in Nat : p % d = 0 => (p + j * d) % d = 0
<1>1. j * d \in Nat
  OBVIOUS
<1>2. ASSUME NEW k \in Nat, j + 1 <= k PROVE j * d + d <= k * d
  <2>1. (j + 1) * d <= k * d
    BY <1>2
  <2> QED
    BY <2>1
<1>3. ASSUME NEW p \in Nat, p % d = 0 PROVE (p + j * d) % d = 0
  <2>1. PICK q : q \in Nat /\ q = p \div d
    BY Euclid
  <2>2. p = d * q
    <3>1. p = d * (p \div d) + (p % d)
      BY Euclid
    <3>2. d * q \in Nat
      BY <2>1
    <3> QED
      BY <1>3, <2>1, <3>1, <3>2
  <2>3. PICK y \in Nat : y = p + j * d
    BY <1>1
  <2>4. y = d * (q + j) + 0
    BY <2>1, <2>2, <2>3
  <2>5. q + j \in Nat /\ 0 \in 0 .. d - 1
    BY <2>1
  <2>6. y % d = 0
    BY <2>4, <2>5, EuclidUnique
  <2> QED
    BY <2>3, <2>6
<1> QED
  BY <1>1, <1>2, <1>3

(* the entries a round of create_mapping and one of destroy_mapping writes *)
NewPages(pa, at, l, k) == [j \in 0 .. k - 1 |-> PG!Page(pa + j * PG!Size(l), at)]
NoPages(k) == [j \in 0 .. k - 1 |-> PG!None]

(* the end of the page or hole that w is in *)
BlockEnd(m, w) == w - (w % PG!Size(PG!EndLevel(m, w))) + PG!Size(PG!EndLevel(m, w))

(* A round of create_mapping: the pages of the round are mapped as asked; every other address is *)
(* translated as before, or it shared a huge page with the first one and is not mapped any more.  *)
LEMMA CreateSound ==
  ASSUME PG!PagingConstants, TableLimit < PG!VSize, NEW m, Good(m), NEW va \in Nat, NEW pa \in Nat, NEW n \in Nat, n > 0, va + n <= TableLimit,
         NEW at \in Attrs, NEW l \in 0 .. 2, n >= PG!Size(l), va % PG!Size(l) = 0, pa % PG!Size(l) = 0, l = 2 => GbPageSupport,
         NEW k, k = PG!Smaller(n \div PG!Size(l), F - PG!Index(va, l)),
         NEW x, x = PG!WriteEntries(PG!WithPath(m, va, l), va, l, NewPages(pa, at, l, k))
  PROVE  /\ Good(x)
         /\ k * PG!Size(l) \in Nat /\ k * PG!Size(l) > 0 /\ k * PG!Size(l) <= n
         /\ \A w \in Space : va <= w /\ w < va + k * PG!Size(l) =>
              PG!Translate(x, w) = PG!Page(pa + (w - va), at) /\ BlockEnd(x, w) <= va + k * PG!Size(l)
         /\ \A w \in Space : ~(va <= w /\ w < va + k * PG!Size(l)) =>
              \/ Unmoved(m, x, w)
              \/ /\ PG!Translate(x, w) = PG!None /\ PG!EndLevel(m, w) > l
                 /\ w \div PG!Size(PG!EndLevel(m, w)) = va \div PG!Size(PG!EndLevel(m, w))
<1>0. va \in Space /\ l \in PG!Levels /\ Tree(m) /\ PagesOK(m) /\ TableLimit \in Nat
  <2>1. TableLimit \in Nat
    BY DEF PG!PagingConstants
  <2>2. PG!VSize \in Nat
    BY LevelSizes
  <2>3. va \in Space
    BY <2>1, <2>2 DEF Space
  <2> QED
    BY <2>1, <2>3 DEF PG!Levels, Good
<1>1. /\ k \in Nat /\ k > 0 /\ k <= F - PG!Index(va, l)
      /\ k * PG!Size(l) \in Nat /\ k * PG!Size(l) > 0 /\ k * PG!Size(l) <= n
  BY <1>0, CountFacts
<1>2. PICK p : p = PG!WithPath(m, va, l)
  OBVIOUS
<1>3. Tree(p) /\ PG!Reached(p, va, l) /\ Opens(m, p, va, l)
  BY <1>0, <1>2, WithPathSound
<1>4. PICK d \in Nat : d = PG!Size(l) /\ d > 0
  BY <1>0, LevelSizes
<1>5. PICK new : new = [j \in 0 .. k - 1 |-> PG!Page(pa + j * d, at)]
  OBVIOUS
<1>6. /\ new \in [0 .. k - 1 -> EntrySet]
      /\ \A j \in 0 .. k - 1 : /\ new[j].kind = "page" /\ new[j].to = pa + j * d /\ new[j].attr = at
  <2>1. ASSUME NEW j \in 0 .. k - 1 PROVE pa + j * d \in Nat
    <3>1. j \in Nat
      BY <1>1
    <3>2. j * d \in Nat
      BY <3>1
    <3> QED
      BY <3>2
  <2>2. \A j \in 0 .. k - 1 : PG!Page(pa + j * d, at) \in EntrySet
    BY <2>1 DEF EntrySet
  <2>3. new \in [0 .. k - 1 -> EntrySet]
    BY <1>5, <2>2
  <2>4. \A j \in 0 .. k - 1 : new[j].kind = "page" /\ new[j].to = pa + j * d /\ new[j].attr = at
    BY <1>5 DEF PG!Page
  <2> QED
    BY <2>3, <2>4
<1>7. x = PG!WriteEntries(p, va, l, new)
  BY <1>2, <1>4, <1>5 DEF NewPages
<1>8. /\ Tree(x)
      /\ \A w \in Space : ~(va <= w /\ w < va + k * d) => Unmoved(p, x, w)
      /\ \A w \in Space : va <= w /\ w < va + k * d =>
           /\ PG!EndLevel(x, w) = l
           /\ \E j \in 0 .. k - 1 : PG!Entry(x, w, l) = new[j] /\ w = va + j * d + (w % d)
  <2>1. \A j \in 0 .. k - 1 : new[j].kind # "table"
    BY <1>6
  <2>2. new \in [0 .. k - 1 -> EntrySet] /\ va % PG!Size(l) = 0 /\ k \in Nat /\ k <= F - PG!Index(va, l) /\ va \in Space
    BY <1>0, <1>1, <1>6
  <2>3. /\ Tree(x)
        /\ \A w \in Space : ~(va <= w /\ w < va + k * PG!Size(l)) => Unmoved(p, x, w)
        /\ \A w \in Space : va <= w /\ w < va + k * PG!Size(l) =>
           /\ PG!EndLevel(x, w) = l
           /\ \E j \in 0 .. k - 1 : PG!Entry(x, w, l) = new[j] /\ w = va + j * PG!Size(l) + (w % PG!Size(l))
    BY ONLY PG!PagingConstants, l \in 0 .. 2, <1>3, <1>7, <2>1, <2>2, RoundSound
  <2> QED
    BY <1>4, <2>3
<1>9. ASSUME NEW w \in Space, va <= w, w < va + k * d
      PROVE  /\ PG!Translate(x, w) = PG!Page(pa + (w - va), at)
             /\ PG!Entry(x, w, l).to % d = 0 /\ w - (w % d) + d <= TableLimit
             /\ BlockEnd(x, w) <= va + k * d
  <2>1. PG!EndLevel(x, w) = l
    BY <1>8, <1>9
  <2>2. PICK j \in 0 .. k - 1 : PG!Entry(x, w, l) = new[j] /\ w = va + j * d + (w % d)
    BY <1>8, <1>9
  <2>3. PICK r \in 0 .. d - 1 : r = w % d
    <3>1. w \in Nat
      BY <1>9, LevelSizes DEF Space
    <3> QED
      BY <1>4, <3>1, Euclid
  <2>4. j \in Nat /\ j + 1 <= k
    BY <1>1
  <2>5. PICK b \in Nat : b = j * d
    BY <2>4
  <2>6. b + d <= k * d
    <3>1. j * d + d <= k * d
      BY <1>1, <1>4, <2>4, Multiples
    <3> QED
      BY <2>5, <3>1
  <2>7. w = va + b + r
    BY <2>2, <2>3, <2>5
  <2>8. PG!Entry(x, w, l).kind = "page" /\ PG!Entry(x, w, l).to = pa + b /\ PG!Entry(x, w, l).attr = at
    BY <1>6, <2>2, <2>5
  <2>9. PG!Translate(x, w) = PG!Page((pa + b) + (w % d), at)
    <3>1. PG!Translate(x, w) = PG!Page(PG!Entry(x, w, l).to + (w % PG!Size(l)), PG!Entry(x, w, l).attr)
      BY <1>8, <2>1, <2>8, TranslateIs
    <3> QED
      BY <1>4, <2>8, <3>1
  <2>10. (pa + b) + r = pa + (w - va)
    BY <2>7
  <2>11. w - r + d <= TableLimit
    <3>1. w - r = va + b
      BY <2>7
    <3>2. PICK y \in Nat : y = k * d /\ y <= n
      BY <1>1, <1>4
    <3> QED
      BY <1>0, <2>6, <3>1, <3>2
  <2>12. (pa + b) % d = 0
    <3>1. pa % d = 0
      BY <1>4
    <3>2. (pa + j * d) % d = 0
      BY <1>4, <2>4, <3>1, Multiples
    <3> QED
      BY <2>5, <3>2
  <2>13. BlockEnd(x, w) <= va + k * d
    <3>1. BlockEnd(x, w) = w - r + d
      BY <1>4, <2>1, <2>3 DEF BlockEnd
    <3>2. w - r = va + b
      BY <2>7
    <3>3. PICK y \in Nat : y = k * d
      BY <1>1, <1>4
    <3> QED
      BY <2>6, <3>1, <3>2, <3>3
  <2> QED
    BY <2>3, <2>8, <2>9, <2>10, <2>11, <2>12, <2>13
<1>10. ASSUME NEW w \in Space, ~(va <= w /\ w < va + k * d)
       PROVE  \/ Unmoved(m, x, w)
              \/ /\ PG!Entry(x, w, PG!EndLevel(x, w)) = PG!None /\ PG!Translate(x, w) = PG!None /\ PG!EndLevel(m, w) > l
                 /\ w \div PG!Size(PG!EndLevel(m, w)) = va \div PG!Size(PG!EndLevel(m, w))
  <2>1. Unmoved(p, x, w)
    BY <1>8, <1>10
  <2>2. \/ Unmoved(m, p, w)
        \/ /\ PG!EndLevel(m, w) > l
           /\ w \div PG!Size(PG!EndLevel(m, w)) = va \div PG!Size(PG!EndLevel(m, w))
           /\ PG!Entry(p, w, PG!EndLevel(p, w)) = PG!None
    BY <1>3 DEF Opens, Unmoved
  <2>3. CASE Unmoved(m, p, w)
    BY <2>1, <2>3 DEF Unmoved
  <2>4. CASE ~Unmoved(m, p, w)
    <3>1. PG!Entry(x, w, PG!EndLevel(x, w)) = PG!None
      BY <2>1, <2>2, <2>4 DEF Unmoved
    <3>2. PG!Translate(x, w) = PG!None
      BY <3>1 DEF PG!Translate, PG!None
    <3> QED
      BY <2>2, <2>4, <3>1, <3>2
  <2> QED
    BY <2>3, <2>4
<1>11. PagesOK(x)
  <2> SUFFICES ASSUME NEW w \in Space, PG!Entry(x, w, PG!EndLevel(x, w)).kind = "page"
               PROVE  /\ PG!EndLevel(x, w) # 3 /\ PG!Entry(x, w, PG!EndLevel(x, w)).to % PG!Size(PG!EndLevel(x, w)) = 0
                      /\ w - (w % PG!Size(PG!EndLevel(x, w))) + PG!Size(PG!EndLevel(x, w)) <= TableLimit
                      /\ PG!EndLevel(x, w) = 2 => GbPageSupport
    BY DEF PagesOK
  <2>1. CASE va <= w /\ w < va + k * d
    <3>1. PG!EndLevel(x, w) = l
      BY <1>8, <2>1
    <3>2. PG!Entry(x, w, l).to % d = 0 /\ w - (w % d) + d <= TableLimit
      BY <1>9, <2>1
    <3> QED
      BY <1>4, <3>1, <3>2
  <2>2. CASE ~(va <= w /\ w < va + k * d)
    <3>1. PG!None.kind # "page"
      BY DEF PG!None
    <3>2. Unmoved(m, x, w)
      BY <1>10, <2>2, <3>1
    <3> QED
      BY <1>0, <3>2 DEF PagesOK, Unmoved
  <2> QED
    BY <2>1, <2>2
<1>12. Good(x)
  BY <1>8, <1>11 DEF Good
<1> QED
  BY <1>1, <1>4, <1>9, <1>10, <1>12


(* A round of destroy_mapping: the pages of the round are not mapped any more, every other *)
(* address is translated as before.                                                        *)
LEMMA DestroySound ==
  ASSUME PG!PagingConstants, TableLimit < PG!VSize, NEW m, Good(m), NEW va \in Nat, NEW n \in Nat, n > 0, va + n <= TableLimit,
         NEW l \in 0 .. 2, n >= PG!Size(l), va % PG!Size(l) = 0, PG!Reached(m, va, l),
         NEW k, k = PG!Smaller(n \div PG!Size(l), F - PG!Index(va, l)),
         NEW x, x = PG!WriteEntries(m, va, l, NoPages(k))
  PROVE  /\ Good(x)
         /\ k * PG!Size(l) \in Nat /\ k * PG!Size(l) > 0 /\ k * PG!Size(l) <= n
         /\ \A w \in Space : va <= w /\ w < va + k * PG!Size(l) => PG!Translate(x, w) = PG!None
         /\ \A w \in Space : ~(va <= w /\ w < va + k * PG!Size(l)) => Unmoved(m, x, w)
<1>0. va \in Space /\ l \in PG!Levels /\ Tree(m) /\ PagesOK(m) /\ TableLimit \in Nat
  <2>1. TableLimit \in Nat
    BY DEF PG!PagingConstants
  <2>2. PG!VSize \in Nat
    BY LevelSizes
  <2>3. va \in Space
    BY <2>1, <2>2 DEF Space
  <2> QED
    BY <2>1, <2>3 DEF PG!Levels, Good
<1>1. /\ k \in Nat /\ k > 0 /\ k <= F - PG!Index(va, l)
      /\ k * PG!Size(l) \in Nat /\ k * PG!Size(l) > 0 /\ k * PG!Size(l) <= n
  BY <1>0, CountFacts
<1>2. PICK new : new = [j \in 0 .. k - 1 |-> PG!None]
  OBVIOUS
<1>3. PG!None.kind = "none" /\ PG!None \in EntrySet
  BY DEF PG!None, EntrySet
<1>4. new \in [0 .. k - 1 -> EntrySet] /\ (\A j \in 0 .. k - 1 : new[j].kind # "table") /\ \A j \in 0 .. k - 1 : new[j] = PG!None
  BY <1>2, <1>3
<1>5. x = PG!WriteEntries(m, va, l, new)
  BY <1>2 DEF NoPages
<1>6. /\ Tree(x)
      /\ \A w \in Space : ~(va <= w /\ w < va + k * PG!Size(l)) => Unmoved(m, x, w)
      /\ \A w \in Space : va <= w /\ w < va + k * PG!Size(l) =>
           /\ PG!EndLevel(x, w) = l
           /\ \E j \in 0 .. k - 1 : PG!Entry(x, w, l) = new[j] /\ w = va + j * PG!Size(l) + (w % PG!Size(l))
  BY ONLY PG!PagingConstants, l \in 0 .. 2, va % PG!Size(l) = 0, PG!Reached(m, va, l), <1>0, <1>1, <1>4, <1>5, RoundSound
<1>7. \A w \in Space : va <= w /\ w < va + k * PG!Size(l) => PG!Entry(x, w, PG!EndLevel(x, w)) = PG!None
  BY <1>4, <1>6
<1>8. \A w \in Space : va <= w /\ w < va + k * PG!Size(l) => PG!Translate(x, w) = PG!None
  BY <1>3, <1>7 DEF PG!Translate
<1>9. PagesOK(x)
  <2> SUFFICES ASSUME NEW w \in Space, PG!Entry(x, w, PG!EndLevel(x, w)).kind = "page"
               PROVE  /\ PG!EndLevel(x, w) # 3 /\ PG!Entry(x, w, PG!EndLevel(x, w)).to % PG!Size(PG!EndLevel(x, w)) = 0
                      /\ w - (w % PG!Size(PG!EndLevel(x, w))) + PG!Size(PG!EndLevel(x, w)) <= TableLimit
                      /\ PG!EndLevel(x, w) = 2 => GbPageSupport
    BY DEF PagesOK
  <2>1. ~(va <= w /\ w < va + k * PG!Size(l))
    BY <1>3, <1>7
  <2>2. Unmoved(m, x, w)
    BY <1>6, <2>1
  <2> QED
    BY <1>0, <2>2 DEF PagesOK, Unmoved
<1> QED
  BY <1>1, <1>6, <1>8, <1>9 DEF Good

-----------------------------------------------------------------------------
(* the calls that can be in progress *)
CreateCall == [op : {"create"}, va : Nat, pa : Nat, n : Nat, attr : Attrs]
DestroyCall == [op : {"destroy"}, va : Nat, n : Nat]
CallSet == CreateCall \cup DestroyCall

(* the end of the range of the kernel's call *)
End == call.c.va + call.c.n

(* create_mapping has come to address d: the range is mapped up to there, with pages that end   *)
(* there; outside the range an address is mapped as it was, or was in a huge page of which the  *)
(* call maps a part                                                                             *)
CreateAt(d) ==
  /\ \A v \in Space : call.c.va <= v /\ v < d =>
       PG!Translate(mem, v) = PG!Page(call.c.pa + (v - call.c.va), call.c.attr) /\ BlockEnd(mem, v) <= d
  /\ \A v \in Space : ~PG!Asked(v) => Unmoved(call.before, mem, v) \/ (PG!Translate(mem, v) = PG!None /\ PG!InCutHuge(v))

(* the create_mapping that the kernel called has come to d, or returned *)
Creating ==
  \E d \in call.c.va .. End :
    /\ CreateAt(d)
    /\ \/ todo = <<>> /\ d = End
       \/ Len(todo) = 1 /\ todo[1] = PG!Create(d, call.c.pa + (d - call.c.va), End - d, call.c.attr)

(* destroy_mapping has come to address d *)
Expected(v, d) == IF call.c.va <= v /\ v < d THEN PG!None ELSE PG!Translate(call.before, v)

DestroyAt(d) == \A v \in Space : PG!Translate(mem, v) = Expected(v, d)

(* it is mapping the page [b, b + Size(k)) again in pieces; nothing of what is still to be mapped *)
(* is mapped, or it is all still mapped by the huge page                                          *)
SplitPieces(b, k) ==
  /\ k \in 1 .. 2 /\ b % PG!Size(k) = 0 /\ b + PG!Size(k) <= TableLimit
  /\ \A i \in 1 .. Len(todo) - 1 :
       /\ todo[i] \in CreateCall /\ todo[i].va >= b /\ todo[i].va + todo[i].n <= b + PG!Size(k) /\ todo[i].n < PG!Size(k)
       /\ todo[i].pa = todo[1].pa + (todo[i].va - todo[1].va) /\ todo[i].attr = todo[1].attr
       /\ todo[i].va + todo[i].n = IF i = Len(todo) - 1 THEN b + PG!Size(k) ELSE todo[i + 1].va

SplitAt(d, b, k) ==
  /\ \A v \in Space : b <= v /\ v < b + PG!Size(k) => Expected(v, d) = PG!Page(todo[1].pa + (v - todo[1].va), todo[1].attr)
  /\ \A v \in Space : ~(todo[1].va <= v /\ v < b + PG!Size(k)) => PG!Translate(mem, v) = Expected(v, d)
  /\ \/ \A v \in Space : todo[1].va <= v /\ v < b + PG!Size(k) => PG!Translate(mem, v) = PG!None
     \/ /\ todo[1].va = b
        /\ \A v \in Space : b <= v /\ v < b + PG!Size(k) => PG!EndLevel(mem, v) = k /\ PG!Translate(mem, v) = Expected(v, d)

Splitting(d) == \E b \in Space, k \in 1 .. 2 : SplitPieces(b, k) /\ SplitAt(d, b, k)

(* the range was mapped when destroy_mapping was called *)
WasMapped == \A v \in PG!Addresses : PG!Asked(v) => PG!Translate(call.before, v) # PG!None

(* the destroy_mapping that the kernel called has come to d, is cutting a huge page, or returned *)
Destroying ==
  \E d \in call.c.va .. End :
    \/ todo = <<>> /\ DestroyAt(d) /\ (WasMapped => d = End)
    \/ Len(todo) = 1 /\ todo[1] = PG!Destroy(d, End - d) /\ DestroyAt(d)
    \/ Len(todo) > 1 /\ todo[Len(todo)] = PG!Destroy(d, End - d) /\ Splitting(d)

(* the inductive invariant of the page tables *)
PagingInv ==
  /\ Good(mem)
  /\ todo \in Seq(CallSet) /\ call.c \in CallSet /\ End <= TableLimit
  /\ call.c.op = "create" => Creating
  /\ call.c.op = "destroy" => Destroying


-----------------------------------------------------------------------------
(* The call in progress is the first one of the sequence. *)
LEMMA HeadCall ==
  ASSUME NEW S, NEW s \in Seq(S), s # <<>>
  PROVE  Head(s) = s[1] /\ s[1] \in S /\ Len(s) \in Nat /\ Len(s) > 0
  OBVIOUS

(* A round replaces it. *)
LEMMA ReplaceHead ==
  ASSUME NEW S, NEW s \in Seq(S), s # <<>>, NEW c \in S, NEW t, t = <<c>> \o Tail(s)
  PROVE  t \in Seq(S) /\ t # <<>> /\ Len(t) = Len(s) /\ t[1] = c /\ \A i \in 2 .. Len(s) : t[i] = s[i]
<1>1. Tail(s) \in Seq(S) /\ Len(Tail(s)) = Len(s) - 1 /\ \A i \in 1 .. Len(s) - 1 : Tail(s)[i] = s[i + 1]
  OBVIOUS
<1>2. <<c>> \in Seq(S) /\ Len(<<c>>) = 1 /\ <<c>>[1] = c
  OBVIOUS
<1>3. Len(s) \in Nat /\ Len(s) > 0
  OBVIOUS
<1>4. t \in Seq(S) /\ Len(t) = Len(s) /\ t[1] = c
  BY <1>1, <1>2, <1>3
<1>5. ASSUME NEW i \in 2 .. Len(s) PROVE t[i] = s[i]
  <2>1. t[i] = Tail(s)[i - 1]
    BY <1>1, <1>2, <1>3
  <2> QED
    BY <1>1, <1>3, <2>1
<1> QED
  BY <1>3, <1>4, <1>5

(* A call that returns leaves the others. *)
LEMMA DropHead ==
  ASSUME NEW S, NEW s \in Seq(S), s # <<>>, NEW t, t = Tail(s)
  PROVE  t \in Seq(S) /\ Len(t) = Len(s) - 1 /\ (t = <<>> <=> Len(s) = 1) /\ \A i \in 1 .. Len(s) - 1 : t[i] = s[i + 1]
<1>1. t \in Seq(S) /\ Len(t) = Len(s) - 1 /\ Len(s) \in Nat /\ \A i \in 1 .. Len(s) - 1 : t[i] = s[i + 1]
  OBVIOUS
<1>2. t = <<>> <=> Len(t) = 0
  BY <1>1, SMTT(30)
<1> QED
  BY <1>1, <1>2

(* A call is done when nothing is left of its range. *)
LEMMA ReturnsIs ==
  ASSUME PG!PagingConstants, TableLimit < PG!VSize, NEW c, c.va \in Nat, c.n \in Nat, c.va + c.n <= TableLimit
  PROVE  PG!Returns(c) <=> c.n = 0
<1>1. PG!VSize \in Nat /\ TableLimit \in Nat
  BY LevelSizes DEF PG!PagingConstants
<1>2. PICK y \in Nat : y = c.va + c.n /\ y < PG!VSize
  BY <1>1
<1>3. y % PG!VSize = y
  <2>1. y = PG!VSize * 0 + y /\ y \in 0 .. PG!VSize - 1 /\ PG!VSize > 0
    BY <1>1, <1>2
  <2> QED
    BY <1>1, <2>1, EuclidUnique
<1> QED
  BY <1>2, <1>3 DEF PG!Returns

(* What a round of create_mapping does to the state. *)
LEMMA CreateRoundDoes ==
  ASSUME PG!PagingConstants, TableLimit < PG!VSize, Good(mem), todo \in Seq(CallSet), todo # <<>>,
         todo[1] \in CreateCall, todo[1].va + todo[1].n <= TableLimit, PG!CreateRound
  PROVE  \E s \in Nat, l \in 0 .. 2 :
           /\ s > 0 /\ s <= todo[1].n /\ \A k \in PG!Levels : todo[1].n < PG!Size(k) => l < k
           /\ todo' = <<PG!Create(todo[1].va + s, todo[1].pa + s, todo[1].n - s, todo[1].attr)>> \o Tail(todo)
           /\ Good(mem)' /\ call' = call
           /\ \A w \in Space : todo[1].va <= w /\ w < todo[1].va + s =>
                /\ PG!Translate(mem', w) = PG!Page(todo[1].pa + (w - todo[1].va), todo[1].attr)
                /\ BlockEnd(mem', w) <= todo[1].va + s
           /\ \A w \in Space : ~(todo[1].va <= w /\ w < todo[1].va + s) =>
                \/ Unmoved(mem, mem', w)
                \/ /\ PG!Translate(mem', w) = PG!None /\ PG!EndLevel(mem, w) > l
                   /\ w \div PG!Size(PG!EndLevel(mem, w)) = todo[1].va \div PG!Size(PG!EndLevel(mem, w))
<1>1. PICK c \in CreateCall : c = todo[1] /\ c = Head(todo)
  BY HeadCall
<1>2. c.va \in Nat /\ c.pa \in Nat /\ c.n \in Nat /\ c.attr \in Attrs /\ c.va + c.n <= TableLimit
  BY <1>1 DEF CreateCall
<1>3. ~PG!Returns(c) /\ UNCHANGED <<GbPageSupport, call>>
  BY <1>1 DEF PG!CreateRound
<1>4. c.n > 0
  BY <1>2, <1>3, ReturnsIs
<1>5. PICK l \in 0 .. 2 : l = PG!CreateLevel(c) /\ c.n >= PG!Size(l) /\ c.va % PG!Size(l) = 0 /\ c.pa % PG!Size(l) = 0
                          /\ (l = 2 => GbPageSupport) /\ \A k \in PG!Levels : c.n < PG!Size(k) => l < k
  <2>1. PICK S : S = {c.va, c.pa} /\ S \subseteq Nat
    BY <1>2
  <2>2. PICK l : l = PG!FitLevel(c.n, S)
    OBVIOUS
  <2>3. /\ l \in 0 .. 2 /\ c.n >= PG!Size(l) /\ \A s \in S : s % PG!Size(l) = 0
        /\ l = 2 => GbPageSupport
        /\ \A k \in PG!Levels : c.n < PG!Size(k) => l < k
    BY <1>2, <1>4, <2>1, <2>2, FitFacts
  <2> QED
    BY <2>1, <2>2, <2>3 DEF PG!CreateLevel
<1>6. PICK k : k = PG!Smaller(c.n \div PG!Size(l), F - PG!Index(c.va, l)) /\ k = PG!Count(c, l)
  BY DEF PG!Count
<1>7. /\ mem' = PG!WriteEntries(PG!WithPath(mem, c.va, l), c.va, l, NewPages(c.pa, c.attr, l, k))
      /\ todo' = <<PG!Create(c.va + k * PG!Size(l), c.pa + k * PG!Size(l), c.n - k * PG!Size(l), c.attr)>> \o Tail(todo)
  BY <1>1, <1>5, <1>6, Zenon DEF PG!CreateRound, NewPages
<1>8. PICK x : x = mem'
  OBVIOUS
<1>9. /\ Good(x)
      /\ k * PG!Size(l) \in Nat /\ k * PG!Size(l) > 0 /\ k * PG!Size(l) <= c.n
      /\ \A w \in Space : c.va <= w /\ w < c.va + k * PG!Size(l) =>
           PG!Translate(x, w) = PG!Page(c.pa + (w - c.va), c.attr) /\ BlockEnd(x, w) <= c.va + k * PG!Size(l)
      /\ \A w \in Space : ~(c.va <= w /\ w < c.va + k * PG!Size(l)) =>
           \/ Unmoved(mem, x, w)
           \/ /\ PG!Translate(x, w) = PG!None /\ PG!EndLevel(mem, w) > l
              /\ w \div PG!Size(PG!EndLevel(mem, w)) = c.va \div PG!Size(PG!EndLevel(mem, w))
  <2>1. x = PG!WriteEntries(PG!WithPath(mem, c.va, l), c.va, l, NewPages(c.pa, c.attr, l, k))
    BY <1>7, <1>8
  <2>2. PICK va \in Nat, pa \in Nat, n \in Nat, at \in Attrs : va = c.va /\ pa = c.pa /\ n = c.n /\ at = c.attr
    BY <1>2
  <2>3. /\ n > 0 /\ va + n <= TableLimit /\ n >= PG!Size(l) /\ va % PG!Size(l) = 0 /\ pa % PG!Size(l) = 0 /\ (l = 2 => GbPageSupport)
        /\ k = PG!Smaller(n \div PG!Size(l), F - PG!Index(va, l))
        /\ x = PG!WriteEntries(PG!WithPath(mem, va, l), va, l, NewPages(pa, at, l, k))
    BY <1>2, <1>4, <1>5, <1>6, <2>1, <2>2
  <2>4. /\ Good(x)
        /\ k * PG!Size(l) \in Nat /\ k * PG!Size(l) > 0 /\ k * PG!Size(l) <= n
        /\ \A w \in Space : va <= w /\ w < va + k * PG!Size(l) =>
             PG!Translate(x, w) = PG!Page(pa + (w - va), at) /\ BlockEnd(x, w) <= va + k * PG!Size(l)
        /\ \A w \in Space : ~(va <= w /\ w < va + k * PG!Size(l)) =>
             \/ Unmoved(mem, x, w)
             \/ /\ PG!Translate(x, w) = PG!None /\ PG!EndLevel(mem, w) > l
                /\ w \div PG!Size(PG!EndLevel(mem, w)) = va \div PG!Size(PG!EndLevel(mem, w))
    BY ONLY PG!PagingConstants, TableLimit < PG!VSize, Good(mem), va \in Nat, pa \in Nat, n \in Nat, at \in Attrs, l \in 0 .. 2,
       <2>3, CreateSound, SMTT(30)
  <2> QED
    BY <2>2, <2>4
<1>10. Good(mem)'
  BY <1>3, <1>8, <1>9 DEF Good, PagesOK
<1>11. PICK s \in Nat : s = k * PG!Size(l)
  BY <1>9
<1>12. todo' = <<PG!Create(c.va + s, c.pa + s, c.n - s, c.attr)>> \o Tail(todo)
  BY <1>7, <1>11
<1> QED
  BY <1>1, <1>3, <1>5, <1>8, <1>9, <1>10, <1>11, <1>12


(* Addresses in the block of one entry are translated by it. *)
LEMMA SameEnd ==
  ASSUME PG!PagingConstants, NEW m, Tree(m), NEW v \in Space, NEW w \in Space,
         v \div PG!Size(PG!EndLevel(m, w)) = w \div PG!Size(PG!EndLevel(m, w))
  PROVE  PG!EndLevel(m, v) = PG!EndLevel(m, w) /\ PG!Entry(m, v, PG!EndLevel(m, w)) = PG!Entry(m, w, PG!EndLevel(m, w))
<1>1. PICK l \in PG!Levels : l = PG!EndLevel(m, w) /\ PG!Reached(m, w, l) /\ PG!Entry(m, w, l).kind # "table" /\ l >= l
  BY Ends DEF PG!Levels
<1>2. Zone(v, l) = Zone(w, l) /\ PG!Index(v, l) = PG!Index(w, l)
  BY <1>1, SamePlace
<1>3. PG!Reached(m, v, l) /\ PG!TableOf(m, v, l) = PG!TableOf(m, w, l)
  BY <1>1, <1>2, SameWalk
<1>4. PG!Entry(m, v, l) = PG!Entry(m, w, l)
  BY <1>2, <1>3 DEF PG!Entry
<1>5. PG!EndLevel(m, v) = l
  BY <1>1, <1>3, <1>4, Ends
<1> QED
  BY <1>1, <1>4, <1>5

(* What a round of destroy_mapping does to the state. *)
LEMMA DestroyRoundDoes ==
  ASSUME PG!PagingConstants, TableLimit < PG!VSize, Good(mem), todo \in Seq(CallSet), todo # <<>>,
         todo[1] \in DestroyCall, todo[1].va + todo[1].n <= TableLimit, PG!DestroyRound
  PROVE  \E s \in Nat :
           /\ s > 0 /\ s <= todo[1].n
           /\ todo' = <<PG!Destroy(todo[1].va + s, todo[1].n - s)>> \o Tail(todo)
           /\ Good(mem)' /\ call' = call
           /\ \A w \in Space : todo[1].va <= w /\ w < todo[1].va + s => PG!Translate(mem', w) = PG!None
           /\ \A w \in Space : ~(todo[1].va <= w /\ w < todo[1].va + s) => Unmoved(mem, mem', w)
<1>1. PICK c \in DestroyCall : c = todo[1] /\ c = Head(todo)
  BY HeadCall
<1>2. c.va \in Nat /\ c.n \in Nat /\ c.va + c.n <= TableLimit
  BY <1>1 DEF DestroyCall
<1>3. ~PG!Returns(c) /\ ~PG!Hole(c) /\ ~PG!Cuts(c) /\ UNCHANGED <<GbPageSupport, call>>
  BY <1>1 DEF PG!DestroyRound
<1>4. c.n > 0
  BY <1>2, <1>3, ReturnsIs
<1>5. PICK l \in 0 .. 2 : l = PG!DestroyLevel(c) /\ c.n >= PG!Size(l) /\ c.va % PG!Size(l) = 0
  <2>1. PICK S : S = {c.va} /\ S \subseteq Nat
    BY <1>2
  <2>2. PICK l : l = PG!FitLevel(c.n, S)
    OBVIOUS
  <2>3. l \in 0 .. 2 /\ c.n >= PG!Size(l) /\ \A s \in S : s % PG!Size(l) = 0
    BY <1>2, <1>4, <2>1, <2>2, FitFacts
  <2> QED
    BY <2>1, <2>2, <2>3 DEF PG!DestroyLevel
<1>6. PICK k : k = PG!Smaller(c.n \div PG!Size(l), F - PG!Index(c.va, l)) /\ k = PG!Count(c, l)
  BY DEF PG!Count
<1>7. /\ mem' = PG!WriteEntries(mem, c.va, l, NoPages(k))
      /\ todo' = <<PG!Destroy(c.va + k * PG!Size(l), c.n - k * PG!Size(l))>> \o Tail(todo)
  BY <1>1, <1>5, <1>6, Zenon DEF PG!DestroyRound, NoPages
<1>8. PG!Reached(mem, c.va, l)
  <2>1. Tree(mem)
    BY DEF Good
  <2>2. TableLimit \in Nat /\ PG!VSize \in Nat
    BY LevelSizes DEF PG!PagingConstants
  <2>3. c.va \in Space
    BY <1>2, <2>2 DEF Space
  <2>4. PICK e, q : q = PG!EndLevel(mem, c.va) /\ e = PG!Entry(mem, c.va, q)
    OBVIOUS
  <2>5. q \in PG!Levels /\ e.kind \in {"none", "page"}
    BY <2>1, <2>3, <2>4, TranslateIs
  <2>6. q <= l
    <3>1. ~(e.kind = "none" /\ (q >= 2 \/ q > l)) /\ ~(e.kind = "page" /\ q > l)
      BY <1>3, <1>5, <2>4 DEF PG!Hole, PG!Cuts
    <3> QED
      BY <2>5, <3>1 DEF PG!Levels
  <2>7. PG!Reached(mem, c.va, q)
    BY <2>1, <2>3, <2>4, Ends
  <2>8. l \in PG!Levels
    BY DEF PG!Levels
  <2>9. CASE q = l
    BY <2>7, <2>9
  <2>10. CASE q < l
    BY <2>5, <2>7, <2>8, <2>10, ReachedAbove
  <2> QED
    BY <2>5, <2>6, <2>9, <2>10 DEF PG!Levels
<1>9. PICK x, va, n : x = mem' /\ va = c.va /\ n = c.n
  OBVIOUS
<1>10. /\ Good(x)
       /\ k * PG!Size(l) \in Nat /\ k * PG!Size(l) > 0 /\ k * PG!Size(l) <= n
       /\ \A w \in Space : va <= w /\ w < va + k * PG!Size(l) => PG!Translate(x, w) = PG!None
       /\ \A w \in Space : ~(va <= w /\ w < va + k * PG!Size(l)) => Unmoved(mem, x, w)
  <2>1. /\ va \in Nat /\ n \in Nat /\ n > 0 /\ va + n <= TableLimit /\ n >= PG!Size(l) /\ va % PG!Size(l) = 0
        /\ k = PG!Smaller(n \div PG!Size(l), F - PG!Index(va, l)) /\ PG!Reached(mem, va, l)
        /\ x = PG!WriteEntries(mem, va, l, NoPages(k))
    BY <1>2, <1>4, <1>5, <1>6, <1>7, <1>8, <1>9
  <2> QED
    BY ONLY PG!PagingConstants, TableLimit < PG!VSize, Good(mem), l \in 0 .. 2, <2>1, DestroySound
<1>11. Good(mem)'
  BY <1>3, <1>9, <1>10 DEF Good, PagesOK
<1>12. PICK s \in Nat : s = k * PG!Size(l)
  BY <1>10
<1>13. todo' = <<PG!Destroy(c.va + s, c.n - s)>> \o Tail(todo)
  BY <1>7, <1>12
<1> QED
  BY <1>1, <1>3, <1>9, <1>10, <1>11, <1>12, <1>13

(* A round of the create_mapping that the kernel called. *)
LEMMA CreatingRound ==
  ASSUME PG!PagingConstants, TableLimit < PG!VSize, PagingInv, call.c.op = "create", todo # <<>>, PG!CreateRound
  PROVE  PagingInv'
<1>0. TableLimit \in Nat /\ PG!VSize \in Nat
  BY LevelSizes DEF PG!PagingConstants
<1>1. Good(mem) /\ todo \in Seq(CallSet) /\ call.c \in CreateCall /\ End <= TableLimit /\ Creating
  BY DEF PagingInv, CallSet, DestroyCall
<1>2. PICK va \in Nat, pa \in Nat, n \in Nat, at \in Attrs : call.c.va = va /\ call.c.pa = pa /\ call.c.n = n /\ call.c.attr = at
  BY <1>1 DEF CreateCall
<1>3. End = va + n
  BY <1>2 DEF End
<1>4. PICK d \in va .. va + n :
        CreateAt(d) /\ Len(todo) = 1 /\ todo[1] = PG!Create(d, pa + (d - va), va + n - d, at)
  BY <1>1, <1>2, <1>3 DEF Creating
<1>5. /\ todo[1] \in CreateCall /\ todo[1].va = d /\ todo[1].pa = pa + (d - va) /\ todo[1].n = va + n - d /\ todo[1].attr = at
  BY <1>4 DEF PG!Create, CreateCall
<1>6. PICK s \in Nat, l \in 0 .. 2 :
           /\ s > 0 /\ s <= va + n - d
           /\ todo' = <<PG!Create(d + s, (pa + (d - va)) + s, (va + n - d) - s, at)>> \o Tail(todo)
           /\ Good(mem)' /\ call' = call
           /\ \A w \in Space : d <= w /\ w < d + s =>
                PG!Translate(mem', w) = PG!Page((pa + (d - va)) + (w - d), at) /\ BlockEnd(mem', w) <= d + s
           /\ \A w \in Space : ~(d <= w /\ w < d + s) =>
                \/ Unmoved(mem, mem', w)
                \/ /\ PG!Translate(mem', w) = PG!None /\ PG!EndLevel(mem, w) > l
                   /\ w \div PG!Size(PG!EndLevel(mem, w)) = d \div PG!Size(PG!EndLevel(mem, w))
  <2>1. todo[1].va + todo[1].n <= TableLimit
    BY <1>1, <1>3, <1>5
  <2>2. \E s \in Nat, l \in 0 .. 2 :
           /\ s > 0 /\ s <= todo[1].n /\ \A k \in PG!Levels : todo[1].n < PG!Size(k) => l < k
           /\ todo' = <<PG!Create(todo[1].va + s, todo[1].pa + s, todo[1].n - s, todo[1].attr)>> \o Tail(todo)
           /\ Good(mem)' /\ call' = call
           /\ \A w \in Space : todo[1].va <= w /\ w < todo[1].va + s =>
                /\ PG!Translate(mem', w) = PG!Page(todo[1].pa + (w - todo[1].va), todo[1].attr)
                /\ BlockEnd(mem', w) <= todo[1].va + s
           /\ \A w \in Space : ~(todo[1].va <= w /\ w < todo[1].va + s) =>
                \/ Unmoved(mem, mem', w)
                \/ /\ PG!Translate(mem', w) = PG!None /\ PG!EndLevel(mem, w) > l
                   /\ w \div PG!Size(PG!EndLevel(mem, w)) = todo[1].va \div PG!Size(PG!EndLevel(mem, w))
    BY <1>1, <1>5, <2>1, CreateRoundDoes
  <2> QED
    BY <1>5, <2>2
<1>7. d \in Space /\ d \in PG!Addresses /\ PG!Asked(d) /\ Tree(mem)
  BY <1>0, <1>1, <1>2, <1>3, <1>6 DEF Space, PG!Addresses, PG!Asked, Good
<1>8. ASSUME NEW w \in Space, va <= w, w < d + s
      PROVE  PG!Translate(mem', w) = PG!Page(pa + (w - va), at) /\ BlockEnd(mem', w) <= d + s
  <2>0. w \in Nat
    BY <1>0, <1>8 DEF Space
  <2>1. CASE d <= w
    <3>1. (pa + (d - va)) + (w - d) = pa + (w - va)
      BY <2>0
    <3> QED
      BY <1>6, <1>8, <2>1, <3>1
  <2>2. CASE w < d
    <3>1. PG!Translate(mem, w) = PG!Page(pa + (w - va), at) /\ BlockEnd(mem, w) <= d
      BY <1>2, <1>4, <1>8, <2>2 DEF CreateAt
    <3>2. ASSUME w \div PG!Size(PG!EndLevel(mem, w)) = d \div PG!Size(PG!EndLevel(mem, w)) PROVE FALSE
      <4>1. PG!EndLevel(mem, w) \in PG!Levels
        BY <1>7, Ends
      <4>2. d < BlockEnd(mem, w)
        BY <1>7, <3>2, <4>1, Block DEF BlockEnd
      <4>3. BlockEnd(mem, w) \in Int
        BY <2>0, <4>1, Block, LevelSizes DEF BlockEnd
      <4> QED
        BY <3>1, <4>2, <4>3
    <3>3. Unmoved(mem, mem', w)
      BY <1>6, <2>0, <2>2, <3>2
    <3>4. PG!Translate(mem', w) = PG!Translate(mem, w) /\ BlockEnd(mem', w) = BlockEnd(mem, w)
      BY <3>3, UnmovedSame DEF Unmoved, BlockEnd
    <3>5. BlockEnd(mem, w) \in Int
      <4>1. PG!EndLevel(mem, w) \in PG!Levels
        BY <1>7, Ends
      <4> QED
        BY <2>0, <4>1, Block, LevelSizes, SMTT(30) DEF BlockEnd
    <3> QED
      BY <3>1, <3>4, <3>5
  <2> QED
    BY <2>0, <2>1, <2>2
<1>9. ASSUME NEW w \in Space, ~PG!Asked(w)
      PROVE  Unmoved(call.before, mem', w) \/ (PG!Translate(mem', w) = PG!None /\ PG!InCutHuge(w))
  <2>0. w \in Nat
    BY <1>0, <1>9 DEF Space
  <2>1. ~(d <= w /\ w < d + s)
    BY <1>2, <1>6, <1>9, <2>0, SMTT(30) DEF PG!Asked
  <2>2. Unmoved(call.before, mem, w) \/ (PG!Translate(mem, w) = PG!None /\ PG!InCutHuge(w))
    BY <1>4, <1>9 DEF CreateAt
  <2>3. CASE Unmoved(mem, mem', w)
    <3>1. CASE Unmoved(call.before, mem, w)
      BY <2>3, <3>1 DEF Unmoved
    <3>2. CASE PG!Translate(mem, w) = PG!None /\ PG!InCutHuge(w)
      BY <2>3, <3>2, UnmovedSame
    <3> QED
      BY <2>2, <3>1, <3>2
  <2>4. CASE ~Unmoved(mem, mem', w)
    <3>1. /\ PG!Translate(mem', w) = PG!None /\ PG!EndLevel(mem, w) > l
          /\ w \div PG!Size(PG!EndLevel(mem, w)) = d \div PG!Size(PG!EndLevel(mem, w))
      BY <1>6, <2>1, <2>4
    <3>2. CASE Unmoved(call.before, mem, w)
      <4>1. PG!EndLevel(mem, w) \in PG!Levels
        BY <1>7, Ends
      <4>2. PG!EndLevel(call.before, w) = PG!EndLevel(mem, w) /\ PG!EndLevel(mem, w) > 0
        BY <3>1, <3>2, <4>1 DEF Unmoved, PG!Levels
      <4>3. PG!InCutHuge(w)
        BY <1>7, <3>1, <4>2 DEF PG!InCutHuge
      <4> QED
        BY <3>1, <4>3
    <3> QED
      BY <2>2, <3>1, <3>2
  <2> QED
    BY <2>3, <2>4
<1>10. CreateAt(d + s)'
  BY <1>2, <1>6, <1>8, <1>9 DEF CreateAt, PG!Asked, PG!InCutHuge
<1>11. d + s \in va .. va + n /\ (pa + (d - va)) + s = pa + ((d + s) - va) /\ (va + n - d) - s = va + n - (d + s)
       /\ pa + ((d + s) - va) \in Nat /\ va + n - (d + s) \in Nat /\ d + s \in Nat
  <2>1. s <= va + n - d /\ d \in Nat /\ va <= d
    BY <1>6
  <2> QED
    BY ONLY <2>1, va \in Nat, pa \in Nat, n \in Nat, s \in Nat
<1>12. PICK c \in CreateCall : c = PG!Create(d + s, pa + ((d + s) - va), va + n - (d + s), at)
  BY <1>11 DEF CreateCall, PG!Create
<1>13. todo' \in Seq(CallSet) /\ Len(todo') = 1 /\ todo'[1] = c
  <2>1. c \in CallSet
    BY DEF CallSet
  <2>2. todo' = <<c>> \o Tail(todo)
    BY <1>6, <1>11, <1>12
  <2> QED
    BY <1>1, <1>4, <2>1, <2>2, ReplaceHead
<1>14. Creating'
  <2>1. End' = va + n /\ call'.c.va = va /\ call'.c.pa = pa /\ call'.c.attr = at
    BY <1>2, <1>3, <1>6 DEF End
  <2>2. todo'[1] = PG!Create(d + s, call'.c.pa + ((d + s) - call'.c.va), End' - (d + s), call'.c.attr)
    BY <1>12, <1>13, <2>1
  <2>3. d + s \in call'.c.va .. End'
    BY <1>11, <2>1
  <2> QED
    BY <1>10, <1>13, <2>2, <2>3, Zenon DEF Creating
<1> QED
  BY <1>1, <1>6, <1>13, <1>14 DEF PagingInv, End


(* A round of the destroy_mapping that the kernel called. *)
LEMMA DestroyingRound ==
  ASSUME PG!PagingConstants, TableLimit < PG!VSize, PagingInv, call.c.op = "destroy", Len(todo) = 1, PG!DestroyRound
  PROVE  PagingInv'
<1>0. TableLimit \in Nat /\ PG!VSize \in Nat
  BY LevelSizes DEF PG!PagingConstants
<1>1. Good(mem) /\ todo \in Seq(CallSet) /\ todo # <<>> /\ call.c \in DestroyCall /\ End <= TableLimit /\ Destroying
  <2>1. call.c \in DestroyCall
    BY DEF PagingInv, CallSet, CreateCall
  <2>2. todo # <<>>
    OBVIOUS
  <2> QED
    BY <2>1, <2>2 DEF PagingInv
<1>2. PICK va \in Nat, n \in Nat : call.c.va = va /\ call.c.n = n /\ End = va + n
  BY <1>1 DEF DestroyCall, End
<1>3. PICK d \in va .. va + n : DestroyAt(d) /\ todo[1] = PG!Destroy(d, va + n - d)
  BY <1>1, <1>2 DEF Destroying
<1>4. todo[1] \in DestroyCall /\ todo[1].va = d /\ todo[1].n = va + n - d
  BY <1>3 DEF PG!Destroy, DestroyCall
<1>5. PICK s \in Nat :
           /\ s > 0 /\ s <= va + n - d
           /\ todo' = <<PG!Destroy(d + s, (va + n - d) - s)>> \o Tail(todo)
           /\ Good(mem)' /\ call' = call
           /\ \A w \in Space : d <= w /\ w < d + s => PG!Translate(mem', w) = PG!None
           /\ \A w \in Space : ~(d <= w /\ w < d + s) => Unmoved(mem, mem', w)
  <2>1. todo[1].va + todo[1].n <= TableLimit
    BY <1>1, <1>2, <1>4
  <2>2. \E s \in Nat :
           /\ s > 0 /\ s <= todo[1].n
           /\ todo' = <<PG!Destroy(todo[1].va + s, todo[1].n - s)>> \o Tail(todo)
           /\ Good(mem)' /\ call' = call
           /\ \A w \in Space : todo[1].va <= w /\ w < todo[1].va + s => PG!Translate(mem', w) = PG!None
           /\ \A w \in Space : ~(todo[1].va <= w /\ w < todo[1].va + s) => Unmoved(mem, mem', w)
    BY <1>1, <1>4, <2>1, DestroyRoundDoes
  <2> QED
    BY <1>4, <2>2
<1>6. d + s \in va .. va + n /\ (va + n - d) - s = va + n - (d + s) /\ va + n - (d + s) \in Nat /\ d + s \in Nat
  <2>1. s <= va + n - d /\ d \in Nat /\ va <= d
    BY <1>5
  <2> QED
    BY ONLY <2>1, va \in Nat, n \in Nat, s \in Nat
<1>7. ASSUME NEW w \in Space
      PROVE  PG!Translate(mem', w) = IF va <= w /\ w < d + s THEN PG!None ELSE PG!Translate(call.before, w)
  <2>0. w \in Nat
    BY <1>0, <1>7 DEF Space
  <2>1. PG!Translate(mem, w) = IF va <= w /\ w < d THEN PG!None ELSE PG!Translate(call.before, w)
    BY <1>2, <1>3 DEF DestroyAt, Expected
  <2>2. CASE d <= w /\ w < d + s
    BY <1>5, <2>0, <2>2
  <2>3. CASE ~(d <= w /\ w < d + s)
    <3>1. PG!Translate(mem', w) = PG!Translate(mem, w)
      BY <1>5, <2>3, UnmovedSame
    <3>2. (va <= w /\ w < d + s) <=> (va <= w /\ w < d)
      BY <2>0, <2>3
    <3> QED
      BY <2>1, <3>1, <3>2
  <2> QED
    BY <2>2, <2>3
<1>8. DestroyAt(d + s)'
  BY <1>2, <1>5, <1>7 DEF DestroyAt, Expected
<1>9. PICK c \in DestroyCall : c = PG!Destroy(d + s, va + n - (d + s))
  BY <1>6 DEF DestroyCall, PG!Destroy
<1>10. todo' \in Seq(CallSet) /\ Len(todo') = 1 /\ todo'[1] = c
  <2>1. c \in CallSet
    BY DEF CallSet
  <2>2. todo' = <<c>> \o Tail(todo)
    BY <1>5, <1>6, <1>9
  <2> QED
    BY <1>1, <2>1, <2>2, ReplaceHead
<1>11. Destroying'
  BY <1>2, <1>5, <1>6, <1>8, <1>9, <1>10, SMTT(30) DEF Destroying, End
<1> QED
  BY <1>1, <1>5, <1>10, <1>11 DEF PagingInv, End


(* A round of a create_mapping that maps a piece of a huge page again. *)
LEMMA PieceRound ==
  ASSUME PG!PagingConstants, TableLimit < PG!VSize, Good(mem), todo \in Seq(CallSet), Len(todo) > 1,
         NEW d, NEW b \in Space, NEW k \in 1 .. 2, SplitPieces(b, k), SplitAt(d, b, k), PG!CreateRound
  PROVE  /\ Good(mem)' /\ call' = call /\ todo' \in Seq(CallSet) /\ Len(todo') = Len(todo)
         /\ todo'[Len(todo)] = todo[Len(todo)] /\ SplitPieces(b, k)' /\ SplitAt(d, b, k)'
<1>0. TableLimit \in Nat /\ PG!VSize \in Nat /\ b \in Nat /\ k \in PG!Levels
  BY LevelSizes DEF PG!PagingConstants, Space, PG!Levels
<1>1. PICK z \in Nat : z = PG!Size(k) /\ z > 0
  BY <1>0, LevelSizes
<1>2. PICK N \in Nat : N = Len(todo) /\ N > 1 /\ todo # <<>>
  OBVIOUS
<1>3. /\ b % z = 0 /\ b + z <= TableLimit
      /\ \A i \in 1 .. N - 1 :
           /\ todo[i] \in CreateCall /\ todo[i].va >= b /\ todo[i].va + todo[i].n <= b + z /\ todo[i].n < z
           /\ todo[i].pa = todo[1].pa + (todo[i].va - todo[1].va) /\ todo[i].attr = todo[1].attr
           /\ todo[i].va + todo[i].n = IF i = N - 1 THEN b + z ELSE todo[i + 1].va
  BY <1>1, <1>2 DEF SplitPieces
<1>4. PICK va \in Nat, pa \in Nat, n \in Nat, at \in Attrs :
        todo[1].va = va /\ todo[1].pa = pa /\ todo[1].n = n /\ todo[1].attr = at
  BY <1>2, <1>3 DEF CreateCall
<1>5. todo[1] \in CreateCall /\ va >= b /\ va + n <= b + z /\ n < z
  BY <1>2, <1>3, <1>4
<1>6. PICK s \in Nat, l \in 0 .. 2 :
           /\ s > 0 /\ s <= n /\ l < k
           /\ todo' = <<PG!Create(va + s, pa + s, n - s, at)>> \o Tail(todo)
           /\ Good(mem)' /\ call' = call
           /\ \A w \in Space : va <= w /\ w < va + s =>
                PG!Translate(mem', w) = PG!Page(pa + (w - va), at) /\ BlockEnd(mem', w) <= va + s
           /\ \A w \in Space : ~(va <= w /\ w < va + s) =>
                \/ Unmoved(mem, mem', w)
                \/ /\ PG!Translate(mem', w) = PG!None /\ PG!EndLevel(mem, w) > l
                   /\ w \div PG!Size(PG!EndLevel(mem, w)) = va \div PG!Size(PG!EndLevel(mem, w))
  <2>1. todo[1].va + todo[1].n <= TableLimit
    BY <1>0, <1>3, <1>4, <1>5
  <2>2. \E s \in Nat, l \in 0 .. 2 :
           /\ s > 0 /\ s <= todo[1].n /\ \A j \in PG!Levels : todo[1].n < PG!Size(j) => l < j
           /\ todo' = <<PG!Create(todo[1].va + s, todo[1].pa + s, todo[1].n - s, todo[1].attr)>> \o Tail(todo)
           /\ Good(mem)' /\ call' = call
           /\ \A w \in Space : todo[1].va <= w /\ w < todo[1].va + s =>
                /\ PG!Translate(mem', w) = PG!Page(todo[1].pa + (w - todo[1].va), todo[1].attr)
                /\ BlockEnd(mem', w) <= todo[1].va + s
           /\ \A w \in Space : ~(todo[1].va <= w /\ w < todo[1].va + s) =>
                \/ Unmoved(mem, mem', w)
                \/ /\ PG!Translate(mem', w) = PG!None /\ PG!EndLevel(mem, w) > l
                   /\ w \div PG!Size(PG!EndLevel(mem, w)) = todo[1].va \div PG!Size(PG!EndLevel(mem, w))
    BY <1>2, <1>5, <2>1, CreateRoundDoes
  <2> QED
    BY <1>0, <1>1, <1>4, <1>5, <2>2
<1>7. va \in Space /\ va < b + z /\ va + s <= b + z /\ va + s \in Nat /\ Tree(mem) /\ Tree(mem)'
  BY <1>0, <1>3, <1>5, <1>6, SMTT(30) DEF Space, Good
<1>8. PICK c \in CreateCall : c = PG!Create(va + s, pa + s, n - s, at)
  <2>1. va + s \in Nat /\ pa + s \in Nat /\ n - s \in Nat
    BY <1>6
  <2> QED
    BY <2>1 DEF CreateCall, PG!Create
<1>9. c.va = va + s /\ c.pa = pa + s /\ c.n = n - s /\ c.attr = at
  BY <1>8 DEF PG!Create
<1>10. todo' \in Seq(CallSet) /\ Len(todo') = N /\ todo'[1] = c /\ \A i \in 2 .. N : todo'[i] = todo[i]
  <2>1. c \in CallSet
    BY DEF CallSet
  <2>2. todo' = <<c>> \o Tail(todo)
    BY <1>6, <1>8
  <2> QED
    BY <1>2, <2>1, <2>2, ReplaceHead
<1>11. SplitPieces(b, k)'
  <2> SUFFICES ASSUME NEW i \in 1 .. N - 1
               PROVE  /\ todo'[i] \in CreateCall /\ todo'[i].va >= b /\ todo'[i].va + todo'[i].n <= b + z /\ todo'[i].n < z
                      /\ todo'[i].pa = todo'[1].pa + (todo'[i].va - todo'[1].va) /\ todo'[i].attr = todo'[1].attr
                      /\ todo'[i].va + todo'[i].n = IF i = N - 1 THEN b + z ELSE todo'[i + 1].va
    BY <1>1, <1>3, <1>10 DEF SplitPieces
  <2>1. i # N - 1 => todo'[i + 1] = todo[i + 1]
    BY <1>2, <1>10
  <2>2. CASE i = 1
    <3>1. va + n = IF i = N - 1 THEN b + z ELSE todo[i + 1].va
      BY <1>3, <1>4, <2>2
    <3>2. (va + s) + (n - s) = va + n /\ n - s \in Nat /\ n - s < z /\ va + s >= b /\ pa + s = (pa + s) + ((va + s) - (va + s))
      BY <1>0, <1>1, <1>5, <1>6
    <3>3. todo'[i] = c
      BY <1>10, <2>2
    <3> QED
      BY <1>5, <1>9, <1>10, <2>1, <3>1, <3>2, <3>3
  <2>3. CASE i # 1
    <3>1. i \in 2 .. N /\ todo'[i] = todo[i]
      BY <1>2, <1>10, <2>3
    <3>2. PICK vi \in Nat, pi \in Nat : vi = todo[i].va /\ pi = todo[i].pa
      BY <1>3 DEF CreateCall
    <3>3. pi = pa + (vi - va) /\ todo[i].attr = at
      BY <1>3, <1>4, <3>2
    <3>4. pi = (pa + s) + (vi - (va + s))
      BY <3>3
    <3>5. todo'[i].pa = todo'[1].pa + (todo'[i].va - todo'[1].va) /\ todo'[i].attr = todo'[1].attr
      BY <1>9, <1>10, <3>1, <3>2, <3>3, <3>4
    <3>6. todo[i].va + todo[i].n = IF i = N - 1 THEN b + z ELSE todo[i + 1].va
      BY <1>3
    <3>7. todo'[i].va + todo'[i].n = IF i = N - 1 THEN b + z ELSE todo'[i + 1].va
      BY <2>1, <3>1, <3>6
    <3>8. todo[i] \in CreateCall /\ todo[i].va >= b /\ todo[i].va + todo[i].n <= b + z /\ todo[i].n < z
      BY <1>3
    <3> QED
      BY <3>1, <3>5, <3>7, <3>8
  <2> QED
    BY <2>2, <2>3
<1>12. \A v \in Space : b <= v /\ v < b + z => Expected(v, d) = PG!Page(pa + (v - va), at)
  BY <1>1, <1>4 DEF SplitAt
<1>13. \A v \in Space : ~(va <= v /\ v < b + z) => PG!Translate(mem, v) = Expected(v, d)
  BY <1>1, <1>4 DEF SplitAt
<1>14. \/ \A v \in Space : va <= v /\ v < b + z => PG!Translate(mem, v) = PG!None
       \/ /\ va = b
          /\ \A v \in Space : b <= v /\ v < b + z => PG!EndLevel(mem, v) = k /\ PG!Translate(mem, v) = Expected(v, d)
  BY <1>1, <1>4 DEF SplitAt
<1>15. ASSUME NEW v \in Space, b <= v, v < b + z PROVE v \div z = b \div z /\ v - (v % z) + z = b + z
  <2>1. b - (b % z) = b /\ v \in Int
    BY <1>0, <1>3, <1>15 DEF Space
  <2>2. /\ (b - (b % z) <= v /\ v < b - (b % z) + z) <=> (v \in Space /\ v \div z = b \div z)
        /\ v \in Space /\ v \div z = b \div z => v % z = v - (b - (b % z))
    BY <1>0, <1>1, <2>1, Block
  <2>3. v \div z = b \div z /\ v % z = v - b
    BY <1>15, <2>1, <2>2
  <2> QED
    BY <1>0, <2>1, <2>3
<1>16. ASSUME NEW v \in Space, ~(va <= v /\ v < va + s), ~(va <= v /\ v < b + z)
       PROVE  PG!Translate(mem', v) = PG!Translate(mem, v)
  <2>1. CASE Unmoved(mem, mem', v)
    BY <2>1, UnmovedSame
  <2>2. CASE ~Unmoved(mem, mem', v)
    <3>1. PG!Translate(mem', v) = PG!None /\ va \div PG!Size(PG!EndLevel(mem, v)) = v \div PG!Size(PG!EndLevel(mem, v))
      BY <1>6, <1>16, <2>2
    <3>2. PG!EndLevel(mem, va) = PG!EndLevel(mem, v) /\ PG!Entry(mem, va, PG!EndLevel(mem, v)) = PG!Entry(mem, v, PG!EndLevel(mem, v))
      BY <1>7, <3>1, SameEnd
    <3>3. PG!Translate(mem, va) = PG!None => PG!Translate(mem, v) = PG!None
      BY <1>7, <3>2, TranslateIs
    <3>4. va = b => PG!EndLevel(mem, v) # k
      <4> SUFFICES ASSUME va = b, PG!EndLevel(mem, v) = k PROVE FALSE
        OBVIOUS
      <4>1. v \div z = b \div z /\ b - (b % z) = b /\ v \in Int
        BY <1>0, <1>1, <1>3, <3>1 DEF Space
      <4>2. (b - (b % z) <= v /\ v < b - (b % z) + z) <=> (v \in Space /\ v \div z = b \div z)
        BY <1>0, <1>1, <4>1, Block
      <4> QED
        BY <1>16, <4>1, <4>2
    <3>5. PG!Translate(mem, v) = PG!None
      BY <1>5, <1>7, <1>14, <3>2, <3>3, <3>4
    <3> QED
      BY <3>1, <3>5
  <2> QED
    BY <2>1, <2>2
<1>17. ASSUME NEW v \in Space, ~(va + s <= v /\ v < b + z) PROVE PG!Translate(mem', v) = Expected(v, d)
  <2>0. v \in Nat
    BY <1>0, <1>17 DEF Space
  <2>1. CASE va <= v /\ v < va + s
    <3>1. b <= v /\ v < b + z
      BY <1>0, <1>5, <1>7, <2>0, <2>1
    <3> QED
      BY <1>6, <1>12, <2>1, <3>1
  <2>2. CASE ~(va <= v /\ v < va + s)
    <3>1. ~(va <= v /\ v < b + z)
      BY <1>0, <1>7, <1>17, <2>0, <2>2
    <3> QED
      BY <1>13, <1>16, <2>2, <3>1
  <2> QED
    BY <2>1, <2>2
<1>18. ASSUME NEW v \in Space, va + s <= v, v < b + z PROVE PG!Translate(mem', v) = PG!None
  <2>0. v \in Nat /\ va <= v /\ b <= v /\ ~(va <= v /\ v < va + s)
    BY <1>0, <1>5, <1>18 DEF Space
  <2>1. CASE ~Unmoved(mem, mem', v)
    BY <1>6, <2>0, <2>1
  <2>2. CASE Unmoved(mem, mem', v)
    <3>1. va = b /\ PG!EndLevel(mem, v) = k => FALSE
      <4> SUFFICES ASSUME va = b, PG!EndLevel(mem, v) = k PROVE FALSE
        OBVIOUS
      <4>1. PG!EndLevel(mem', v) = k
        BY <2>2 DEF Unmoved
      <4>2. va \div z = v \div z /\ va - (va % z) + z = b + z
        BY <1>0, <1>7, <1>15, <1>18, <2>0
      <4>3. PG!EndLevel(mem', va) = k
        BY <1>1, <1>7, <4>1, <4>2, SameEnd
      <4>4. BlockEnd(mem', va) = b + z
        BY <1>1, <4>2, <4>3 DEF BlockEnd
      <4>5. BlockEnd(mem', va) <= va + s
        BY <1>6, <1>7
      <4> QED
        BY <1>0, <1>5, <1>6, <4>4, <4>5
    <3>2. PG!Translate(mem, v) = PG!None
      BY <1>14, <1>18, <2>0, <3>1
    <3> QED
      BY <2>2, <3>2, UnmovedSame
  <2> QED
    BY <2>1, <2>2
<1>19. \A v : Expected(v, d)' = Expected(v, d)
  BY <1>6 DEF Expected
<1>20. ASSUME NEW v \in Space, b <= v, v < b + z PROVE Expected(v, d) = PG!Page((pa + s) + (v - (va + s)), at)
  <2>1. (pa + s) + (v - (va + s)) = pa + (v - va)
    BY <1>0 DEF Space
  <2> QED
    BY <1>12, <1>20, <2>1
<1>21. SplitAt(d, b, k)'
  BY <1>1, <1>9, <1>10, <1>17, <1>18, <1>19, <1>20 DEF SplitAt
<1> QED
  BY <1>2, <1>6, <1>10, <1>11, <1>21


(* The pieces of a huge page that destroy_mapping cuts: they make up the page, in order, and    *)
(* none is the whole of it.                                                                     *)
LEMMA CutPieces ==
  ASSUME NEW z \in Nat, NEW v \in Nat, NEW n \in Nat, n > 0, NEW r \in 0 .. z - 1, r <= v, n < z \/ r # 0,
         NEW h, h = PG!Smaller(n, z - r)
  PROVE  h \in Nat /\ h > 0 /\ h < z /\ r < z /\ z - r - h \in Nat /\ z - r - h < z
  BY DEF PG!Smaller

(* The sequence of three calls and the one that makes them. *)
LEMMA JoinThree ==
  ASSUME NEW S, NEW x \in S, NEW y \in S, NEW w \in S, NEW c \in S, NEW t, t = <<x, y, w>> \o <<c>>
  PROVE  t \in Seq(S) /\ Len(t) = 4 /\ t[1] = x /\ t[2] = y /\ t[3] = w /\ t[4] = c
<1>1. PICK p \in Seq(S), r \in Seq(S) : p = <<x, y, w>> /\ r = <<c>>
  <2>1. <<x, y, w>> \in Seq(S)
    OBVIOUS
  <2>2. <<c>> \in Seq(S)
    OBVIOUS
  <2> QED
    BY <2>1, <2>2, Zenon
<1>2. Len(p) = 3 /\ p[1] = x /\ p[2] = y /\ p[3] = w /\ Len(r) = 1 /\ r[1] = c
  BY <1>1
<1>3. t = p \o r
  BY <1>1
<1>4. t \in Seq(S) /\ Len(t) = 4
  BY <1>2, <1>3
<1>5. \A i \in 1 .. 4 : t[i] = IF i <= 3 THEN p[i] ELSE r[i - 3]
  BY <1>2, <1>3
<1> QED
  BY <1>2, <1>4, <1>5

(* destroy_mapping meets a huge page of which it removes a part, and maps it again in pieces. *)
LEMMA SplitStep ==
  ASSUME PG!PagingConstants, TableLimit < PG!VSize, PagingInv, call.c.op = "destroy", Len(todo) = 1, PG!DestroySplit
  PROVE  PagingInv'
<1>0. TableLimit \in Nat /\ PG!VSize \in Nat
  BY LevelSizes DEF PG!PagingConstants
<1>1. Good(mem) /\ todo \in Seq(CallSet) /\ todo # <<>> /\ call.c \in DestroyCall /\ End <= TableLimit /\ Destroying
  <2>1. call.c \in DestroyCall
    BY DEF PagingInv, CallSet, CreateCall
  <2>2. todo # <<>>
    OBVIOUS
  <2> QED
    BY <2>1, <2>2 DEF PagingInv
<1>2. PICK va \in Nat, n \in Nat : call.c.va = va /\ call.c.n = n /\ End = va + n
  BY <1>1 DEF DestroyCall, End
<1>3. PICK d \in va .. va + n : DestroyAt(d) /\ todo[1] = PG!Destroy(d, va + n - d)
  BY <1>1, <1>2 DEF Destroying
<1>4. PICK c \in DestroyCall : c = todo[1] /\ c = Head(todo) /\ c = PG!Destroy(d, va + n - d)
  BY <1>1, <1>3, HeadCall DEF PG!Destroy, DestroyCall
<1>5. PICK g \in Nat : g = va + n - d /\ c.va = d /\ c.n = g /\ d + g <= TableLimit /\ d \in Nat
  BY <1>0, <1>1, <1>2, <1>4 DEF PG!Destroy
<1>6. PICK L, e : L = PG!EndLevel(mem, d) /\ e = PG!Entry(mem, d, L)
  OBVIOUS
<1>7. ~PG!Returns(c) /\ e.kind = "page" /\ L > PG!DestroyLevel(c)
      /\ todo' = PG!Pieces(c, L, e) \o todo /\ UNCHANGED <<GbPageSupport, mem, call>>
  BY <1>4, <1>5, <1>6, Zenon DEF PG!DestroySplit, PG!Cuts
<1>8. g > 0
  <2>1. c.va \in Nat /\ c.n \in Nat /\ c.va + c.n <= TableLimit
    BY <1>5
  <2>2. PG!Returns(c) <=> c.n = 0
    BY <2>1, ReturnsIs
  <2> QED
    BY <1>5, <1>7, <2>2
<1>9. d \in Space /\ Tree(mem) /\ PagesOK(mem)
  BY <1>0, <1>1, <1>5, <1>8 DEF Space, Good
<1>10. L \in PG!Levels /\ e \in EntrySet
  BY <1>6, <1>9, TranslateIs
<1>11. PICK z \in Nat : z = PG!Size(L) /\ z > 0
  BY <1>10, LevelSizes
<1>12. PICK r \in 0 .. z - 1, b \in Nat : r = d % z /\ b = d - r /\ b + z <= PG!VSize
  <2>1. d % z \in 0 .. z - 1 /\ d - (d % z) \in Nat /\ d - (d % z) + z <= PG!VSize
    BY <1>9, <1>10, <1>11, Block
  <2> QED
    BY <2>1
<1>13. L # 3 /\ b + z <= TableLimit /\ (L = 2 => GbPageSupport)
  BY <1>6, <1>7, <1>9, <1>11, <1>12 DEF PagesOK
<1>14. L \in 1 .. 2 /\ (g < z \/ r # 0)
  <2>1. PICK S : S = {d} /\ S \subseteq Nat
    BY <1>5
  <2>2. PICK l : l = PG!FitLevel(g, S)
    OBVIOUS
  <2>3. /\ l \in 0 .. 2
        /\ \A k \in 0 .. 2 : l < k /\ (k = 2 => GbPageSupport) => g < PG!Size(k) \/ \E s \in S : s % PG!Size(k) # 0
    BY <1>8, <2>1, <2>2, FitFacts
  <2>4. l = PG!DestroyLevel(c)
    BY <1>5, <2>1, <2>2 DEF PG!DestroyLevel
  <2>5. L \in 1 .. 2
    BY <1>7, <1>10, <1>13, <2>3, <2>4 DEF PG!Levels
  <2>6. g < PG!Size(L) \/ \E s \in S : s % PG!Size(L) # 0
    BY <1>7, <1>13, <2>3, <2>4, <2>5
  <2> QED
    BY <1>11, <1>12, <2>1, <2>5, <2>6
<1>15. PICK h \in Nat : h = PG!Smaller(g, z - r) /\ h > 0 /\ h < z /\ r < z /\ z - r - h \in Nat /\ z - r - h < z
  <2>1. r <= d /\ d \in Nat
    BY <1>5, <1>12
  <2>2. PICK h : h = PG!Smaller(g, z - r)
    OBVIOUS
  <2>3. h \in Nat /\ h > 0 /\ h < z /\ r < z /\ z - r - h \in Nat /\ z - r - h < z
    BY ONLY z \in Nat, g \in Nat, r \in 0 .. z - 1, <1>8, <1>14, <2>1, <2>2, CutPieces
  <2> QED
    BY <2>2, <2>3
<1>16. PICK q \in Nat, a \in Attrs : e.to = q /\ e.attr = a
  BY <1>7, <1>10, EntryKinds
<1>17. PICK x \in CreateCall, y \in CreateCall, w \in CreateCall :
          /\ x = PG!Create(b, q, r, a) /\ y = PG!Create(d, q + r, h, a) /\ w = PG!Create(d + h, q + r + h, z - r - h, a)
  <2>1. r \in Nat /\ q + r \in Nat /\ d + h \in Nat /\ q + r + h \in Nat
    BY <1>5, <1>12
  <2> QED
    BY <1>5, <1>15, <2>1 DEF PG!Create, CreateCall
<1>18. PG!Pieces(c, L, e) = <<x, y, w>>
  <2>1. PICK P : P = PG!Pieces(c, L, e)
    OBVIOUS
  <2>2. P = <<PG!Create(d - r, q, r, a), PG!Create(d, q + r, h, a), PG!Create(d + h, q + r + h, z - r - h, a)>>
    BY <1>5, <1>11, <1>12, <1>15, <1>16, <2>1, Zenon DEF PG!Pieces
  <2> QED
    BY <1>12, <1>17, <2>1, <2>2
<1>19. /\ todo' \in Seq(CallSet) /\ Len(todo') = 4
       /\ todo'[1] = x /\ todo'[2] = y /\ todo'[3] = w /\ todo'[4] = c
  <2>1. <<x, y, w>> \in Seq(CallSet) /\ Len(<<x, y, w>>) = 3
    BY DEF CallSet
  <2>2. todo = <<c>>
    BY <1>1, <1>4
  <2>3. todo' = <<x, y, w>> \o <<c>>
    BY <1>7, <1>18, <2>2
  <2>4. x \in CallSet /\ y \in CallSet /\ w \in CallSet /\ c \in CallSet
    BY DEF CallSet
  <2> QED
    BY ONLY <2>3, <2>4, JoinThree
<1>20. /\ x.va = b /\ x.pa = q /\ x.n = r /\ x.attr = a
       /\ y.va = d /\ y.pa = q + r /\ y.n = h /\ y.attr = a
       /\ w.va = d + h /\ w.pa = q + r + h /\ w.n = z - r - h /\ w.attr = a
  BY <1>17 DEF PG!Create
<1>21. b \in Space /\ b % z = 0 /\ b <= d
       /\ \A v \in Space : b <= v /\ v < b + z => d - (d % z) = b /\ v \div z = d \div z /\ v % z = v - b
  <2>1. b \in Space /\ b <= d
    BY <1>0, <1>5, <1>11, <1>12, <1>13 DEF Space
  <2>2. ASSUME NEW v \in Space, b <= v, v < b + z PROVE v \div z = d \div z /\ v % z = v - b
    <3>0. v \in Int
      BY DEF Space
    <3>1. /\ (d - (d % z) <= v /\ v < d - (d % z) + z) <=> (v \in Space /\ v \div z = d \div z)
          /\ v \in Space /\ v \div z = d \div z => v % z = v - (d - (d % z))
      BY <1>9, <1>10, <1>11, <3>0, Block
    <3> QED
      BY <1>12, <2>2, <3>1
  <2>3. b % z = b - b /\ b - b = 0
    BY <1>11, <1>12, <2>1, <2>2
  <2> QED
    BY <1>12, <2>1, <2>2, <2>3
<1>22. SplitPieces(b, L)'
  <2> SUFFICES ASSUME NEW i \in 1 .. 3
               PROVE  /\ todo'[i] \in CreateCall /\ todo'[i].va >= b /\ todo'[i].va + todo'[i].n <= b + z /\ todo'[i].n < z
                      /\ todo'[i].pa = todo'[1].pa + (todo'[i].va - todo'[1].va) /\ todo'[i].attr = todo'[1].attr
                      /\ todo'[i].va + todo'[i].n = IF i = 3 THEN b + z ELSE todo'[i + 1].va
    BY <1>11, <1>13, <1>14, <1>19, <1>21 DEF SplitPieces
  <2>0. d = b + r /\ r \in Nat
    BY <1>5, <1>12
  <2>1. CASE i = 1
    <3>1. b + r = d /\ b + r <= b + z /\ q = q + (b - b) /\ b >= b
      BY <1>15, <2>0
    <3>2. todo'[i] = x /\ todo'[i + 1] = y
      BY <1>19, <2>1
    <3>3. /\ x.va >= b /\ x.va + x.n <= b + z /\ x.n < z
          /\ x.pa = x.pa + (x.va - x.va) /\ x.attr = x.attr /\ x.va + x.n = y.va
      BY <1>15, <1>20, <3>1
    <3> QED
      BY <1>19, <2>1, <3>2, <3>3
  <2>2. CASE i = 2
    <3>1. d >= b /\ d + h <= b + z /\ q + r = q + (d - b)
      BY <1>5, <1>15, <2>0
    <3>2. todo'[i] = y /\ todo'[i + 1] = w
      BY <1>19, <2>2
    <3>3. /\ y.va >= b /\ y.va + y.n <= b + z /\ y.n < z
          /\ y.pa = x.pa + (y.va - x.va) /\ y.attr = x.attr /\ y.va + y.n = w.va
      BY <1>15, <1>20, <3>1
    <3> QED
      BY <1>19, <2>2, <3>2, <3>3
  <2>3. CASE i = 3
    <3>1. d + h >= b /\ d + h + (z - r - h) = b + z /\ q + r + h = q + (d + h - b) /\ b + z <= b + z
      BY <1>5, <1>15, <2>0
    <3>2. todo'[i] = w
      BY <1>19, <2>3
    <3>3. /\ w.va >= b /\ w.va + w.n <= b + z /\ w.n < z
          /\ w.pa = x.pa + (w.va - x.va) /\ w.attr = x.attr /\ w.va + w.n = b + z
      BY <1>15, <1>20, <3>1
    <3> QED
      BY <1>19, <2>3, <3>2, <3>3
  <2> QED
    BY <2>1, <2>2, <2>3
<1>23. ASSUME NEW v \in Space, b <= v, v < b + z
       PROVE  PG!EndLevel(mem, v) = L /\ PG!Translate(mem, v) = PG!Page(q + (v - b), a)
  <2>1. v \div z = d \div z /\ v % z = v - b
    BY <1>21, <1>23
  <2>2. PG!EndLevel(mem, v) = L /\ PG!Entry(mem, v, L) = e
    BY <1>6, <1>9, <1>11, <2>1, SameEnd
  <2>3. PG!Translate(mem, v) = PG!Page(e.to + (v % PG!Size(L)), e.attr)
    BY <1>7, <1>9, <2>2, TranslateIs
  <2> QED
    BY <1>11, <1>16, <2>1, <2>2, <2>3
<1>24. \A v \in Space : PG!Translate(mem, v) = Expected(v, d)
  BY <1>3 DEF DestroyAt
<1>25. mem' = mem /\ \A v : Expected(v, d)' = Expected(v, d)
  BY <1>7 DEF Expected
<1>26. SplitAt(d, b, L)'
  <2>1. \A v \in Space : b <= v /\ v < b + z => Expected(v, d)' = PG!Page(todo'[1].pa + (v - todo'[1].va), todo'[1].attr)
    BY <1>19, <1>20, <1>23, <1>24, <1>25
  <2>2. \A v \in Space : PG!Translate(mem', v) = Expected(v, d)'
    BY <1>24, <1>25
  <2>3. \A v \in Space : b <= v /\ v < b + z => PG!EndLevel(mem', v) = L
    BY <1>23, <1>25
  <2>4. todo'[1].va = b
    BY <1>19, <1>20
  <2> QED
    BY <1>11, <2>1, <2>2, <2>3, <2>4 DEF SplitAt
<1>27. Splitting(d)'
  BY <1>14, <1>21, <1>22, <1>26 DEF Splitting
<1>28. Destroying'
  <2>1. todo'[Len(todo')] = PG!Destroy(d, va + n - d) /\ Len(todo') > 1
    BY <1>4, <1>19
  <2> QED
    BY <1>2, <1>7, <1>27, <2>1 DEF Destroying, End
<1>29. Good(mem)'
  BY <1>1, <1>7 DEF Good, PagesOK
<1> QED
  BY <1>1, <1>7, <1>19, <1>28, <1>29 DEF PagingInv, End


(* A call returns: the one the kernel made, or one for a piece of a huge page. *)
LEMMA ReturnStep ==
  ASSUME PG!PagingConstants, TableLimit < PG!VSize, PagingInv, todo # <<>>, PG!Return
  PROVE  PagingInv'
<1>0. TableLimit \in Nat /\ PG!VSize \in Nat
  BY LevelSizes DEF PG!PagingConstants
<1>1. Good(mem) /\ todo \in Seq(CallSet) /\ call.c \in CallSet /\ End <= TableLimit
  BY DEF PagingInv
<1>2. PICK va \in Nat, n \in Nat : call.c.va = va /\ call.c.n = n /\ End = va + n
  BY <1>1 DEF CallSet, CreateCall, DestroyCall, End
<1>3. PICK c \in CallSet : c = todo[1] /\ c = Head(todo)
  BY <1>1, HeadCall
<1>4. /\ PG!Returns(c) \/ (c.op = "destroy" /\ PG!Hole(c))
      /\ todo' = Tail(todo) /\ UNCHANGED <<GbPageSupport, mem, call>>
  BY <1>3 DEF PG!Return
<1>5. PICK N \in Nat : N = Len(todo) /\ N > 0
  BY <1>1, HeadCall
<1>6. todo' \in Seq(CallSet) /\ Len(todo') = N - 1 /\ (todo' = <<>> <=> N = 1) /\ \A i \in 1 .. N - 1 : todo'[i] = todo[i + 1]
  BY <1>1, <1>4, <1>5, DropHead
<1>7. Good(mem)' /\ mem' = mem /\ call' = call /\ End' = End
  BY <1>1, <1>4 DEF Good, PagesOK, End
<1>8. ASSUME call.c.op = "create" PROVE Creating'
  <2>1. PICK d \in va .. va + n : CreateAt(d) /\ Len(todo) = 1 /\ todo[1] = PG!Create(d, call.c.pa + (d - va), va + n - d, call.c.attr)
    BY <1>2, <1>8 DEF PagingInv, Creating
  <2>2. c.op = "create" /\ c.va = d /\ c.n = va + n - d
    BY <1>3, <2>1 DEF PG!Create
  <2>3. c.va \in Nat /\ c.n \in Nat /\ c.va + c.n <= TableLimit
    BY <1>1, <1>2, <2>2
  <2>4. c.n = 0
    BY <1>4, <2>2, <2>3, ReturnsIs
  <2>5. d = va + n
    BY <2>2, <2>4
  <2>6. CreateAt(d)'
    BY <1>7, <2>1 DEF CreateAt, PG!Asked, PG!InCutHuge
  <2> QED
    BY <1>2, <1>5, <1>6, <1>7, <2>1, <2>5, <2>6 DEF Creating
<1>9. ASSUME call.c.op = "destroy" PROVE Destroying'
  <2>1. PICK d \in va .. va + n :
          \/ Len(todo) = 1 /\ todo[1] = PG!Destroy(d, va + n - d) /\ DestroyAt(d)
          \/ Len(todo) > 1 /\ todo[Len(todo)] = PG!Destroy(d, va + n - d) /\ Splitting(d)
    <3>1. Destroying
      BY <1>9 DEF PagingInv
    <3>2. PICK d \in call.c.va .. End :
            \/ Len(todo) = 1 /\ todo[1] = PG!Destroy(d, End - d) /\ DestroyAt(d)
            \/ Len(todo) > 1 /\ todo[Len(todo)] = PG!Destroy(d, End - d) /\ Splitting(d)
      BY <3>1, Zenon DEF Destroying
    <3>3. call.c.va .. End = va .. va + n /\ End - d = va + n - d
      BY <1>2
    <3> QED
      BY <3>2, <3>3, Zenon
  <2>2. \A v : Expected(v, d)' = Expected(v, d)
    BY <1>7 DEF Expected
  <2>3. CASE Len(todo) = 1 /\ todo[1] = PG!Destroy(d, va + n - d) /\ DestroyAt(d)
    <3>1. c.op = "destroy" /\ c.va = d /\ c.n = va + n - d
      BY <1>3, <2>3 DEF PG!Destroy
    <3>2. c.va \in Nat /\ c.n \in Nat /\ c.va + c.n <= TableLimit
      BY <1>1, <1>2, <3>1
    <3>3. DestroyAt(d)'
      BY <1>7, <2>2, <2>3 DEF DestroyAt
    <3>4. WasMapped => d = va + n
      <4> SUFFICES ASSUME d # va + n PROVE ~WasMapped
        OBVIOUS
      <4>1. c.n # 0
        BY <3>1
      <4>2. PG!Hole(c)
        BY <1>4, <3>2, <4>1, ReturnsIs
      <4>3. d \in Space /\ d \in PG!Addresses /\ PG!Asked(d) /\ Tree(mem)
        BY <1>0, <1>1, <1>2 DEF Space, PG!Addresses, PG!Asked, Good
      <4>4. PG!Translate(mem, d) = PG!None
        BY <3>1, <4>2 DEF PG!Hole, PG!Translate
      <4>5. PG!Translate(call.before, d) = PG!None
        BY <1>2, <2>3, <4>3, <4>4 DEF DestroyAt, Expected
      <4> QED
        BY <4>3, <4>5 DEF WasMapped
    <3>5. WasMapped' = WasMapped
      BY <1>7 DEF WasMapped, PG!Asked
    <3> QED
      BY <1>2, <1>5, <1>6, <1>7, <2>3, <3>3, <3>4, <3>5 DEF Destroying
  <2>4. CASE Len(todo) > 1 /\ todo[Len(todo)] = PG!Destroy(d, va + n - d) /\ Splitting(d)
    <3>1. PICK b \in Space, k \in 1 .. 2 : SplitPieces(b, k) /\ SplitAt(d, b, k)
      BY <2>4 DEF Splitting
    <3>2. PICK z \in Nat : z = PG!Size(k) /\ b \in Nat
      <4>1. k \in PG!Levels /\ b \in Nat
        BY <1>0 DEF PG!Levels, Space
      <4> QED
        BY <4>1, LevelSizes
    <3>3. /\ b % z = 0 /\ b + z <= TableLimit /\ k \in 1 .. 2
          /\ \A i \in 1 .. N - 1 :
               /\ todo[i] \in CreateCall /\ todo[i].va >= b /\ todo[i].va + todo[i].n <= b + z /\ todo[i].n < z
               /\ todo[i].pa = todo[1].pa + (todo[i].va - todo[1].va) /\ todo[i].attr = todo[1].attr
               /\ todo[i].va + todo[i].n = IF i = N - 1 THEN b + z ELSE todo[i + 1].va
      BY <1>5, <3>1, <3>2 DEF SplitPieces
    <3>4. c \in CreateCall /\ c.op = "create" /\ c.va \in Nat /\ c.pa \in Nat /\ c.n \in Nat /\ c.va + c.n <= b + z
      BY <1>3, <1>5, <2>4, <3>3 DEF CreateCall
    <3>5. c.n = 0
      <4>1. c.va + c.n <= TableLimit
        BY <1>0, <3>2, <3>3, <3>4
      <4> QED
        BY <1>4, <3>4, <4>1, ReturnsIs
    <3>6. c.va = IF 1 = N - 1 THEN b + z ELSE todo[2].va
      <4>1. c.va + c.n = IF 1 = N - 1 THEN b + z ELSE todo[1 + 1].va
        BY <1>3, <1>5, <2>4, <3>3
      <4> QED
        BY <3>4, <3>5, <4>1
    <3>7. /\ \A v \in Space : b <= v /\ v < b + z => Expected(v, d) = PG!Page(c.pa + (v - c.va), c.attr)
          /\ \A v \in Space : ~(c.va <= v /\ v < b + z) => PG!Translate(mem, v) = Expected(v, d)
          /\ \/ \A v \in Space : c.va <= v /\ v < b + z => PG!Translate(mem, v) = PG!None
             \/ /\ c.va = b
                /\ \A v \in Space : b <= v /\ v < b + z => PG!EndLevel(mem, v) = k /\ PG!Translate(mem, v) = Expected(v, d)
      BY <1>3, <3>1, <3>2 DEF SplitAt
    <3>8. CASE N = 2
      <4>1. todo'[1] = PG!Destroy(d, va + n - d) /\ Len(todo') = 1
        BY <1>5, <1>6, <2>4, <3>8
      <4>2. \A v \in Space : ~(c.va <= v /\ v < b + z)
        BY <3>2, <3>6, <3>8 DEF Space
      <4>3. DestroyAt(d)'
        BY <1>7, <2>2, <3>7, <4>2 DEF DestroyAt
      <4> QED
        BY <1>2, <1>7, <4>1, <4>3 DEF Destroying
    <3>9. CASE N > 2
      <4>1. Len(todo') > 1 /\ todo'[Len(todo')] = PG!Destroy(d, va + n - d) /\ todo'[1] = todo[2]
        BY <1>5, <1>6, <2>4, <3>9
      <4>2. /\ todo[2] \in CreateCall /\ todo[2].pa = todo[1].pa + (todo[2].va - todo[1].va)
            /\ todo[2].attr = todo[1].attr /\ todo[2].va = c.va
        BY <3>3, <3>6, <3>9
      <4>3. todo[2].pa = c.pa /\ todo[2].attr = c.attr
        BY <1>3, <3>4, <4>2
      <4>4. SplitAt(d, b, k)'
        BY <1>7, <2>2, <3>2, <3>7, <4>1, <4>2, <4>3 DEF SplitAt
      <4>5. SplitPieces(b, k)'
        <5> SUFFICES ASSUME NEW i \in 1 .. N - 2
                     PROVE  /\ todo'[i] \in CreateCall /\ todo'[i].va >= b /\ todo'[i].va + todo'[i].n <= b + z /\ todo'[i].n < z
                            /\ todo'[i].pa = todo'[1].pa + (todo'[i].va - todo'[1].va) /\ todo'[i].attr = todo'[1].attr
                            /\ todo'[i].va + todo'[i].n = IF i = N - 2 THEN b + z ELSE todo'[i + 1].va
          BY <1>5, <1>6, <3>2, <3>3, <3>9 DEF SplitPieces
        <5>1. PICK j \in 1 .. N - 1 : j = i + 1 /\ todo'[i] = todo[j]
          BY <1>6, <3>9
        <5>2. i # N - 2 => todo'[i + 1] = todo[j + 1]
          BY <1>6, <3>9, <5>1
        <5>3. i = N - 2 <=> j = N - 1
          BY <3>9, <5>1
        <5>4. todo[j].va + todo[j].n = IF j = N - 1 THEN b + z ELSE todo[j + 1].va
          BY <3>3
        <5>5. todo'[i].va + todo'[i].n = IF i = N - 2 THEN b + z ELSE todo'[i + 1].va
          BY <5>1, <5>2, <5>3, <5>4
        <5>6. todo'[i].pa = todo'[1].pa + (todo'[i].va - todo'[1].va) /\ todo'[i].attr = todo'[1].attr
          <6>1. todo[j].pa = todo[1].pa + (todo[j].va - todo[1].va) /\ todo[j].attr = todo[1].attr
            BY <3>3
          <6>2. todo'[1].pa = todo[1].pa /\ todo'[1].va = todo[1].va /\ todo'[1].attr = todo[1].attr
            BY <1>3, <4>1, <4>2, <4>3
          <6> QED
            BY <5>1, <6>1, <6>2
        <5>7. todo[j] \in CreateCall /\ todo[j].va >= b /\ todo[j].va + todo[j].n <= b + z /\ todo[j].n < z
          BY <3>3
        <5> QED
          BY <5>1, <5>5, <5>6, <5>7
      <4>6. Splitting(d)'
        BY <4>4, <4>5 DEF Splitting
      <4> QED
        BY <1>2, <1>7, <4>1, <4>6 DEF Destroying
    <3> QED
      BY <1>5, <2>4, <3>8, <3>9
  <2> QED
    BY <2>1, <2>3, <2>4
<1> QED
  BY <1>1, <1>6, <1>7, <1>8, <1>9 DEF PagingInv


(* The kernel makes a call. *)
LEMMA CallBegins ==
  ASSUME PG!PagingConstants, TableLimit < PG!VSize, PagingInv, PG!create_mapping \/ PG!destroy_mapping
  PROVE  PagingInv'
<1>0. TableLimit \in Nat /\ PG!VSize \in Nat
  BY LevelSizes DEF PG!PagingConstants
<1>1. PICK c \in CallSet : PG!Begin(c) /\ c.va + c.n <= TableLimit
  <2>1. CASE PG!create_mapping
    <3>1. PICK va \in 0 .. TableLimit - 1, n \in Lens, s \in Shifts, a \in Attrs : va + n <= TableLimit /\ PG!Begin(PG!Create(va, va + s, n, a))
      BY <2>1 DEF PG!create_mapping
    <3>2. n \in Nat /\ va \in Nat /\ va + s \in Nat
      BY DEF PG!PagingConstants
    <3>3. PICK c : c = PG!Create(va, va + s, n, a) /\ PG!Begin(c)
      BY <3>1
    <3>4. c \in CallSet /\ c.va = va /\ c.n = n
      BY <3>2, <3>3 DEF PG!Create, CallSet, CreateCall
    <3> QED
      BY <3>1, <3>3, <3>4
  <2>2. CASE PG!destroy_mapping
    <3>1. PICK va \in 0 .. TableLimit - 1, n \in Lens : va + n <= TableLimit /\ PG!Begin(PG!Destroy(va, n))
      BY <2>2 DEF PG!destroy_mapping
    <3>2. n \in Nat /\ va \in Nat
      BY DEF PG!PagingConstants
    <3>3. PICK c : c = PG!Destroy(va, n) /\ PG!Begin(c)
      BY <3>1
    <3>4. c \in CallSet /\ c.va = va /\ c.n = n
      BY <3>2, <3>3 DEF PG!Destroy, CallSet, DestroyCall
    <3> QED
      BY <3>1, <3>3, <3>4
  <2> QED
    BY <2>1, <2>2
<1>2. todo' = <<c>> /\ call'.c = c /\ call'.before = mem /\ UNCHANGED <<GbPageSupport, mem>>
  BY <1>1 DEF PG!Begin
<1>3. PICK va \in Nat, n \in Nat : c.va = va /\ c.n = n
  BY <1>1 DEF CallSet, CreateCall, DestroyCall
<1>4. End' = va + n /\ va \in va .. va + n /\ End' - va = n /\ va + n <= TableLimit
  BY <1>1, <1>2, <1>3 DEF End
<1>5. Good(mem)' /\ mem' = mem
  BY <1>2 DEF PagingInv, Good, PagesOK
<1>6. todo' \in Seq(CallSet) /\ Len(todo') = 1 /\ todo'[1] = c
  BY <1>1, <1>2
<1>7. ASSUME c.op = "create" PROVE Creating'
  <2>1. PICK pa \in Nat, at \in Attrs : c.pa = pa /\ c.attr = at /\ c = PG!Create(va, pa, n, at)
    BY <1>1, <1>3, <1>7 DEF CallSet, CreateCall, DestroyCall, PG!Create
  <2>2. CreateAt(va)'
    <3>1. \A v \in Space : ~(va <= v /\ v < va)
      BY <1>0 DEF Space
    <3>2. \A v : Unmoved(mem, mem, v)
      BY DEF Unmoved
    <3> QED
      BY <1>2, <1>3, <1>5, <3>1, <3>2 DEF CreateAt
  <2>3. pa + (va - va) = pa
    OBVIOUS
  <2> QED
    BY <1>2, <1>3, <1>4, <1>6, <2>1, <2>2, <2>3 DEF Creating
<1>8. ASSUME c.op = "destroy" PROVE Destroying'
  <2>1. c = PG!Destroy(va, n)
    BY <1>1, <1>3, <1>8 DEF CallSet, CreateCall, DestroyCall, PG!Destroy
  <2>2. DestroyAt(va)'
    <3>1. \A v \in Space : ~(va <= v /\ v < va)
      BY <1>0 DEF Space
    <3> QED
      BY <1>2, <1>3, <1>5, <3>1 DEF DestroyAt, Expected
  <2> QED
    BY <1>2, <1>3, <1>4, <1>6, <2>1, <2>2 DEF Destroying
<1> QED
  BY <1>1, <1>2, <1>4, <1>5, <1>6, <1>7, <1>8 DEF PagingInv

(* At first there is the PML4 alone, and it maps nothing. *)
LEMMA PagingStart ==
  ASSUME PG!PagingConstants, TableLimit < PG!VSize, PG!Init
  PROVE  PagingInv
<1>0. TableLimit \in Nat /\ PG!VSize \in Nat /\ F \in Nat /\ F > 1 /\ PG!VSize > 0
  BY LevelSizes DEF PG!PagingConstants
<1>1. mem = [t \in {0} |-> PG!Blank] /\ todo = <<>> /\ call.c = PG!Destroy(0, 0) /\ call.before = mem
  BY DEF PG!Init, PG!KernelPML4
<1>2. DOMAIN mem = {0} /\ mem[0] = PG!Blank
  BY <1>1
<1>3. \A v \in Space : PG!Index(v, 3) \in 0 .. F - 1
  <2>1. 3 \in PG!Levels
    BY DEF PG!Levels
  <2> QED
    BY <2>1, PlaceFacts
<1>4. \A v \in Space : PG!Entry(mem, v, 3) = PG!None /\ PG!TableOf(mem, v, 3) = 0 /\ PG!Reached(mem, v, 3)
  <2> SUFFICES ASSUME NEW v \in Space PROVE PG!Entry(mem, v, 3) = PG!None /\ PG!TableOf(mem, v, 3) = 0 /\ PG!Reached(mem, v, 3)
    OBVIOUS
  <2>1. PG!TableOf(mem, v, 3) = 0 /\ PG!Reached(mem, v, 3)
    BY WalkDown DEF PG!KernelPML4
  <2>2. PG!Entry(mem, v, 3) = mem[0][PG!Index(v, 3)]
    BY <2>1 DEF PG!Entry
  <2>3. PG!Blank[PG!Index(v, 3)] = PG!None
    BY <1>3 DEF PG!Blank
  <2> QED
    BY <1>2, <2>1, <2>2, <2>3
<1>5. PG!None.kind = "none"
  BY DEF PG!None
<1>6. \A v \in Space, l \in PG!Levels : PG!Reached(mem, v, l) => l = 3
  BY <1>4, <1>5 DEF PG!Reached, PG!Levels
<1>7. Memory(mem)
  <2>1. IsFiniteSet({0})
    BY FS_Singleton
  <2>2. PG!Blank \in [0 .. F - 1 -> EntrySet]
    BY DEF PG!Blank, EntrySet
  <2>3. mem \in [{0} -> [0 .. F - 1 -> EntrySet]]
    BY <1>1, <2>2
  <2> QED
    BY <1>2, <2>1, <2>3 DEF Memory, PG!KernelPML4
<1>8. Walks(mem)
  <2>1. \A v \in Space, l \in PG!Levels : PG!Reached(mem, v, l) => PG!TableOf(mem, v, l) \in DOMAIN mem
    BY <1>2, <1>4, <1>6
  <2>2. 0 \in PG!Levels
    BY DEF PG!Levels
  <2>3. \A v \in Space : ~PG!Reached(mem, v, 0)
    BY <1>6, <2>2
  <2> QED
    BY <1>4, <1>5, <2>1, <2>3 DEF Walks
<1>9. OneZone(mem)
  <2>1. \A v \in Space : Zone(v, 3) = 0
    BY DEF Zone
  <2> QED
    BY <1>6, <2>1 DEF OneZone
<1>10. Placed(mem)
  <2>1. 0 \in Space /\ 3 \in PG!Levels
    BY <1>0 DEF Space, PG!Levels
  <2> QED
    BY <1>2, <1>4, <2>1 DEF Placed
<1>11. Tree(mem)
  BY <1>7, <1>8, <1>9, <1>10 DEF Tree
<1>12. \A v \in Space : PG!EndLevel(mem, v) = 3
  BY <1>4, <1>5, <1>11, Ends DEF PG!Levels
<1>13. PagesOK(mem)
  BY <1>4, <1>5, <1>12 DEF PagesOK
<1>14. call.c \in CallSet /\ call.c.op = "destroy" /\ call.c.va = 0 /\ call.c.n = 0 /\ End = 0 /\ todo \in Seq(CallSet)
  <2>1. call.c.op = "destroy" /\ call.c.va = 0 /\ call.c.n = 0
    BY <1>1 DEF PG!Destroy
  <2>2. call.c \in CallSet
    BY <1>1 DEF PG!Destroy, CallSet, DestroyCall
  <2> QED
    BY <1>1, <2>1, <2>2 DEF End
<1>15. DestroyAt(0)
  <2>1. \A v \in Space : ~(0 <= v /\ v < 0)
    BY <1>0 DEF Space
  <2> QED
    BY <1>1, <1>14, <2>1 DEF DestroyAt, Expected
<1>16. Destroying
  BY <1>1, <1>14, <1>15 DEF Destroying
<1> QED
  BY <1>0, <1>11, <1>13, <1>14, <1>16 DEF PagingInv, Good

(* A step of a call in progress. *)
LEMMA ContinueStep ==
  ASSUME PG!PagingConstants, TableLimit < PG!VSize, PagingInv, PG!Continue
  PROVE  PagingInv'
<1>1. todo # <<>> /\ todo \in Seq(CallSet) /\ Head(todo) = todo[1] /\ Len(todo) \in Nat /\ Len(todo) > 0
  BY HeadCall DEF PagingInv, PG!Continue
<1>2. CASE PG!Return
  BY <1>1, <1>2, ReturnStep
<1>3. CASE PG!CreateRound \/ PG!DestroyRound \/ PG!DestroySplit
  <2>1. /\ PG!CreateRound => todo[1].op = "create"
        /\ PG!DestroyRound => todo[1].op = "destroy"
        /\ PG!DestroySplit => todo[1].op = "destroy"
    BY <1>1 DEF PG!CreateRound, PG!DestroyRound, PG!DestroySplit
  <2>2. CASE call.c.op = "create"
    <3>1. todo[1].op = "create"
      <4>1. PICK d : todo[1] = PG!Create(d, call.c.pa + (d - call.c.va), End - d, call.c.attr)
        BY <1>1, <2>2 DEF PagingInv, Creating
      <4> QED
        BY <4>1 DEF PG!Create
    <3>2. PG!CreateRound
      BY <1>3, <2>1, <3>1
    <3> QED
      BY <1>1, <2>2, <3>2, CreatingRound
  <2>3. CASE call.c.op = "destroy" /\ Len(todo) = 1
    <3>1. todo[1].op = "destroy"
      BY <1>1, <2>3 DEF PagingInv, Destroying, PG!Destroy
    <3>2. PG!DestroyRound \/ PG!DestroySplit
      BY <1>3, <2>1, <3>1
    <3> QED
      BY <2>3, <3>2, DestroyingRound, SplitStep
  <2>4. CASE call.c.op = "destroy" /\ Len(todo) > 1
    <3>1. PICK d \in call.c.va .. End : todo[Len(todo)] = PG!Destroy(d, End - d) /\ Splitting(d)
      BY <1>1, <2>4 DEF PagingInv, Destroying
    <3>2. PICK b \in Space, k \in 1 .. 2 : SplitPieces(b, k) /\ SplitAt(d, b, k)
      BY <3>1 DEF Splitting
    <3>3. todo[1].op = "create"
      <4>1. 1 \in 1 .. Len(todo) - 1
        BY <1>1, <2>4
      <4>2. todo[1] \in CreateCall
        BY <3>2, <4>1 DEF SplitPieces
      <4> QED
        BY <4>2 DEF CreateCall
    <3>4. PG!CreateRound
      BY <1>3, <2>1, <3>3
    <3>5. /\ Good(mem)' /\ call' = call /\ todo' \in Seq(CallSet) /\ Len(todo') = Len(todo)
          /\ todo'[Len(todo)] = todo[Len(todo)] /\ SplitPieces(b, k)' /\ SplitAt(d, b, k)'
      <4>1. Good(mem)
        BY DEF PagingInv
      <4> QED
        BY <1>1, <2>4, <3>2, <3>4, <4>1, PieceRound
    <3>6. Splitting(d)'
      BY <3>5 DEF Splitting
    <3>7. Destroying'
      BY <2>4, <3>1, <3>5, <3>6 DEF Destroying, End
    <3> QED
      BY <2>4, <3>5, <3>7 DEF PagingInv, End
  <2>5. call.c.op \in {"create", "destroy"}
    BY DEF PagingInv, CallSet, CreateCall, DestroyCall
  <2> QED
    <3>1. Len(todo) = 1 \/ Len(todo) > 1
      <4>1. PICK N \in Nat : N = Len(todo) /\ N > 0
        BY <1>1, Zenon
      <4>2. N = 1 \/ N > 1
        BY <4>1
      <4> QED
        BY <4>1, <4>2, Zenon
    <3> QED
      BY <2>2, <2>3, <2>4, <2>5, <3>1, Zenon
<1> QED
  BY <1>2, <1>3 DEF PG!Continue

(* Nothing changes the invariant when nothing happens. *)
LEMMA PagingStutter ==
  ASSUME PagingInv, UNCHANGED PG!vars
  PROVE  PagingInv'
<1>1. mem' = mem /\ todo' = todo /\ call' = call /\ GbPageSupport' = GbPageSupport
  BY DEF PG!vars
<1>2. \A v : PG!Asked(v)' = PG!Asked(v) /\ PG!InCutHuge(v)' = PG!InCutHuge(v)
  BY <1>1 DEF PG!Asked, PG!InCutHuge
<1>3. \A d : CreateAt(d)' = CreateAt(d) /\ DestroyAt(d)' = DestroyAt(d) /\ Splitting(d)' = Splitting(d)
  BY <1>1, <1>2 DEF CreateAt, DestroyAt, Expected, Splitting, SplitPieces, SplitAt
<1>4. Good(mem)' = Good(mem) /\ WasMapped' = WasMapped /\ End' = End
  BY <1>1 DEF Good, PagesOK, WasMapped, PG!Asked, End
<1> QED
  BY <1>1, <1>3, <1>4 DEF PagingInv, Creating, Destroying


-----------------------------------------------------------------------------
(* An entry that points to a table is on the way to some address. *)
LEMMA RefPlace ==
  ASSUME PG!PagingConstants, NEW m, Tree(m), NEW t \in DOMAIN m, NEW i \in 0 .. F - 1, m[t][i].kind = "table"
  PROVE  \E w \in Space, l \in 0 .. 2 :
           /\ PG!Reached(m, w, l) /\ PG!Reached(m, w, l + 1) /\ PG!TableOf(m, w, l + 1) = t
           /\ PG!Index(w, l + 1) = i /\ PG!TableOf(m, w, l) = m[t][i].to
<1>1. PICK v \in Space, k \in PG!Levels : PG!Reached(m, v, k) /\ PG!TableOf(m, v, k) = t
  BY DEF Tree, Placed
<1>2. PICK w \in Space : Zone(w, k) = Zone(v, k) /\ PG!Index(w, k) = i
  BY Sibling
<1>3. PG!Reached(m, w, k) /\ PG!TableOf(m, w, k) = t
  <2>1. k >= k
    BY DEF PG!Levels
  <2> QED
    BY <1>1, <1>2, <2>1, SameWalk
<1>4. PG!Entry(m, w, k) = m[t][i]
  BY <1>2, <1>3 DEF PG!Entry
<1>5. k # 0
  BY <1>3, <1>4 DEF Tree, Walks
<1>6. PICK l \in 0 .. 2 : k = l + 1
  BY <1>5 DEF PG!Levels
<1>7. PG!Reached(m, w, l) /\ PG!TableOf(m, w, l) = m[t][i].to
  BY <1>3, <1>4, <1>6, WalkDown
<1> QED
  BY <1>2, <1>3, <1>6, <1>7

(* The tables of a tree are those its entries point to, each from one entry. *)
LEMMA TreeExact ==
  ASSUME PG!PagingConstants, NEW m, Tree(m)
  PROVE  /\ \A t \in DOMAIN m, i \in 0 .. F - 1 : m[t][i].kind = "table" => m[t][i].to \in DOMAIN m \ {PG!KernelPML4}
         /\ \A s \in DOMAIN m \ {PG!KernelPML4} : \E t \in DOMAIN m, i \in 0 .. F - 1 : m[t][i].kind = "table" /\ m[t][i].to = s
         /\ \A t, s \in DOMAIN m, i, j \in 0 .. F - 1 :
              m[t][i].kind = "table" /\ m[s][j].kind = "table" /\ m[t][i].to = m[s][j].to => t = s /\ i = j
<1>1. \A l \in 0 .. 2 : l \in PG!Levels /\ l + 1 \in PG!Levels /\ l + 1 > l
  BY DEF PG!Levels
<1>2. 3 \in PG!Levels
  BY DEF PG!Levels
<1>3. ASSUME NEW t \in DOMAIN m, NEW i \in 0 .. F - 1, m[t][i].kind = "table" PROVE m[t][i].to \in DOMAIN m \ {PG!KernelPML4}
  <2>1. PICK w \in Space, l \in 0 .. 2 : PG!Reached(m, w, l) /\ PG!TableOf(m, w, l) = m[t][i].to
    BY <1>3, RefPlace
  <2>2. m[t][i].to \in DOMAIN m
    BY <1>1, <2>1 DEF Tree, Walks
  <2>3. PG!TableOf(m, w, 3) = PG!KernelPML4 /\ PG!Reached(m, w, 3)
    BY WalkDown
  <2>4. PG!TableOf(m, w, l) # PG!TableOf(m, w, 3)
    <3>1. l \in PG!Levels /\ l # 3
      BY <1>1
    <3> QED
      BY <1>2, <2>1, <2>3, <3>1 DEF Tree, OneZone
  <2> QED
    BY <2>1, <2>2, <2>3, <2>4
<1>4. ASSUME NEW s \in DOMAIN m \ {PG!KernelPML4}
      PROVE  \E t \in DOMAIN m, i \in 0 .. F - 1 : m[t][i].kind = "table" /\ m[t][i].to = s
  <2>1. PICK v \in Space, l \in PG!Levels : PG!Reached(m, v, l) /\ PG!TableOf(m, v, l) = s
    BY DEF Tree, Placed
  <2>2. l \in 0 .. 2
    BY <2>1, WalkDown DEF PG!Levels
  <2>3. PG!Reached(m, v, l + 1) /\ PG!Entry(m, v, l + 1).kind = "table" /\ s = PG!Entry(m, v, l + 1).to
    BY <2>1, <2>2, WalkDown
  <2>4. PG!TableOf(m, v, l + 1) \in DOMAIN m /\ PG!Index(v, l + 1) \in 0 .. F - 1
    BY <1>1, <2>2, <2>3, EntryOf
  <2> QED
    BY <2>3, <2>4 DEF PG!Entry
<1>5. ASSUME NEW t \in DOMAIN m, NEW s \in DOMAIN m, NEW i \in 0 .. F - 1, NEW j \in 0 .. F - 1,
             m[t][i].kind = "table", m[s][j].kind = "table", m[t][i].to = m[s][j].to
      PROVE  t = s /\ i = j
  <2>1. PICK w \in Space, l \in 0 .. 2 :
           /\ PG!Reached(m, w, l) /\ PG!Reached(m, w, l + 1) /\ PG!TableOf(m, w, l + 1) = t
           /\ PG!Index(w, l + 1) = i /\ PG!TableOf(m, w, l) = m[t][i].to
    BY <1>5, RefPlace
  <2>2. PICK v \in Space, k \in 0 .. 2 :
           /\ PG!Reached(m, v, k) /\ PG!Reached(m, v, k + 1) /\ PG!TableOf(m, v, k + 1) = s
           /\ PG!Index(v, k + 1) = j /\ PG!TableOf(m, v, k) = m[s][j].to
    BY <1>5, RefPlace
  <2>3. k = l /\ Zone(v, l) = Zone(w, l)
    BY <1>1, <1>5, <2>1, <2>2 DEF Tree, OneZone
  <2>4. l \in PG!Levels /\ l + 1 \in PG!Levels /\ l + 1 > l /\ l + 1 >= l
    BY <1>1
  <2>5. PG!Index(v, l + 1) = PG!Index(w, l + 1)
    BY <2>3, <2>4, SameAbove
  <2>6. PG!TableOf(m, v, l + 1) = PG!TableOf(m, w, l + 1)
    BY <2>3, <2>4, SameWalk
  <2> QED
    BY <2>1, <2>2, <2>3, <2>5, <2>6
<1> QED
  BY <1>3, <1>4, <1>5

(* What the invariant says of the four properties. *)
LEMMA PagingInvTables ==
  ASSUME PG!PagingConstants, PagingInv
  PROVE  PG!TablesExact
<1>1. Tree(mem) /\ PagesOK(mem)
  BY DEF PagingInv, Good
<1> DEFINE Refs == {r \in (DOMAIN mem) \X (0 .. F - 1) : mem[r[1]][r[2]].kind = "table"}
           To(r) == mem[r[1]][r[2]].to
<1>2. \A r \in Refs : r[1] \in DOMAIN mem /\ r[2] \in 0 .. F - 1 /\ mem[r[1]][r[2]].kind = "table" /\ r = <<r[1], r[2]>>
  OBVIOUS
<1>3. \A t \in DOMAIN mem, i \in 0 .. F - 1 : mem[t][i].kind = "table" => <<t, i>> \in Refs /\ To(<<t, i>>) = mem[t][i].to
  OBVIOUS
<1>4. {To(r) : r \in Refs} = DOMAIN mem \ {PG!KernelPML4}
  <2>1. \A r \in Refs : To(r) \in DOMAIN mem \ {PG!KernelPML4}
    BY <1>1, <1>2, TreeExact
  <2>2. ASSUME NEW s \in DOMAIN mem \ {PG!KernelPML4} PROVE \E r \in Refs : To(r) = s
    <3>1. PICK t \in DOMAIN mem, i \in 0 .. F - 1 : mem[t][i].kind = "table" /\ mem[t][i].to = s
      BY <1>1, TreeExact
    <3>2. <<t, i>> \in Refs /\ To(<<t, i>>) = s
      BY <1>3, <3>1
    <3> QED
      BY <3>2
  <2> HIDE DEF Refs, To
  <2> QED
    BY <2>1, <2>2
<1>5. \A r, q \in Refs : To(r) = To(q) => r = q
  BY <1>1, <1>2, TreeExact
<1>6. \A v \in PG!Addresses : PG!Entry(mem, v, PG!EndLevel(mem, v)).kind = "page" => PG!Entry(mem, v, PG!EndLevel(mem, v)).to % PG!Size(PG!EndLevel(mem, v)) = 0
  <2>1. TableLimit \in Nat /\ PG!VSize \in Nat /\ TableLimit <= PG!VSize
    <3>1. F \in Nat /\ F * F \in Nat
      BY DEF PG!PagingConstants
    <3>2. F * F * F \in Nat
      BY <3>1
    <3>3. PG!VSize = F * (F * F * F) /\ F * (F * F * F) = F * F * F * F
      BY <3>1, <3>2 DEF PG!VSize, PG!Size
    <3> QED
      BY <3>3, LevelSizes DEF PG!PagingConstants
  <2>2. PG!Addresses \subseteq Space
    BY <2>1 DEF PG!Addresses, Space
  <2> QED
    BY <1>1, <2>2 DEF PagesOK
<1> HIDE DEF Refs, To
<1> QED
  BY <1>4, <1>5, <1>6 DEF PG!TablesExact, Refs, To

(* The calls the kernel made have done what they are for. *)
LEMMA PagingInvCalls ==
  ASSUME PG!PagingConstants, TableLimit < PG!VSize, PagingInv
  PROVE  PG!CreateMaps /\ PG!DestroyUnmaps /\ PG!OutsideKept
<1>0. TableLimit \in Nat /\ PG!VSize \in Nat
  BY LevelSizes DEF PG!PagingConstants
<1>1. \A v \in PG!Addresses : v \in Space /\ v \in Nat
  BY <1>0 DEF PG!Addresses, Space
<1>2. PICK va \in Nat, n \in Nat : call.c.va = va /\ call.c.n = n /\ End = va + n
  BY DEF PagingInv, CallSet, CreateCall, DestroyCall, End
<1>3. \A v : PG!Asked(v) <=> va <= v /\ v < va + n
  BY <1>2 DEF PG!Asked
<1>4. CASE call.c.op = "create"
  <2>1. PICK d \in va .. va + n : CreateAt(d) /\ (todo = <<>> => d = va + n)
    <3>1. PICK d \in va .. va + n : CreateAt(d) /\ ((todo = <<>> /\ d = va + n) \/ Len(todo) = 1)
      BY <1>2, <1>4 DEF PagingInv, Creating
    <3>2. todo = <<>> => Len(todo) # 1
      OBVIOUS
    <3> QED
      BY <3>1, <3>2
  <2>2. PG!CreateMaps
    BY <1>1, <1>2, <1>3, <2>1 DEF PG!CreateMaps, CreateAt
  <2>3. PG!DestroyUnmaps
    BY <1>4 DEF PG!DestroyUnmaps
  <2>4. PG!OutsideKept
    BY <1>1, <1>4, <2>1, UnmovedSame DEF PG!OutsideKept, CreateAt
  <2> QED
    BY <2>2, <2>3, <2>4
<1>5. CASE call.c.op = "destroy"
  <2>0. todo = <<>> => Len(todo) = 0
    OBVIOUS
  <2>1. PICK d \in va .. va + n :
          \/ todo = <<>> /\ DestroyAt(d) /\ (WasMapped => d = va + n)
          \/ Len(todo) = 1 /\ DestroyAt(d)
          \/ Len(todo) > 1 /\ Splitting(d)
    BY <1>2, <1>5 DEF PagingInv, Destroying
  <2>2. \A v \in PG!Addresses : ~PG!Asked(v) => Expected(v, d) = PG!Translate(call.before, v)
    BY <1>1, <1>2, <1>3 DEF Expected
  <2>3. PG!CreateMaps
    BY <1>5 DEF PG!CreateMaps
  <2>4. PG!DestroyUnmaps
    <3> SUFFICES ASSUME todo = <<>>, WasMapped, NEW v \in PG!Addresses, PG!Asked(v) PROVE PG!Translate(mem, v) = PG!None
      BY DEF PG!DestroyUnmaps, WasMapped
    <3>1. DestroyAt(d) /\ d = va + n
      BY <2>0, <2>1
    <3> QED
      BY <1>1, <1>2, <1>3, <3>1 DEF DestroyAt, Expected
  <2>5. CASE DestroyAt(d)
    <3>1. \A v \in PG!Addresses : ~PG!Asked(v) => PG!Translate(mem, v) = PG!Translate(call.before, v)
      BY <1>1, <2>2, <2>5 DEF DestroyAt
    <3>2. PG!OutsideKept
      BY <3>1 DEF PG!OutsideKept
    <3> QED
      BY <2>3, <2>4, <3>2
  <2>6. CASE Len(todo) > 1 /\ Splitting(d)
    <3>1. PICK b \in Space, k \in 1 .. 2 : SplitAt(d, b, k)
      BY <2>6 DEF Splitting
    <3>2. \A v \in Space : PG!Translate(mem, v) \in {Expected(v, d), PG!None}
      <4> SUFFICES ASSUME NEW v \in Space PROVE PG!Translate(mem, v) \in {Expected(v, d), PG!None}
        OBVIOUS
      <4>1. CASE ~(todo[1].va <= v /\ v < b + PG!Size(k))
        BY <3>1, <4>1 DEF SplitAt
      <4>2. CASE todo[1].va <= v /\ v < b + PG!Size(k)
        BY <3>1, <4>2 DEF SplitAt
      <4> QED
        BY <4>1, <4>2
    <3>3. todo # <<>>
      BY <2>0, <2>6
    <3>4. PG!OutsideKept
      BY <1>1, <2>2, <3>2, <3>3 DEF PG!OutsideKept
    <3> QED
      BY <2>3, <2>4, <3>4
  <2> QED
    BY <2>1, <2>5, <2>6
<1>6. call.c.op \in {"create", "destroy"}
  BY DEF PagingInv, CallSet, CreateCall, DestroyCall
<1> QED
  BY <1>4, <1>5, <1>6

-----------------------------------------------------------------------------
(* The page tables are a tree, and the calls in progress have come as far as they say. *)
THEOREM PagingInvariance == TableLimit < PG!VSize => (PagingSpec => []PagingInv)
<1> SUFFICES ASSUME PG!PagingConstants, TableLimit < PG!VSize PROVE PagingSpec => []PagingInv
  BY PagingAssumption
<1>1. PG!Init => PagingInv
  BY PagingStart
<1>2. PagingInv /\ [PG!Next]_(PG!vars) => PagingInv'
  BY CallBegins, ContinueStep, PagingStutter DEF PG!Next
<1> QED
  BY <1>1, <1>2, PTL DEF PagingSpec, PG!Spec

(* create_mapping and destroy_mapping neither leak a table, nor free one in use, nor share one, *)
(* and every huge page has an aligned physical address.                                          *)
THEOREM TablesExactHolds == TableLimit < PG!VSize => (PagingSpec => []TablesExact)
<1> SUFFICES ASSUME PG!PagingConstants, TableLimit < PG!VSize PROVE PagingSpec => []TablesExact
  BY PagingAssumption
<1>1. PagingInv => TablesExact
  BY PagingInvTables DEF TablesExact
<1> QED
  BY <1>1, PagingInvariance, PTL

(* After create_mapping each page of the range is mapped to its frame. *)
THEOREM CreateMapsHolds == TableLimit < PG!VSize => (PagingSpec => []CreateMaps)
<1> SUFFICES ASSUME PG!PagingConstants, TableLimit < PG!VSize PROVE PagingSpec => []CreateMaps
  BY PagingAssumption
<1>1. PagingInv => CreateMaps
  BY PagingInvCalls DEF CreateMaps
<1> QED
  BY <1>1, PagingInvariance, PTL

(* After destroy_mapping of a mapped range no page of it is mapped, huge pages cut in pieces included. *)
THEOREM DestroyUnmapsHolds == TableLimit < PG!VSize => (PagingSpec => []DestroyUnmaps)
<1> SUFFICES ASSUME PG!PagingConstants, TableLimit < PG!VSize PROVE PagingSpec => []DestroyUnmaps
  BY PagingAssumption
<1>1. PagingInv => DestroyUnmaps
  BY PagingInvCalls DEF DestroyUnmaps
<1> QED
  BY <1>1, PagingInvariance, PTL

(* At no moment of a call is a page outside the range redirected; when it has returned the page is *)
(* mapped as before, unless create_mapping mapped a part of the huge page it was in.               *)
THEOREM OutsideKeptHolds == TableLimit < PG!VSize => (PagingSpec => []OutsideKept)
<1> SUFFICES ASSUME PG!PagingConstants, TableLimit < PG!VSize PROVE PagingSpec => []OutsideKept
  BY PagingAssumption
<1>1. PagingInv => OutsideKept
  BY PagingInvCalls DEF OutsideKept
<1> QED
  BY <1>1, PagingInvariance, PTL
=============================================================================
