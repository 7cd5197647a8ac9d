--------------------------- MODULE FrameAllocator ---------------------------
(***************************************************************************)
(* The physical frame allocator of the kernel: alloc_frame and free_frame  *)
(* (x86-64/memory/alloc.c), vmalloc and vfree (valloc.c) and the helpers   *)
(* fill_bitmap and run_simulation (maphlp.c), called by several threads.   *)
(*                                                                         *)
(* The bitmap is the set `used' of frames whose bit is 1; FrameBitmap      *)
(* shows that the byte-wise range writes of the code set and clear exactly *)
(* the bits of a range.  bitmap_lock guards the bitmap, but vmalloc reads  *)
(* and writes the search hint former_count outside it, so every access to  *)
(* the hint is a step of its own, and finding a run and marking it are two *)
(* steps as well: only the lock keeps them together.                       *)
(***************************************************************************)
EXTENDS Integers, FiniteSets

CONSTANTS
  Threads,      \* callers: the main flow, interrupt handlers, other CPUs
  NoThread,     \* value of bitmap_lock when nobody holds it
  FrameBlocks,  \* handles of contiguous blocks got from alloc_frame
  VirtBlocks,   \* handles of regions got from vmalloc
  NoBlock,      \* no handle: the thread is in no call
  PageTables,   \* the owner, for FrameOwnership, of the page-table frames
  Nobody,       \* the owner, for FrameOwnership, of a free frame
  NFrames,      \* bitmapSize * 8: the frames the bitmap covers
  Reserved,     \* frames that allocator_init leaves marked used
  MaxPages,     \* bound: the largest request a caller makes
  MaxTables     \* bound: page-table frames create_mapping takes in total

Frames == 0 .. NFrames - 1
Blocks == FrameBlocks \cup VirtBlocks

(* what the constants are *)
AllocatorConstants ==
  /\ NoThread \notin Threads
  /\ FrameBlocks \cap VirtBlocks = {}
  /\ NoBlock \notin FrameBlocks \cup VirtBlocks
  /\ PageTables \notin FrameBlocks \cup VirtBlocks
  /\ Nobody \notin FrameBlocks \cup VirtBlocks \cup {PageTables}
  /\ NFrames \in Nat /\ MaxPages \in Nat /\ MaxTables \in Nat
  /\ Reserved \subseteq Frames

VARIABLES
  used,         \* frames whose bitmap bit is 1
  former_count, \* where the next search starts
  lock,         \* bitmap_lock: its holder
  held,         \* held[b]: frames the holder of handle b owns
  tables,       \* frames create_mapping took for page tables
  pc,           \* pc[t]: where thread t is
  blk,          \* blk[t]: the block t's call is about
  left,         \* left[t]: PageCount, the frames still to find
  count,        \* count[t]: t's cursor in the bitmap
  tar           \* tar[t]: count_tar, the start of the run t found

vars == <<used, former_count, lock, held, tables, pc, blk, left, count, tar>>
shared == <<used, former_count, held, tables>>
locals == <<blk, left, count, tar>>

Locked == {"a_scan", "a_mark", "t_scan", "t_mark", "f_clear", "vf_clear", "v_scan", "v_fill"}
Unlocked == {"idle", "v_lock", "v_map", "v_relock", "v_ret", "vf_loop", "vf_unmap"}

(* a read past the end of the bitmap: what follows is undefined, the thread stops *)
Crossed == "crossed"

Free(S) == S \cap used = {}
Run(s, n) == s .. s + n - 1

(* mutant of Fits: the bound of the scan is off by one *)
FitsPastEnd(hint, n) == {s \in Frames : s >= hint /\ s + n <= NFrames + 1 /\ Free(Run(s, n))}

(* where alloc_frame may place n frames, searching from hint on *)
Fits(hint, n) == {s \in Frames : s >= hint /\ s + n <= NFrames /\ Free(Run(s, n))}

IsMin(x, S) == x \in S /\ \A y \in S : x <= y

GoTo(t, label) == pc' = [pc EXCEPT ![t] = label]
Acquire(t) == lock = NoThread /\ lock' = t
Release == lock' = NoThread

(* no thread has a call in progress on block b, so a caller may start one *)
Idle(t, b) == pc[t] = "idle" /\ \A u \in Threads : blk[u] # b

Enter(t, b, n, c) ==
  /\ blk' = [blk EXCEPT ![t] = b]
  /\ left' = [left EXCEPT ![t] = n]
  /\ count' = [count EXCEPT ![t] = c]
  /\ UNCHANGED tar

(* the call returns and its locals die *)
Return(t) ==
  /\ GoTo(t, "idle")
  /\ blk' = [blk EXCEPT ![t] = NoBlock]
  /\ left' = [left EXCEPT ![t] = 0]
  /\ count' = [count EXCEPT ![t] = 0]
  /\ tar' = [tar EXCEPT ![t] = 0]

-----------------------------------------------------------------------------
(***************************************************************************)
(* alloc_frame.  (A request for 0 pages returns Attribute 2 and changes    *)
(* nothing, here and in vmalloc.)                                          *)
(***************************************************************************)

(* spin_lock; count = former_count *)
alloc_frame(t, b, n) ==
  /\ Idle(t, b) /\ held[b] = {}
  /\ Acquire(t) /\ GoTo(t, "a_scan")
  /\ Enter(t, b, n, former_count)
  /\ UNCHANGED shared

(* the first run of n frames from c on; former_count moves past it before it is marked *)
FindRun(t, c, n, label) ==
  \E s \in Fits(c, n) :
    /\ IsMin(s, Fits(c, n))
    /\ tar' = [tar EXCEPT ![t] = s]
    /\ former_count' = s + n
    /\ GoTo(t, label)
    /\ UNCHANGED <<used, held, tables, lock, blk, left, count>>

AllocFound(t) == pc[t] = "a_scan" /\ FindRun(t, count[t], left[t], "a_mark")

(* mutant of AllocFull: the early return forgets spin_unlock *)
AllocFullKeepsLock(t) ==
  /\ pc[t] = "a_scan" /\ Fits(count[t], left[t]) = {}
  /\ Return(t)
  /\ UNCHANGED <<shared, lock>>

(* Attribute = 1: not enough memory *)
AllocFull(t) ==
  /\ pc[t] = "a_scan" /\ Fits(count[t], left[t]) = {}
  /\ Release /\ Return(t)
  /\ UNCHANGED shared

(* mutant of AllocMark: the tail mask misses the last frame of the run *)
AllocMarkShort(t) ==
  /\ pc[t] = "a_mark"
  /\ used' = used \cup Run(tar[t], left[t] - 1)
  /\ held' = [held EXCEPT ![blk[t]] = Run(tar[t], left[t])]
  /\ Release /\ Return(t)
  /\ UNCHANGED <<former_count, tables>>

AllocMark(t) ==
  /\ pc[t] = "a_mark"
  /\ used' = used \cup Run(tar[t], left[t])
  /\ held' = [held EXCEPT ![blk[t]] = Run(tar[t], left[t])]
  /\ Release /\ Return(t)
  /\ UNCHANGED <<former_count, tables>>

-----------------------------------------------------------------------------
(* free_frame: the hint read under the lock decides whether it is lowered *)
free_frame(t, b) ==
  /\ Idle(t, b) /\ held[b] # {}
  /\ Acquire(t) /\ GoTo(t, "f_clear")
  /\ Enter(t, b, 0, former_count)
  /\ UNCHANGED shared

(* mutant of Clear: the tail mask clears the bit after the range too *)
ClearOneMore(t, S, s) ==
  /\ IsMin(s, held[blk[t]])
  /\ former_count' = IF s < count[t] THEN s ELSE former_count
  /\ used' = used \ (S \cup {f + 1 : f \in S})
  /\ held' = [held EXCEPT ![blk[t]] = @ \ S]
  /\ Release
  /\ UNCHANGED tables

Clear(t, S, s) ==
  /\ IsMin(s, held[blk[t]])
  /\ former_count' = IF s < count[t] THEN s ELSE former_count
  /\ used' = used \ S
  /\ held' = [held EXCEPT ![blk[t]] = @ \ S]
  /\ Release
  /\ UNCHANGED tables

FreeClear(t) ==
  /\ pc[t] = "f_clear"
  /\ \E s \in held[blk[t]] : Clear(t, held[blk[t]], s)
  /\ Return(t)

-----------------------------------------------------------------------------
(***************************************************************************)
(* vmalloc.  It reads the hint before it takes the lock, checks with       *)
(* run_simulation that enough frames follow it, then takes them run by run *)
(* and drops the lock around each create_mapping, which itself allocates.  *)
(***************************************************************************)
vmalloc(t, b, n) ==
  /\ Idle(t, b) /\ held[b] = {}
  /\ GoTo(t, "v_lock")
  /\ Enter(t, b, n, former_count)
  /\ UNCHANGED <<shared, lock>>

FreeFrom(c) == {f \in Frames : f >= c /\ f \notin used}

(* 0 = wouldn't cross bounds, 1 = would cross bounds *)
run_simulation(c, n) == IF Cardinality(FreeFrom(c)) >= n THEN 0 ELSE 1

VmallocSimulate(t) ==
  /\ pc[t] = "v_lock" /\ run_simulation(count[t], left[t]) = 0
  /\ Acquire(t) /\ GoTo(t, "v_scan")
  /\ UNCHANGED <<shared, locals>>

(* Attribute = 1, and the lock is dropped again *)
VmallocFull(t) ==
  /\ pc[t] = "v_lock" /\ run_simulation(count[t], left[t]) = 1
  /\ lock = NoThread
  /\ Return(t)
  /\ UNCHANGED <<shared, lock>>

(* the free run from count on ends at e: complete, at a used frame, or out of bounds *)
VmallocScan(t) ==
  /\ pc[t] = "v_scan"
  /\ \E e \in count[t] .. count[t] + left[t] :
       /\ Free(count[t] .. e - 1) /\ e <= NFrames
       /\ \/ e = count[t] + left[t] /\ GoTo(t, "v_fill")
          \/ e < count[t] + left[t] /\ e \in used /\ GoTo(t, "v_fill")
          \/ e < count[t] + left[t] /\ e = NFrames /\ GoTo(t, Crossed)
       /\ tar' = [tar EXCEPT ![t] = count[t]]
       /\ count' = [count EXCEPT ![t] = e]
       /\ left' = [left EXCEPT ![t] = @ - (e - count[t])]
  /\ UNCHANGED <<shared, lock, blk>>

(* fill_bitmap; spin_unlock; create_mapping returns at once for an empty run *)
VmallocFill(t) ==
  /\ pc[t] = "v_fill"
  /\ used' = used \cup (tar[t] .. count[t] - 1)
  /\ held' = [held EXCEPT ![blk[t]] = @ \cup (tar[t] .. count[t] - 1)]
  /\ Release
  /\ GoTo(t, IF tar[t] = count[t] THEN "v_relock" ELSE "v_map")
  /\ UNCHANGED <<former_count, tables, locals>>

(* create_mapping needs a page table: alloc_pages(1) calls alloc_frame(1) *)
TableAlloc(t) ==
  /\ pc[t] = "v_map" /\ Cardinality(tables) < MaxTables
  /\ Acquire(t) /\ GoTo(t, "t_scan")
  /\ tar' = [tar EXCEPT ![t] = former_count]
  /\ UNCHANGED <<shared, blk, left, count>>

TableFound(t) == pc[t] = "t_scan" /\ FindRun(t, tar[t], 1, "t_mark")

TableMark(t) ==
  /\ pc[t] = "t_mark"
  /\ used' = used \cup {tar[t]}
  /\ tables' = tables \cup {tar[t]}
  /\ Release /\ GoTo(t, "v_map")
  /\ UNCHANGED <<former_count, held, locals>>

(* alloc_pages ignores the error and writes the table at PhysicalStart = 0: *)
(* what follows is undefined, the thread stops                              *)
TableFull(t) ==
  /\ pc[t] = "t_scan" /\ Fits(tar[t], 1) = {}
  /\ Release /\ GoTo(t, Crossed)
  /\ UNCHANGED <<shared, locals>>

(* create_mapping puts a huge page over a page table, or destroy_mapping drops *)
(* one: free_pages returns its frame.  Nothing but vmalloc's unlocked write of  *)
(* the hint could come between the steps of this free_frame, and FreeClear      *)
(* covers that interleaving, so it is one step here.                            *)
TableFree(t) ==
  /\ pc[t] \in {"v_map", "vf_unmap"} /\ lock = NoThread
  /\ \E f \in tables :
       /\ used' = used \ {f} /\ tables' = tables \ {f}
       /\ former_count' = IF f < former_count THEN f ELSE former_count
  /\ UNCHANGED <<held, lock, pc, locals>>

VmallocMapped(t) ==
  /\ pc[t] = "v_map"
  /\ GoTo(t, IF left[t] = 0 THEN "v_ret" ELSE "v_relock")
  /\ UNCHANGED <<shared, lock, locals>>

(* mutant of VmallocRelock: the lock is not taken again after create_mapping *)
VmallocNoRelock(t) ==
  /\ pc[t] = "v_relock"
  /\ \/ \E e \in FreeFrom(count[t]) : /\ IsMin(e, FreeFrom(count[t]))
                                      /\ count' = [count EXCEPT ![t] = e]
                                      /\ GoTo(t, "v_scan")
     \/ FreeFrom(count[t]) = {} /\ GoTo(t, Crossed) /\ UNCHANGED count
  /\ UNCHANGED <<shared, lock, blk, left, tar>>

(* spin_lock; while the bit at count is 1: count++ *)
VmallocRelock(t) ==
  /\ pc[t] = "v_relock"
  /\ Acquire(t)
  /\ \/ \E e \in FreeFrom(count[t]) : /\ IsMin(e, FreeFrom(count[t]))
                                      /\ count' = [count EXCEPT ![t] = e]
                                      /\ GoTo(t, "v_scan")
     \/ FreeFrom(count[t]) = {} /\ GoTo(t, Crossed) /\ UNCHANGED count
  /\ UNCHANGED <<shared, blk, left, tar>>

(* former_count = count, without the lock *)
VmallocReturn(t) ==
  /\ pc[t] = "v_ret"
  /\ former_count' = count[t]
  /\ Return(t)
  /\ UNCHANGED <<used, held, tables, lock>>

-----------------------------------------------------------------------------
(* vfree: one free_frame per page, lowest page first, then destroy_mapping *)
vfree(t, b) ==
  /\ Idle(t, b) /\ held[b] # {}
  /\ GoTo(t, "vf_loop")
  /\ Enter(t, b, 0, 0)
  /\ UNCHANGED <<shared, lock>>

VfreePage(t) ==
  /\ pc[t] = "vf_loop" /\ held[blk[t]] # {}
  /\ Acquire(t) /\ GoTo(t, "vf_clear")
  /\ count' = [count EXCEPT ![t] = former_count]
  /\ UNCHANGED <<shared, blk, left, tar>>

VfreeClear(t) ==
  /\ pc[t] = "vf_clear"
  /\ \E s \in held[blk[t]] : Clear(t, {s}, s)
  /\ GoTo(t, "vf_loop")
  /\ UNCHANGED locals

VfreeUnmap(t) ==
  /\ pc[t] = "vf_loop" /\ held[blk[t]] = {}
  /\ GoTo(t, "vf_unmap")
  /\ UNCHANGED <<shared, lock, locals>>

VfreeDone(t) ==
  /\ pc[t] = "vf_unmap"
  /\ Return(t)
  /\ UNCHANGED <<shared, lock>>

-----------------------------------------------------------------------------
Init ==
  /\ used = Reserved
  /\ former_count = 0
  /\ lock = NoThread
  /\ held = [b \in Blocks |-> {}]
  /\ tables = {}
  /\ pc = [t \in Threads |-> "idle"]
  /\ blk = [t \in Threads |-> NoBlock]
  /\ left = [t \in Threads |-> 0]
  /\ count = [t \in Threads |-> 0]
  /\ tar = [t \in Threads |-> 0]

Call(t) ==
  \/ \E b \in FrameBlocks, n \in 1 .. MaxPages : alloc_frame(t, b, n)
  \/ \E b \in FrameBlocks : free_frame(t, b)
  \/ \E b \in VirtBlocks, n \in 1 .. MaxPages : vmalloc(t, b, n)
  \/ \E b \in VirtBlocks : vfree(t, b)

Step(t) ==
  \/ AllocFound(t) \/ AllocFull(t) \/ AllocMark(t)
  \/ FreeClear(t)
  \/ VmallocSimulate(t) \/ VmallocFull(t) \/ VmallocScan(t) \/ VmallocFill(t)
  \/ TableAlloc(t) \/ TableFound(t) \/ TableMark(t) \/ TableFull(t)
  \/ TableFree(t) \/ VmallocMapped(t) \/ VmallocRelock(t) \/ VmallocReturn(t)
  \/ VfreePage(t) \/ VfreeClear(t) \/ VfreeUnmap(t) \/ VfreeDone(t)

Next == \E t \in Threads : Call(t) \/ Step(t)

Spec == Init /\ [][Next]_vars

(* a thread inside a call keeps running and its spin loop sees a free lock     *)
(* eventually; create_mapping and destroy_mapping walk a finite range and end  *)
FairSpec ==
  /\ Spec
  /\ \A t \in Threads :
       SF_vars(Step(t)) /\ SF_vars(VmallocMapped(t)) /\ SF_vars(VfreeDone(t))

-----------------------------------------------------------------------------
Labels == Locked \cup Unlocked \cup {Crossed}

(* The type of every variable of the allocator and of its callers. *)
TypeOK ==
  /\ used \subseteq Frames /\ tables \subseteq Frames
  /\ former_count \in 0 .. NFrames
  /\ lock \in Threads \cup {NoThread}
  /\ held \in [Blocks -> SUBSET Frames]
  /\ pc \in [Threads -> Labels]
  /\ blk \in [Threads -> Blocks \cup {NoBlock}]
  /\ left \in [Threads -> 0 .. MaxPages]
  /\ count \in [Threads -> 0 .. NFrames]
  /\ tar \in [Threads -> 0 .. NFrames]

Owned == UNION {held[b] : b \in Blocks}

(* No frame has two owners: alloc_frame and vmalloc never hand out a frame   *)
(* that another live block, a page table, the kernel or the firmware holds,  *)
(* however calls interleave around the unlocked accesses to former_count.    *)
NoFrameTwice ==
  /\ \A b, c \in Blocks : b # c => held[b] \cap held[c] = {}
  /\ tables \cap Owned = {}
  /\ Reserved \cap (Owned \cup tables) = {}

(* The bitmap is exact: a bit is 1 iff the frame is reserved or owned, so no *)
(* failure path, partial vmalloc or page-wise vfree leaks or loses a frame.  *)
BitmapExact == used = Reserved \cup tables \cup Owned

(***************************************************************************)
(* Refinement: a managed frame is free for the world iff its bitmap bit is *)
(* 0; a set bit belongs to the block, or to the page tables, that hold it. *)
(***************************************************************************)
OwnerOf(f) ==
  IF f \notin used THEN Nobody
  ELSE IF f \in tables THEN PageTables
  ELSE CHOOSE b \in Blocks : f \in held[b]

Ownership ==
  INSTANCE FrameOwnership WITH
    AllFrames <- Frames, Fixed <- Reserved, Owners <- Blocks \cup {PageTables},
    Nobody <- Nobody, owner <- [f \in Frames \ Reserved |-> OwnerOf(f)]

(* The bitmap allocator implements FrameOwnership: a frame goes from one     *)
(* owner to another only through a state in which its bit is 0.              *)
ImplementsOwnership == Ownership!Spec

(* A call that entered the allocator returns, unless a thread has read past  *)
(* the bitmap: no path of alloc_frame, free_frame, vmalloc or vfree keeps    *)
(* bitmap_lock or loops for ever.                                            *)
CallsReturn ==
  \A t \in Threads :
    pc[t] # "idle" ~> (pc[t] = "idle" \/ \E u \in Threads : pc[u] = Crossed)

(* maphlp.c:49 "0 = wouldn't cross bounds": a vmalloc whose run_simulation   *)
(* returned 0 never walks past the end of the bitmap.                        *)
SimulationIsBinding == \A t \in Threads : ~(pc[t] = Crossed /\ lock = t)
=============================================================================
