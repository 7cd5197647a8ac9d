-------------------------- MODULE MCFrameAllocator --------------------------
(***************************************************************************)
(* The frame allocator as it is checked and proved about.  What it shares  *)
(* with the DMA pool by name has a name of its own here.                   *)
(***************************************************************************)
CONSTANTS Threads, NoThread, FrameBlocks, VirtBlocks, NoBlock, PageTables, Nobody,
          BitmapFrames, Reserved, MaxPages, MaxTables

VARIABLES frames_used, hint, lock, held, tables, pc, blk, left, count, tar

FA == INSTANCE FrameAllocator WITH
        NFrames <- BitmapFrames, used <- frames_used, former_count <- hint

ASSUME FrameAllocatorAssumption == FA!AllocatorConstants

FramesSpec == FA!Spec
FramesFairSpec == FA!FairSpec

-----------------------------------------------------------------------------
(* Every variable of the allocator and of its callers keeps its type: the *)
(* cursors of alloc_frame and vmalloc never leave the bitmap.             *)
AllocatorTypeOK == FA!TypeOK

(* No frame has two owners: alloc_frame and vmalloc never hand out a frame   *)
(* that another live block, a page table, the kernel or the firmware holds.  *)
NoFrameTwice == FA!NoFrameTwice

(* A bit of the bitmap is 1 iff its frame is reserved or owned: no failure *)
(* path, partial vmalloc or page-wise vfree leaks or loses a frame.        *)
BitmapExact == FA!BitmapExact

(* The allocator implements FrameOwnership: a frame goes from one owner to *)
(* another only through a state in which its bit is 0.                     *)
ImplementsOwnership == FA!ImplementsOwnership

(* A call of alloc_frame, free_frame, vmalloc or vfree returns, unless a  *)
(* thread has read past the bitmap: none keeps bitmap_lock or loops.      *)
CallsReturn == FA!CallsReturn

(* maphlp.c:49 "0 = wouldn't cross bounds": a vmalloc whose run_simulation *)
(* returned 0 never walks past the end of the bitmap.                      *)
SimulationIsBinding == FA!SimulationIsBinding
=============================================================================
