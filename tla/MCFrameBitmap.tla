---------------------------- MODULE MCFrameBitmap ----------------------------
(***************************************************************************)
(* The bytes of the frame bitmap as they are checked and proved about; the *)
(* frame a range write has come to is called cursor here.                  *)
(***************************************************************************)
CONSTANTS NBytes, LowFrames, Neighbour, Kernels, MaxDescs, MaxWrites

VARIABLES bitmap, stage, phase, cursor, PageCount, value, writes,
          allocator_usable_pages, goal, reserved

FB == INSTANCE FrameBitmap WITH count <- cursor

ASSUME FrameBitmapAssumption == FB!BitmapConstants

BitmapSpec == FB!Spec

(* the byte 10100101 *)
MCNeighbour == {0, 2, 5, 7}
(* inside one byte, across two, and ending with the bitmap *)
MCKernels == {<<9, 2>>, <<6, 5>>, <<8, 8>>}

-----------------------------------------------------------------------------
(* A range write of alloc_frame, free_frame, fill_bitmap or allocator_init *)
(* changes the bits of its range and no other, at every step.              *)
WritesExactly == FB!WritesExactly

(* The byte after the bitmap never changes, though the tail mask of a range *)
(* that ends with the bitmap is written there.                              *)
NeighbourKept == FB!NeighbourKept

(* print_physical_memory_stats: allocator_usable_pages is the number of *)
(* frames the memory map offers, so that the statistics add up.         *)
UsableAddsUp == FB!UsableAddsUp
=============================================================================
