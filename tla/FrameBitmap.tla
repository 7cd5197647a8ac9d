----------------------------- MODULE FrameBitmap -----------------------------
(***************************************************************************)
(* The bytes of the frame bitmap.  Every range write of the kernel goes    *)
(* through the same three phases: the head up to the next byte boundary,   *)
(* whole bytes, and a mask on the byte after them.  allocator_init clears  *)
(* or sets one range per descriptor of the memory map, counts the clear    *)
(* bits and sets the range of the kernel; then alloc_frame and fill_bitmap *)
(* set ranges and free_frame clears them.  One phase is one step, so the   *)
(* writes are followed byte by byte.                                       *)
(*                                                                         *)
(* A byte is the set of its 1 bits, numbered from the left as check_byte   *)
(* and set_bit do with dir = 1: place p is the bit of value 1 << (7 - p).  *)
(* Byte NBytes belongs to whatever follows the bitmap in memory: the tail  *)
(* mask of a range that ends with the bitmap is written there.             *)
(***************************************************************************)
EXTENDS Integers, FiniteSets

CONSTANTS
  NBytes,      \* bitmap_size
  LowFrames,   \* 0x100000 >> 12: the frames below 1 MB
  Neighbour,   \* the byte that follows the bitmap in memory
  Kernels,     \* the ranges <<first frame, frames>> the kernel may occupy
  MaxDescs,    \* bound: descriptors in the memory map
  MaxWrites    \* bound: range writes after allocator_init

NFrames == 8 * NBytes
Frames == 0 .. NFrames - 1
Places == 0 .. 7

(* what the constants are *)
BitmapConstants ==
  /\ NBytes \in Nat \ {0} /\ LowFrames \in Nat
  /\ MaxDescs \in Nat /\ MaxWrites \in Nat
  /\ Neighbour \subseteq Places
  /\ Kernels \subseteq Frames \X Nat
  /\ \A k \in Kernels : k[1] + k[2] <= NFrames

VARIABLES
  bitmap,    \* bitmap[i]: the 1 bits of byte i
  stage,     \* "map" during allocator_init's loop over the memory map, then "ready"
  phase,     \* where the range write in progress is, "idle" if there is none
  count,     \* the next frame the write is about
  PageCount, \* frames of the range not yet written
  value,     \* TRUE: the write sets bits
  writes,    \* descriptors handled, then writes made once ready
  allocator_usable_pages,
  goal,      \* history: the frames that are in use by the meaning of the writes
  reserved   \* history: the frames that the memory map does not offer

vars == <<bitmap, stage, phase, count, PageCount, value, writes,
          allocator_usable_pages, goal, reserved>>
write == <<phase, count, PageCount, value>>
slow == <<stage, writes, allocator_usable_pages, goal, reserved>>

Run(c, n) == c .. c + n - 1
InUse == {f \in Frames : (f % 8) \in bitmap[f \div 8]}

(* the ranges a descriptor or a caller may name: they end within the bitmap, *)
(* which stage4 and the EFI loader size by the highest page of the map       *)
Ranges == {r \in Frames \X (1 .. NFrames) : r[1] + r[2] <= NFrames}

(* 0xff >> k and 0xff << k, truncated to a byte *)
ShiftRight(k) == {p \in Places : p >= k}
ShiftLeft(k) == {p \in Places : p <= 7 - k}

(* byte |= mask or byte &= ~mask *)
Apply(byte, mask, v) == IF v THEN byte \cup mask ELSE byte \ mask

-----------------------------------------------------------------------------
(* a range write begins: frames c .. c + n - 1 get the value v *)
Begin(c, n, v) ==
  /\ phase' = "head" /\ count' = c /\ PageCount' = n /\ value' = v
  /\ goal' = IF v THEN goal \cup Run(c, n) ELSE goal \ Run(c, n)

BitsLeft == 8 - (count % 8)

(* the range starts on a byte boundary *)
HeadAligned ==
  /\ phase = "head" /\ count % 8 = 0
  /\ phase' = "bytes"
  /\ UNCHANGED <<bitmap, count, PageCount, value, slow>>

(* the range reaches the end of its first byte: one mask *)
HeadMask ==
  /\ phase = "head" /\ count % 8 > 0 /\ BitsLeft <= PageCount
  /\ bitmap' = [bitmap EXCEPT ![count \div 8] = Apply(@, ShiftRight(count % 8), value)]
  /\ PageCount' = PageCount - BitsLeft
  /\ count' = count + BitsLeft
  /\ phase' = "bytes"
  /\ UNCHANGED <<value, slow>>

(* mutant of HeadBits: PageCount is not reset after the loop *)
HeadBitsKeepCount ==
  /\ phase = "head" /\ count % 8 > 0 /\ BitsLeft > PageCount
  /\ bitmap' = [bitmap EXCEPT ![count \div 8] =
                  Apply(@, Run(count % 8, PageCount), value)]
  /\ count' = count + PageCount
  /\ phase' = "bytes"
  /\ UNCHANGED <<value, PageCount, slow>>

(* the range lies inside its first byte: set_bit, once for each frame *)
HeadBits ==
  /\ phase = "head" /\ count % 8 > 0 /\ BitsLeft > PageCount
  /\ bitmap' = [bitmap EXCEPT ![count \div 8] =
                  Apply(@, Run(count % 8, PageCount), value)]
  /\ count' = count + PageCount
  /\ PageCount' = 0
  /\ phase' = "bytes"
  /\ UNCHANGED <<value, slow>>

(* one of the eightPage_count whole bytes *)
WholeByte ==
  /\ phase = "bytes" /\ PageCount >= 8
  /\ bitmap' = [bitmap EXCEPT ![count \div 8] = IF value THEN Places ELSE {}]
  /\ count' = count + 8
  /\ PageCount' = PageCount - 8
  /\ UNCHANGED <<phase, value, slow>>

(* mutant of Tail: the byte is assigned instead of masked *)
TailAssigned ==
  /\ phase = "bytes" /\ PageCount < 8
  /\ bitmap' = [bitmap EXCEPT ![count \div 8] = Apply({}, ShiftLeft(8 - PageCount), value)]
  /\ phase' = "idle" /\ PageCount' = 0 /\ count' = 0
  /\ UNCHANGED <<value, slow>>

(* the last onePage_count frames, perhaps none: the mask on the byte at count *)
Tail ==
  /\ phase = "bytes" /\ PageCount < 8
  /\ bitmap' = [bitmap EXCEPT ![count \div 8] = Apply(@, ShiftLeft(8 - PageCount), value)]
  /\ phase' = "idle" /\ PageCount' = 0 /\ count' = 0
  /\ UNCHANGED <<value, slow>>

-----------------------------------------------------------------------------
(* allocator_init: the next descriptor of the memory map *)
Descriptor(r, conventional) ==
  /\ stage = "map" /\ phase = "idle" /\ writes < MaxDescs
  /\ Begin(r[1], r[2], ~(conventional /\ r[1] >= LowFrames))
  /\ writes' = writes + 1
  /\ UNCHANGED <<bitmap, stage, allocator_usable_pages, reserved>>

ClearBits(bytes) == Cardinality({b \in bytes \X Places : b[2] \notin bitmap[b[1]]})

(* mutant of UsableFrames: the byte after the bitmap is counted too *)
UsablePastEnd == ClearBits(0 .. NBytes)

(* the loops over the bytes of the bitmap and over the bits of a byte *)
UsableFrames == ClearBits(0 .. NBytes - 1)

(* after the last descriptor: count the clear bits, then set the kernel's range *)
KernelRange(k) ==
  /\ stage = "map" /\ phase = "idle" /\ stage' = "ready"
  /\ allocator_usable_pages' = UsableFrames
  /\ reserved' = goal
  /\ Begin(k[1], k[2], TRUE)
  /\ writes' = 0
  /\ UNCHANGED bitmap

(* alloc_frame and fill_bitmap: they found the frames of the range free *)
MarkRun(r) ==
  /\ stage = "ready" /\ phase = "idle" /\ writes < MaxWrites
  /\ Run(r[1], r[2]) \cap InUse = {}
  /\ Begin(r[1], r[2], TRUE)
  /\ writes' = writes + 1
  /\ UNCHANGED <<bitmap, stage, allocator_usable_pages, reserved>>

(* free_frame: the caller owned the range, so it was free after allocator_init *)
ClearRun(r) ==
  /\ stage = "ready" /\ phase = "idle" /\ writes < MaxWrites
  /\ Run(r[1], r[2]) \subseteq InUse \ reserved
  /\ Begin(r[1], r[2], FALSE)
  /\ writes' = writes + 1
  /\ UNCHANGED <<bitmap, stage, allocator_usable_pages, reserved>>

-----------------------------------------------------------------------------
(* bitmap[i] = 0xff for every byte of the bitmap *)
Init ==
  /\ bitmap = [b \in 0 .. NBytes |-> IF b < NBytes THEN Places ELSE Neighbour]
  /\ stage = "map" /\ phase = "idle" /\ count = 0 /\ PageCount = 0 /\ value = TRUE
  /\ writes = 0 /\ allocator_usable_pages = 0
  /\ goal = Frames /\ reserved = Frames

Next ==
  \/ HeadAligned \/ HeadMask \/ HeadBits \/ WholeByte \/ Tail
  \/ \E r \in Ranges : \E c \in BOOLEAN : Descriptor(r, c)
  \/ \E k \in Kernels : KernelRange(k)
  \/ \E r \in Ranges : MarkRun(r) \/ ClearRun(r)

Spec == Init /\ [][Next]_vars

-----------------------------------------------------------------------------
(* every variable keeps its type; count may point one byte past the bitmap *)
TypeOK ==
  /\ bitmap \in [0 .. NBytes -> SUBSET Places]
  /\ stage \in {"map", "ready"} /\ phase \in {"idle", "head", "bytes"}
  /\ count \in 0 .. NFrames /\ PageCount \in 0 .. NFrames /\ value \in BOOLEAN
  /\ writes \in Nat /\ allocator_usable_pages \in 0 .. NFrames
  /\ goal \subseteq Frames /\ reserved \subseteq Frames
  /\ count + PageCount <= NFrames

(***************************************************************************)
(* A write touches the frames of its range and no other: what the bitmap   *)
(* says, with the part of the range still to be written, is at every step  *)
(* what the sequence of writes means.  At rest the bitmap is that meaning. *)
(***************************************************************************)
WritesExactly ==
  goal = IF value THEN InUse \cup Run(count, PageCount)
                  ELSE InUse \ Run(count, PageCount)

(* the byte after the bitmap, to which the tail mask of a range that ends *)
(* with the bitmap is applied, never changes                              *)
NeighbourKept == bitmap[NBytes] = Neighbour

(* print_physical_memory_stats: allocator_usable_pages is the number of frames *)
(* the memory map offers, so that capacity, reserved, kernel-used and free     *)
(* pages add up                                                                *)
UsableAddsUp ==
  stage = "ready" /\ phase = "idle" =>
    allocator_usable_pages = Cardinality(Frames \ InUse) + Cardinality(InUse \ reserved)
=============================================================================
