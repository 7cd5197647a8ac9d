# A verification project for 64-dem

64-dem is an x86-64 operating system written from scratch: two boot paths (a UEFI
loader and a four-stage BIOS loader), a kernel with its own memory management, and
drivers for the display, timers, the PS/2 keyboard, PCI, IDE/SATA disks and the four
kinds of USB host controller. This directory holds TLA+ modules that model the parts of
that system whose correctness depends on order, on shared state or on boundaries, TLC
configurations that check them on small instances, and TLAPS proofs of the results that
matter most. Paths below are relative to the repository; `kernel/` stands for
`boot/kernel/`.

## 1. The system: inventory

The kernel runs on one CPU. `kernel_main` (`kernel/kernel.cpp`) brings the system up in
one flow: paging, display, GDT/TSS/IDT, memory self tests, ACPI, APIC, timers, PCI,
storage, PS/2, USB. Interrupts are enabled late in that flow; from then on the keyboard
handler runs between any two instructions of it. The allocators guard their state with
test-and-set spinlocks (`kernel/include/x86-64/spinlock.h`), written for more callers
than there are today. Devices are the other concurrent party: host controllers and disks
read and write memory while the driver polls with a time limit.

| Component | State | Operations | What is hard, and what must hold |
|---|---|---|---|
| Frame allocator (`kernel/x86-64/memory/alloc.c`, `valloc.c`, `maphlp.c`) | bitmap, `bitmap_lock`, search hint `former_count` | `allocator_init`, `alloc_frame`, `free_frame`, `vmalloc`, `vfree` | `vmalloc` and `vfree` drop and retake the lock and touch the hint outside it; page tables are taken meanwhile. No frame has two owners; the bitmap says exactly what is owned. |
| DMA pool (`dma.c`, `dmahlp.c`) | list of entries, metadata pages with counts, descriptors inside the regions | `allocate_dma`, `free_dma`, `dma_phys_to_virt` | counts, list and descriptors must agree over long sequences. Regions are disjoint and mapped; freeing returns every page. |
| Virtual address allocator (`va_alloc.c`, `va_def.c`) | a tree of free ranges in metadata pages, `va_lock` | `va_alloc`, `va_free` | slots, counts, `va_latest` and the page cache must agree; no range is handed out twice or lost. |
| Kernel heap (`kmalloc.c`) | slab pages with their caches, slabs of 128 units, `latest`, `klock` | `kmalloc`, `kfree`, `krealloc` | slabs are found again by address; the last page of a large block is shared with small ones; slab pages come and go. Blocks are disjoint and every page goes back. |
| Paging (`paging.c`) | four-level tables, `paging_allocated_pages` | `create_mapping`, `destroy_mapping`, `paging_lookup`, `SetupPaging` | huge pages are split and merged, tables freed; no lock. |
| Keyboard (`drivers/keyboard`) | controller handshake, decoder state, two rings of 256 | controller init, IRQ1 handler, main-loop reader | bytes that arrive during initialisation; prefixes split over interrupts; a ring without a reader position. |
| Timers (`drivers/timers`, `apic.c`) | counter source, wrap state | `Timer`, `wait_ms`, HPET/PM read, RTC | 24-bit wrap; every driver's timeout rests on it. |
| USB (`drivers/usb`) | per-controller schedules, rings, ports, addresses, DMA buffers | controller init, port reset, enumeration, transfers | hardware shares the queues; a timeout races a late completion and the buffer must not be reused; enumeration fails half-way. |
| PCI (`drivers/pci`) | windows of configuration space, registers of the functions | configuration access, bus walk, BAR sizing, capability search | a register that is being sized answers at a wrong address; lists come from the device. |
| Storage (`drivers/storage`) | drive records, lock of a channel | IDE identify, sector read and write (SATA unfinished) | two drives behind one set of registers, two forms of addresses, time limits. A transfer that succeeds moved what was asked for. |
| ACPI, APIC, IDT, GDT, TSS, CPU (`kernel/x86-64`) | tables written once | table discovery, routing, exception handlers | boot-time, straight-line. |
| Display (`drivers/display/vga.c`, `font.c`) | cursor, framebuffer | `printf`, `draw_char`, scroll | layout only. |
| UEFI loader (`EFI/boot`), BIOS stages (`boot/bios`) | memory map, ELF image | load the kernel, size the bitmap | conversion of the memory map, region choice, clusters and pages of different size, one buffer for headers and data. The kernel finds itself complete, in usable memory. |

Interactions: `va_alloc`, `allocate_dma` and `vmalloc`'s callers get frames from the
frame allocator and mappings from paging; paging takes its tables from the frame
allocator; `kmalloc` gets pages from `va_alloc`; drivers use `kmalloc` (C++ `new`) and
the DMA pool; every polling loop uses `wait_ms` or an iteration limit.

## 2. Plan

The modules were written in the order of their weight for the system, and all of them
exist:

1. `FrameAllocator` with its abstract specification `FrameOwnership`, and `FrameBitmap`
   for the bytes below it: everything else in the kernel rests on them.
2. `DmaPool`: memory that devices write to.
3. `VaAlloc`: the address ranges of `kmalloc` and of every later user.
4. `Paging`: what the three allocators call to map and unmap.
5. `UsbCore`, what three host controller drivers share, with `Ehci`, `Uhci` and `Ohci` on
   top of it; `Xhci`, whose rings and commands are of another kind; `UsbTree`, the
   configuration a device sends.
6. `Kmalloc`, `Keyboard`, `Pci`, `Ata`: the other services with state of their own.
7. `Loader`: both boot paths from the memory map to the entry of the kernel.

`MCFrameAllocator`, `MCFrameBitmap` and `MCPaging` instantiate the memory modules as TLC runs
them and the proofs use them: they declare what those modules leave open under names that do
not clash (`BitmapFrames`, `hint`, `cursor`, `TableLimit`), assume what the constants are, and
name the specification and the properties; `MemoryProofs` extends all three and `DmaPool`.
`MCUsb` composes the three drivers under one enumeration; `MCServices` composes the parts
of 6, 7 and the rest of 5. The proofs are in eight modules:
`MemoryProofs` has those of the frame allocator, of its bitmap, of the DMA pool and of the
page tables; `UsbCoreProofs`, `UhciProofs`, `OhciProofs` and `XhciProofs` those of the
modules they are named after; `UsbProofs` those of `Ehci` and of `MCUsb`; `PartProofs` the
invariants of `Kmalloc`, `UsbTree` and `Loader`; `ServicesProofs` those of `Keyboard`, `Pci`
and `Ata` and the theorems of `MCServices`. `MCUsb` and `MCServices` extend or instantiate
the modules with the proofs, so that a theorem about a part is at hand in the composition.

What is left is proof: the safety invariants of `VaAlloc`, whose trees need an
argument of their own (section 6); that the table frames of `Paging` are a client of
`FrameOwnership`; `TypesOK`.

## 3. The modules and the code

**`FrameAllocator`** (`alloc.c`, `valloc.c`, `maphlp.c`). `used` is the set of frames
whose bitmap bit is 1, `former_count` the search hint, `lock` the holder of
`bitmap_lock`. `held[b]` and `tables` are what callers and page tables own: they are the
return values and the entries written by `create_mapping`, not variables of the code.
Each call is cut where another thread can come in: at every access to the hint outside
the lock, between finding a run and marking it, around each `create_mapping` of
`vmalloc`, between the pages of `vfree`. `vfree` goes page by page also where the code
frees a huge page of 2 MB or 1 GB in one call (`valloc.c:72`): other threads come in more
often than in the code, never less. `create_mapping` may take up to `MaxTables`
frames for page tables through `alloc_frame`. A scan of `vmalloc` that walks past the
bitmap leaves the thread at `crossed`, where nothing is said about it any more.

**`FrameOwnership`** is what the allocator promises: a frame belongs to nobody or to one
owner; a step gives a set of free frames to one owner or takes back frames of one owner.
`FrameAllocator!ImplementsOwnership` is the refinement, with a frame's owner read off
`used`, `tables` and `held`.

**`FrameBitmap`** (`allocator_init`, `fill_bitmap` and the range writes of `alloc_frame`
and `free_frame`). Bytes are sets of bit places; one phase of a range write (head, whole
bytes, tail mask) is one step. Byte `NBytes` is the byte after the bitmap: the tail mask
of a range that ends with the bitmap is a read and write of that byte. `goal` and
`reserved` are history variables.

**`DmaPool`** (`dma.c`, `dmahlp.c`, `dmadef.c`). The chain of entries, the header counts,
the descriptor that each region carries at the end of its last page, the frames and the
virtual map. Callers are the USB drivers on the boot flow, so each call is one step.
`Clears` says whether callers overwrite the memory they get. `FrameFits` is what the search
of `alloc_frame` (module `FrameAllocator`) can find.

**`VaAlloc`** (`va_alloc.c`, `va_def.c`). The record `va` is the allocator's state:
nodes in slots of metadata pages, header counts, `va_latest`, `va_entries`,
`va_metadata_pages`, `va_top`, `v_cache`. The code's functions (`find_fit`,
`attach_node`, `UpdateParents`, ...) are operators on that record; `va_alloc` and `va_free` hold
`va_lock` throughout and are one action each. `lost` and `state` are history: regions
that `va_free` gives up, and calls that write to no node or never return. `FramesLeft`
stands for `vmalloc` (module `FrameAllocator`): how many frames it can still back.

**`Paging`** (`paging.c`). Tables in frames, four levels, `F` entries per table instead
of 512. A step is one round of the outer loop of `create_mapping` or `destroy_mapping`;
`todo` is the stack of calls, as `destroy_mapping` calls `create_mapping` to restore the
ends of a huge page it cuts. Frames come from a fresh supply (`FreshFrame` stands
for `alloc_frame`, module `FrameAllocator`).

**`UsbCore`** (`get_device` and `scan_ports` of `usb.cpp`). One port after another goes
through the steps of enumeration (`Steps`); a step may fail, which ends its port. It has
the USB addresses, the devices on the ports and the buffers (`mem`, `qh`) a transfer lives
in. `mishap` is a history variable: the ways in which two devices come to have one address
(section 8). The three drivers extend it; the controller and the devices are external.

**`Ehci`** (`ehci.cpp`). Queue heads are linked by `next` from `async_head`. The driver's
steps are the submission, the poll, the unlinking with the doorbell, the wait for the
answer and what each caller does with the outcome (`address_done`, `descriptor_done`,
`packet_done`). `hc_stage` and `hc_halt` carry out or fail a stage of the queue head the
controller holds, `hc_advance` follows the link it read before, `hc_doorbell` answers once
nothing unlinked is held, `connect_change` pulls or plugs a device. IAAD and IAA are one
variable, since the controller clears the one as it sets the other. A reset that ends
after the driver stopped waiting takes effect at once.

**`Uhci`** (`uhci.cpp`). For a control transfer the controller is halted, all 1024 entries
of the frame list are exchanged for the transfer's queue head, and put back afterwards
(`backup`); all entries always have the same value and are one variable. Endpoints get
queue heads behind `anchor` (`link_qh`, `unlink_qh`, `usb_transfer`), with the data toggles
of host and device. Each wait for HCHalted may give up.

**`Ohci`** (`ohci.cpp`). One ED at the head of the control list; the controller looks at
CLE at the start of a frame, retires TDs to HcDoneHead, and publishes them in the HCCA when
WDH is clear. The driver sets the skip bit, waits for the frame number to change
(`ticked`) and for the TDs it watches (`retired`), or gives the buffer up for good.

**`Xhci`** (`xhci.cpp`). The command ring, the EP0 rings and the event ring, with cycle
bits and Link TRBs; the two sides keep an index and a cycle each (`command_enq` and
`command_deq`). A port goes through slot, address, descriptor, configuration; commands and
transfers may be given up and answered later. `mem[p][o]` says what became of each object
allocated for a port. Start, handoff from the firmware, scratchpad and no-op command come
first. `unpublished` is a history variable (section 8).

**`UsbTree`** (`count_tree`, `fill_interfaces` and the readers they call). The tree is a
sequence of bytes, of which a descriptor's length, its type and one more are told apart.
The readers count interfaces, then read each with its endpoints and companions.
`furthest` notes how far they read. The reference definition `Descriptors` splits a tree
without using the code's tests: `begin[n]` is where n descriptors end.

**`Kmalloc`** (`kmalloc.c`). Slab pages in their order (`heap`), each with its caches; a
slab divides a page into units. A call is a sequence of steps under `klock`: the search of
the slabs, `createSlab` with each allocation it makes, and for `kfree` the units, the
empty slab, the empty slab page. `va_alloc` (module `VaAlloc`) appears as the lowest run of free pages and
may fail at each call, `lost` and `broken` record what a failure leaves behind. `MaxBlocks`
bounds live blocks together with lost ones, so calls go on after a loss; the proof is for
every bound.

**`Keyboard`** (`ps2.cpp`, the loop of `kernel_main`). The user holds and
releases keys and the controller puts their codes on the line, prefixes and unasked shifts
included. The start-up handshake runs first, while keys may already move. Then
`keyboard_handler` takes one byte per interrupt: the first interrupt allocates the keyboard,
or uses one it did not get (`power = "fault"`), F11 never returns (`AcpiReset` ends in a
loop of `hlt`), any other byte is kept, decoded and counted. Interrupts are on from
`kernel.cpp:239`, the loop starts at line 287, after the boot path and three seconds:
`start_loop` may come after any number of bytes and takes the count of that moment
(`loop` keeps as history whether a byte came since); from then on the loop reads counts and prints, a step
at a time. What the rings hold before a character is written is `Garbage`, which the loop
prints like any other. Between lines 239 and 287 and in the loop, `kernel_main` itself
calls neither `kmalloc` nor `kfree`, so the handler's allocation cannot meet a `klock` that
the code it interrupted holds.

**`Pci`** (`pci.c`). Configuration registers of one function behind two ways of access,
the command bits, the sizing of registers of 32 and 64 bits and of I/O, and the two lists
of capabilities, which lead anywhere. Registers have `Width` significant bits.

**`Ata`** (`ata.c`). Two drives of a channel share the task file: every write of a register
reaches both, the command goes to the selected one. For 48-bit commands each register has
the value before. Drives work, fail, stay busy past the limit, and have a write cache. A
drive is taken to show BSY at once after READ, WRITE and FLUSH: the code reads the status
without the delay of 400 ns that the standard asks for (`ata.c:125`), so a drive that needs
it could have its old status taken for the answer.

**`Loader`** (`stage4.c`, `bootloader.c`). Memory maps in bytes, turned into pages; one
region for kernel, stack, bitmap, map and parameters; segments copied page by page, from
clusters on the one path and through the buffer of the headers on the other. `ram` says
what is at each address, `sizes[n]` what the first n segments need. `Addresses` and `Linked`
are what firmware and `link.ld` promise: entries within the address space, and segments that
begin on the page behind the one before.

## 4. Runs

| Run | Bounds | What it shows |
|---|---|---|
| `frames_calls` | 2 threads, 2 `alloc_frame` blocks and 1 `vmalloc` block, 5 frames of which 0 and 3 are reserved, requests of 1 and 2 pages, 1 page table | one owner per frame, exact bitmap, refinement of `FrameOwnership`, calls return. Two threads are enough to interleave any two calls; a hole of two frames and one of one frame make the search skip, fill and run out. |
| `frames_bounds` (violation) | 1 thread, `vmalloc` of up to 3 pages | `run_simulation` is not binding, see section 7. |
| `bitmap_writes` | 2 bytes, all memory maps of up to 2 descriptors, 3 kernel places, 1 later write | range writes are exact, also where they end with the bitmap; page statistics add up. Two bytes give each pair of phases (head and whole byte, whole byte and tail, head and tail) and a tail mask that falls on the byte after the bitmap; the proof covers every size. |
| `dma_safety` | two machines: 5 slots on one metadata page, 4 frames, requests of 1, 2 and 3 pages; 2 slots per metadata page, 3 frames, pages added | on one page regions are disjoint, mapped, with their own descriptor, and freeing returns every frame; corruption beyond the first page starts from wrong header counts and from nothing else. |
| `dma_release` (violation) | callers that do not clear | a stale descriptor frees too little, see section 7. |
| `va_pages` | two machines with 3 slots per metadata page: ranges of 5 pages, where `spare` keeps the upper range from running out; ranges of 2 pages and 5 frames | counts, trees and `va_latest` agree while pages come and go through `v_cache`; ranges and frames run out exactly or not; nothing twice, nothing lost but by the early return, pruned search complete. |
| `va_hang` (violation) | the second of these machines | `va_free` does not return, see section 7. |
| `paging_safety` | `F = 2`, addresses below 9 (two PML4 entries), lengths 1 and 6, aligned and misaligned frames, 3 calls, with and without 1 GB pages | ranges mapped and unmapped exactly, tables neither leaked nor freed twice, nothing else redirected. Three calls are map, cut, map over it: 6 pages take huge pages of both sizes and single ones, and 1 page cuts them in the middle. |
| `paging_liveness` | 2 calls | `destroy_mapping` always gets past the page it splits. |
| `usb_enumeration` | EHCI: 2 ports, 2 buffers, addresses up to 2. UHCI: 2 ports, 3 buffers, 1 endpoint, and 1 port with 2 endpoints; one address. OHCI: 2 ports, 2 buffers, one address, 1 data TD. The first address to hand out is any | nothing freed that the controller can reach (but for UHCI controllers that do not halt), schedules keep their shape, toggles agree, addresses distinct but for the mishaps below. |
| `ohci_done_queue` (violation) | 1 port, 2 data TDs | a TD still queued when its buffer is freed, see section 7. |
| `kernel_services` | see below | each of the seven parts keeps its properties. |

`usb_enumeration`: one buffer can be in quarantine or left in a schedule while the others
are in use. A UHCI behaviour is not followed beyond the first buffer that was freed while
the frame list pointed to it (the property excepts it, and anything may follow), and on
the instance with two endpoints the device stays once it is enumerated. The classes do not
share state, so a behaviour has one class.

`kernel_services`: a behaviour follows one part, since the parts do not touch one another's
state; they share a run, not a state. What the constants stand for:

| Part | Bounds |
|---|---|
| `Xhci` | 2 ports, a command ring of 3 TRBs and EP0 rings of 5 or 6 before the link (255 in the code): rings wrap several times, and a transfer fits exactly in front of the link or not |
| `Kmalloc` | pages of 2 units (128), 1 or 2 slabs on the first slab page (112), 1 counted on in a later one (79), blocks of at most 1 whole page, 3 live or lost blocks, 14 pages: slab pages are added, emptied in the middle and at the end, and pages run out |
| `Keyboard` | rings of 2 (256), 2 keys held, 3 key events: prefixes, unasked shifts and both locks occur; decoder and rings do not count beyond the ring; the loop starts before, between and after the bytes of each event |
| `Pci` | registers of 2 bits, 3 places in a list, 2 identifiers: all lists over these places, circular ones too |
| `Ata` | addresses 15 and 16 and counts 0 to 2 where 28-bit addresses end at 16 and 48-bit ones at 64; channels with one or two drives, with a packet device, with one that says it is larger than 28 bits allow |
| `UsbTree` | up to 4 descriptors of 12 kinds, some cut off; structures of 3 bytes |
| `Loader` | pages of 4 bytes, 1 MB at 4, 4 GB at 56, 2^64 at 80; maps of two entries with partial pages, clusters of 2, 4 and 8 bytes (smaller than, as large as and larger than a page), two images with empty and partly filled segments |

Runs without deadlock checking are those whose callers may stop calling (bounds on calls,
a thread at `crossed`, no call possible) or whose boot flow ends; `usb_enumeration` checks
it. Symmetry is used for the buffers of EHCI and OHCI only (interchangeable model values,
safety properties). Each module has a `TypeOK`; the runs check those that bound a ring or
that a proof uses.

## 5. Fairness

`frames_calls`: strong fairness on the steps of a thread inside a call, and on the step with
which `create_mapping` or `destroy_mapping` ends, since both walk a finite range. Strong
fairness matters where a step takes `bitmap_lock`, and there it is an assumption about the
hardware: a test-and-set lock has no queue, and two CPUs that alternate unluckily could
starve one. The property
then shows that no path keeps the lock or loops for ever. `paging_liveness`: weak
fairness on the call in progress; the boot flow is the only caller and nothing blocks it.
Callers are never obliged to call. The other runs are about safety only: a driver's
wait ends by its time limit whatever the device does, which the models take as a step that
is always possible, so nothing would be shown by asking that it ends.

## 6. Proofs

TLAPS proves for all values of the constants that satisfy the named assumptions
(`FrameAllocatorAssumption`, `FrameBitmapAssumption`, `PagingAssumption`,
`DmaPoolAssumption` and those of the other modules), which TLC evaluates on every run. A
theorem names the same specification and the same property as the run of its component.

- `MemoryProofs`:
  - `AllocatorTypeCorrect`, `NoFrameTwiceHolds`, `BitmapExactHolds` and `OwnershipRefined`
    (`FramesSpec => ImplementsOwnership`), for any number of threads, frames and blocks.
    `NoFrameTwice` is not inductive: that a run is still free when it is marked follows from
    who holds the lock. `AllocatorInv` is `Control /\ OneOwner /\ Exact`, where `Control` says
    that only the holder of `bitmap_lock` is in a locked section (`LockInv`), that a call has
    its block for itself (`BlkInv`) and that what the holder found is free (`RunInv`);
    `OneOwner` and `Exact` are the two properties frame by frame, which is the form the
    provers can use. A step either grants free frames to one owner, takes frames back from
    one owner, or leaves ownership alone; the refinement proof follows the same three cases.
  - `WritesExactlyHolds` and `NeighbourKeptHolds` for a bitmap of any size, and
    `UsableAddsUpHolds` for any memory map. `BitmapInv` adds `Phases` (which byte offset each
    phase of a write can be at). The lemmas `ByteFrames` to `ApplyBits` turn a byte-wise mask
    into a set of frames.
  - `NonOverlappingHolds`, `LiveMappedHolds`, `DescriptorMatchesHolds` and the action property
    `FreeReleasesEveryPageHolds`, for pools of one metadata page with any number of slots,
    frames and requests, under the hypothesis `Clears = {TRUE}`. The hypothesis is needed:
    `dma_release` violates them with callers that leave a descriptor behind (section 7).
    `PoolInvariant` says that the list has the entries in the order of their slots and the
    one header counts at least the slots behind them (`Lists`), that each region has
    its descriptor, its entries and its frames (`Described`, `Claimed`, `Backed`), and that
    two regions share none (`Regions`).
  - `TablesExactHolds`, `CreateMapsHolds`, `DestroyUnmapsHolds` and `OutsideKeptHolds`, for
    tables of any number of entries and any sequence of calls, with and without 1 GB pages.
    The hypothesis `TableLimit < VSize` is needed: a range that ends with the address space
    wraps to 0 and `create_mapping` returns at once (section 8). `PagingInv` says that the
    frames with tables are a tree: a walk stays in them (`Walks`), and each is at exactly one
    place (`OneZone`, `Placed`). For the call in progress it says how far it has come:
    `CreateAt(d)` and `DestroyAt(d)` relate every address to what it was mapped to before
    the call, and `Splitting` does so while `destroy_mapping` maps the ends of a huge page again
    by a nested `create_mapping`, where the rest of the page is unmapped for a while.
- `UsbProofs` (with `UsbCoreProofs`, `OhciProofs`, `UhciProofs`), for any number of ports,
  buffers, endpoints and addresses (`UsbAssumption`, `MoreAssumption`):
  - `EhciNoUseAfterFreeHolds`, `EhciRingClosesHolds`. The property speaks of what the
    controller can reach from where it is, through queue heads unlinked long before. The
    invariant says that links of buffers in use or in quarantine lead to such buffers
    (`LinksKept`), that all of them lead back to `async_head` (`Returns`), that the transfer
    in progress is first and has no other predecessor (`CurLinked`), and that the controller
    holds none other, and not the unlinked one once it has answered the doorbell (`HcKept`).
    `Reach` is the least set closed under `next`, so the proof only exhibits a closed set of
    buffers that are not free.
  - `OhciNoUseAfterFreeHolds`, under the hypothesis `DataTds = 1`. The hypothesis is needed:
    `ohci_done_queue` violates the property with two data TDs (section 7). The invariant
    says that once a frame has passed with the skip bit set the controller does not work on
    the ED (`CurSkipped`), and that a TD comes into a done queue once and is in none when the
    driver has met it (`CurTds`).
  - `UhciNoUseAfterFreeHolds`, `UhciBetweenCallsHolds`. After a buffer has been freed too
    late (`late`) anything may follow, so `InTime` is about the states before that, and
    the invariant holds only as long as `late` is empty. It ties the frame list to the
    phase of the call and `backup`, and the chain behind `anchor` to the endpoints.
  - `DistinctAddressesHolds`. `AddressInv` adds what happens to an address between
    `allocate_usb_address` and the answer of the device: it is nobody else's, and the
    device that hears at 0 is the one being enumerated unless a mishap has occurred.
- `ServicesProofs` (with `XhciProofs` and `PartProofs`). The constants of `MCServices` are declared, and get
  their values in `kernel_services.cfg`, so that these results hold for all values that
  satisfy the seven assumptions of that module.
  - `XhciRingsInStepHolds`, `XhciAnswersMatchHolds`: the index and the cycle bit of the two
    sides of each ring, and the events under way, determine which TRBs are pending
    (`Invariance`).
  - `XhciNoUseAfterFreeHolds`, from `MemoryInvariance`: `MemInv` says what a pending command
    (`PendingInv`), a slot's state (`SlotsInv`), the completion of a step's command (`EndsInv`) and a pending
    transfer (`DataInv`) mean for the objects of the port, whether the driver still waits or
    gave up. `Sizes` is what the code's
    constants give: the command ring has more TRBs than there are ports (otherwise the
    Link TRB could be given a new cycle bit before the controller has passed it), and an
    EP0 ring has at least five TRBs (a transfer that wraps finds its first half free).
  - `KeyboardFollowsHolds`: the decoder's state is not a function of the keys held, since
    bytes are under way. `DecoderInv` says that a run of the decoder over the bytes on the
    line leads to the state that the keys have; `ScreenInv` relates the count that the main
    loop read to the rings, and the counts to the start of the loop and to the allocation of
    the keyboard: no byte is counted before it is there, none noticed before the loop runs.
  - `PciCapabilityFoundHolds`: `SearchInv` has the set of the places visited. Either
    the walk is at a new place, so that the set grows, or it goes round in a circle and the
    set is closed; after `Places` visits the set is everything, by the pigeonhole principle.
  - `PciProbeSafeHolds`: `ProbeInv` says what each step of a probe has left in the registers
    and that nothing is decoded from the first write of all ones to the last write back. That
    the size read is the size of the register rests on powers of two, a recursive function.
  - `AtaTransfersMatchHolds`: `AtaInv` says what the two drives have seen of the shared task
    file (`ViewInv`), what the selected drive is asked to do (`DevInv`), what the driver
    knows (`CallInv`) and that after k sectors the first k are where they belong
    (`ProgressInv`). `Attached` is about the drives: one that takes 48-bit commands has no
    more sectors than 48 bits address. Drives given up while at work (`stale`) are excepted,
    as in the property.
  - `HeapBlocksDisjointHolds`, `HeapPagesAccountedHolds`. That two blocks are apart depends
    on every page having one use, which passes from `va_alloc` to a call and on to a slab or
    a block. `HeapOwned` states it as one function from the pages of the pool to their
    owners: a slab page, a slab, a block, the call under way, or nobody (`lost`); a step
    changes the owner of the pages it is about, and disjointness of all pairs follows.
    Within a page `HeapBlocks` and `Stacked` say that the units of the blocks of a slab are
    taken and apart, that `FreeObs` counts the others, and that a slab is either in use or
    once on the stack of unused ones, with neither units nor a page. `HeapList` says that
    only the last slab page has entries never used, right behind `latest`, which is why
    `createSlab` never goes over a slab. `check_page` compares the height of the stack with
    the number of slabs: since no slab is on the stack twice, equality means that none is in
    use (`AllStacked`, the pigeonhole principle). `Sizes` of `Kmalloc` asks for room for the
    first slab page and its caches and for at least one slab per slab page.

  - `UsbTreeReadHolds`, for every sequence of bytes. The reference definition counts
    descriptors from the beginning and collects them in sets; the readers go on from where
    they are. `TreeInv` says that every offset they stop at is one of the reference's places
    (`Chain`), that what they have read is what lies below it, in order, and that an interface
    with too few endpoints is never gone past (`Phase`); `Held` is about memory and outcome.
  - `KernelLoadedHolds`, for every memory map, every image that `Linked` describes and every
    cluster size. `LoaderInv` says that the map made so far has exactly the pages that the
    entries looked at give whole (`MapInv`), where the loops are (`ControlInv`) and, if a
    region was found at an address the path can use (`Good`), that the segments before the
    one at work are complete, its copied pages too, and the map as written (`RamInv`). A page
    the BIOS path copies can reach beyond its segment, so the argument needs that segments
    are one behind the other on pages of their own (`Offsets`), and that the last ends before
    the stack.

The provers have no induction. Where a definition is recursive (`Power`, `begin`, `sizes`, the
searches of the DMA pool, the sizes of the levels of the tables), a statement about all its
values is proved by taking the set of exceptions, which has a least element (`LeastNat`, from
the library's theorem on well-founded sets), and showing that none is least (`NoException`).

Only model-checked:

- liveness (`CallsReturn` of the allocator, `MappingReturns` of the page tables), which is out of the prover's
  reach;
- `VaAlloc` (`NoPageTwice`, `NoPageLost`, `FindFitComplete`, `CountsAgree`): the free
  ranges are binary trees whose nodes move between slots, and each operation descends or
  climbs by recursion that ends only because the links form no circle. That they form none is
  itself part of what would have to be shown, and `va_hang` shows a history in which they do;
  an invariant of the histories without it has to carry the order of the nodes of each tree;
- `CountsAreTheCause` of `DmaPool`, about pools of several metadata pages, where the code's
  invariants are broken;
- `TypesOK`, which bounds the rings of the keyboard; the parts of it that a proof needs are
  conjuncts of the invariants above.

## 7. Findings

- `frames_bounds`: `run_simulation` promises that a request stays inside the bitmap.
  `vmalloc` asks once and then lets `create_mapping` take frames; the scan can end up
  short and read past `bitmapSize`.
- `dma_release`: `free_dma` looks for the first descriptor signature above the base.
  Frames keep the signature of an earlier, shorter region until they are overwritten;
  then only the earlier length is released, against
  `test_free_releases_every_backing_page`.
- `va_hang`: `va_free` recognises an unused slot by `length == 0 && Parent == NULL`, and
  so does the root of a tree whose own range is used up. It becomes its own descendant's
  child and `UpdateParents` walks in a circle with `va_lock` held.
- `ohci_done_queue`: `wait_for_transfer_reap` watches the setup TD, the first data TD and
  the status TD. With more data TDs the buffer can go back to the pool while one of them is
  still linked in HcDoneHead, against the comment above the call (`ohci.cpp:743`). The driver has
  stopped the list by then; the controller will publish the freed TD with the next batch.

## 8. Known limits of the code that the models contain

They break no property, because the property names them; a reader of the code should know
them.

- `alloc_frame` searches from `former_count` on and reports no memory although frames
  below it are free: a request that skips a hole leaves the hint behind the hole, and only
  a free below the hint moves it back (`alloc.c:147`).
- `free_dma` raises the header count of a page and `allocate_dma` does not lower it when
  it reuses a slot: beyond one metadata page the counts drift, entries are written past
  the page or over others, and regions overlap. `CountsAreTheCause` shows that there is
  no other cause.
- `va_free` returns early when no node can take a child: the range and its frames stay
  taken for ever (`lost`). With no frame left for the metadata page it needs, it writes
  to no node (`state = "fault"`). `find_fit` takes from the root while it has room, so
  metadata grows with the number of freed ranges.
- `create_mapping` of a part of a huge page drops the mapping of the rest
  (`OutsideKept` excludes exactly that), and a range that ends at 2^64 maps nothing.
- Addresses: a device that fails half-way stays enabled at address 0 (`disable_port` is
  never called) and hears what is sent to the next one; SET_ADDRESS can complete after the
  last poll, or complete with an error flag after a retry, and its address is handed out
  again. These are the mishaps of `AddressesDistinct`.
- EHCI: an error in any stage but the last leaves the later stages active, so the queue
  head stays in the schedule and its buffer in quarantine; an unanswered doorbell makes
  every later transfer end that way. `needs_reinit` is set and never read here.
- UHCI: when the controller does not halt, or does not start again, in time, the buffer is
  freed while the frame list points to it (`late`); a call that ends in LINK_ERROR after a
  start that timed out leaves its queue head linked (`left`).
- xHCI: a transfer that ends exactly in front of the Link TRB does not give the link its
  new cycle bit; on every second pass the controller stops there (`unpublished`). A ring of
  255 TRBs is not filled by enumeration alone.
- Heap: `createSlab` links a slab page before its caches exist and does not take it back
  when they cannot be allocated (`broken`); a failed `createSlab` loses the whole pages of
  its block (`lost`).
- PCI: an I/O register of 16 bits gets a wrong size (`pci.c:500`); writing the command
  word clears status bits through the 32-bit write of the ports.
- ATA: `ata_configure_lba` waits on the drive selected before; a drive that an earlier call
  gave up can get a command while it is at work (`call.stale`).
- Keyboard: a scan code that arrives before the acknowledgement of a command is taken for
  the answer (`ps2.cpp:172`), and the start-up goes on without what it asked for. Keys typed
  before the main loop starts are decoded and kept, but `kernel.cpp:287` counts them as seen:
  they appear with the first byte that comes after it, and `ScreenCurrent` is about the time
  from that byte on. The first interrupt uses `new GlobalKeyboard` untested
  (`ps2.cpp:287`); nothing is claimed of a kernel that had no memory for it.
- Loaders: without a region for the kernel both go on with address 1; the BIOS path cuts a
  region beyond 4 GB to 32 bits.

## 9. Not modelled

Limits that were met in reading and that no module contains: `alloc_pages` ignores a failed
`alloc_frame` (`paging.c:90`); `vfree` frees a frame before it unmaps it (`valloc.c:69`);
`free_dma` reads a descriptor after unmapping it (`dma.c:224`); `set_address` of OHCI frees
its buffer and returns before anything is sent when the packet size is none that the speed
allows (`ohci.cpp:1065`); an initialisation of the PS/2 controller that fails at its first command
leaves what the firmware set up; draining reads at most 32 bytes (`ps2.cpp:142`), more than
a keyboard holds; `dma_phys_to_virt` stops at
the first hole (`dma.c:240`); a reader of the clock that is late by a whole turn of the
counter loses it (`timer.cpp:71`); `new u32[1024]` in `uhci.cpp` is not tested; the BIOS
path maps 1 GB only; the UEFI loader does not allocate its region, and its map for the
kernel is older than the last one; a segment whose alignment is not a page.

Parts without a module, with the reason:

- memory diagnostics print figures of other modules; memory helpers are straight-line; the
  spinlock is part of `FrameAllocator`;
- timers: every wait is a limit that may pass at any moment; the readers are register
  reads;
- ACPI and power, interrupts and CPU tables, display, the assembly stages: fixed sequences
  of writes in hardware-defined layouts, or look-ups, where a model would only repeat the
  code;
- the bus walk of PCI, the search of directories and of the RSDP, controller discovery:
  they read and compare and keep no state that a later step depends on;
- `sata.cpp`, and `link_ed` and `usb_transfer` of `ohci.cpp`, do not compile (members and
  names that are declared nowhere), so there is no behaviour to model; `disable_port`,
  `link_qh` of EHCI, `ata_reset_channel` and the interrupt path of xHCI have no caller.

Paging's frames are a fresh supply rather than `FrameAllocator`; running out of frames
during a mapping is not modelled. TLB shoot-down and memory ordering between CPUs are not
modelled: the kernel runs on one. Disks and firmware in `Loader` do what they are asked.
