------------------------------ MODULE MCServices ------------------------------
(***************************************************************************)
(* The loaders and the services that do not call one another in a property *)
(* of theirs: a behaviour chooses one part and follows it.  Variables of   *)
(* the same name are used by several parts; those a part does not have are *)
(* None.                                                                   *)
(***************************************************************************)
EXTENDS PartProofs

CONSTANTS
  XPorts, CmdLink, Ep0Links,
  RingSize, MaxEvents, MaxHeld,
  Width, Places, Ids,
  Models, Lbas, Counts

VARIABLES
  part,
  ep0_link, bios, step, port, attempted, needs_reinit, mem, slot, slots, dcbaa, commands,
  command_enq, waiting, answer, ep0, ep0_enq, unpublished, armed, got, events, hslots, command_deq,
  ep0_deq, ep0_halted,
  stage, line, caps_on, num_on, presses, early, decoder, set, ascii, ascii_top, scancode_top, irq_count,
  power, loop, old_count, place, screen,
  regions, command, status, bars, assigned, list, ext, saved,
  model, drive, locked, selected, regs, dev, cache, ata_status, moved

XVars == <<ep0_link, bios, step, port, attempted, needs_reinit, mem, slot, slots, dcbaa, commands,
       command_enq, waiting, answer, ep0, ep0_enq, unpublished, armed, got, events, hslots,
       command_deq, ep0_deq, ep0_halted>>
HVars == <<kmax, max, pool, heap, latest, blocks, kpc, lost, broken>>
KVars == <<stage, line, caps_on, num_on, presses, early, decoder, set, ascii, ascii_top, scancode_top,
       irq_count, power, loop, old_count, place, screen>>
PVars == <<regions, command, status, bars, assigned, list, ext, saved>>
AVars == <<model, drive, locked, selected, regs, dev, cache, ata_status, moved>>
TVars == <<tree, offset, interfaces_count, interfaces, wanted, endpoints, no_memory, furthest>>
LVars == <<path, e820, efi_map, image, cluster_size, i, region, kernelstart, addr, copied, headers, ram>>
allVars == <<part, pc, call, held, result, XVars, HVars, KVars, PVars, AVars, TVars, LVars>>

(* lengths of the rings of endpoint 0 *)
MCEp0Links == {5, 6}
(* the slabs of the first page of slabs, and what is taken for those of another *)
MCShapes == {<<1, 1>>, <<2, 1>>}

(* Drives on a channel: one beyond the limit of 28-bit addresses with one up to it, *)
(* one alone, and one that says it is larger than it can be with a packet device.   *)
Drive(type, lba28, lba48, s28, s48) == [type |-> type, lba28 |-> lba28, lba48 |-> lba48, s28 |-> s28, s48 |-> s48]
Large == Drive("ata", TRUE, TRUE, 15, 17)
MCModels ==
  {[master |-> Large, slave |-> Drive("ata", TRUE, FALSE, 16, 0)],
   [master |-> Large, slave |-> Drive(None, FALSE, FALSE, 0, 0)],
   [master |-> Drive("ata", TRUE, FALSE, 17, 0), slave |-> Drive("atapi", FALSE, FALSE, 0, 0)]}

(* Descriptors with few or many endpoints, of sufficient and insufficient length, with *)
(* lengths that make no sense; a tree has up to four and may be cut off.               *)
Descriptor == {<<3, 4, 0>>, <<3, 4, 1>>, <<3, 4, 2>>, <<2, 4>>, <<3, 5, 1>>, <<3, 5, 2>>, <<2, 5>>,
               <<3, 48, 0>>, <<2, 48>>, <<2, 7>>, <<0, 7>>, <<5, 7>>}
MCTrees == {a \o b \o c \o d : a \in Descriptor \cup {<<>>}, b \in Descriptor, c \in Descriptor,
                              d \in Descriptor \cup {<<>>, <<3>>, <<3, 4>>, <<3, 5>>}}

(* Memory maps of two entries, with partial pages that two of them may share, with or without a *)
(* region for the kernel, beyond 4 GB, or up to the end; segments, empty ones and others.       *)
Entry(base, length, usable) == [base |-> base, length |-> length, usable |-> usable]
MCMaps ==
  LET Below == {Entry(b, l, u) : b \in {0, 3, 4, 6, 9}, l \in {0, 1, 3, 4, 5, 8, 12}, u \in BOOLEAN}
      Above == {Entry(20, 36, TRUE), Entry(22, 26, TRUE), Entry(24, 28, TRUE), Entry(20, 60, TRUE),
                Entry(56, 23, TRUE), Entry(32, 16, FALSE)}
      Both == {m \in Below \X Above : m[1].base + m[1].length <= m[2].base}
  IN Both \cup {<<m[2], m[1]>> : m \in Both}
Header(load, o, v, f, m) == [load |-> load, offset |-> o, vaddr |-> v, filesz |-> f, memsz |-> m]
MCImages ==
  {<<Header(TRUE, 4, 8, 6, 6), Header(TRUE, 12, 16, 3, 7), Header(FALSE, 0, 0, 0, 0)>>,
   <<Header(TRUE, 4, 8, 4, 4), Header(FALSE, 0, 0, 0, 0), Header(TRUE, 8, 12, 0, 3)>>}
MCClusters == {2, 4, 8}

X == INSTANCE XhciProofs
K == INSTANCE Keyboard
P == INSTANCE Pci
A == INSTANCE Ata

ASSUME XhciAssumption == X!Sizes
ASSUME HeapAssumption == Sizes
ASSUME KeyboardAssumption == RingSize \in Nat
ASSUME PciAssumption == Places \in Nat /\ Width \in Nat /\ Width >= 2
ASSUME AtaAssumption == A!Attached
ASSUME UsbTreeAssumption == Trees \subseteq Seq(Nat) /\ DescriptorSize \in Nat
ASSUME LoaderAssumption == B!Addresses /\ B!Linked /\ Clusters \subseteq Nat \ {0}

NoXhci ==
  /\ ep0_link = None /\ bios = None /\ step = None /\ port = None /\ attempted = None
  /\ needs_reinit = None /\ mem = None /\ slot = None /\ slots = None /\ dcbaa = None
  /\ commands = None /\ command_enq = None /\ waiting = None /\ answer = None /\ ep0 = None
  /\ ep0_enq = None /\ unpublished = None /\ armed = None /\ got = None /\ events = None
  /\ hslots = None /\ command_deq = None /\ ep0_deq = None /\ ep0_halted = None
NoKmalloc ==
  /\ kmax = None /\ max = None /\ pool = None /\ heap = None /\ latest = None /\ blocks = None
  /\ kpc = None /\ lost = None /\ broken = None
NoKeyboard ==
  /\ stage = None /\ line = None /\ caps_on = None /\ num_on = None /\ presses = None
  /\ early = None /\ decoder = None /\ set = None /\ ascii = None /\ ascii_top = None /\ scancode_top = None
  /\ irq_count = None /\ power = None /\ loop = None /\ old_count = None /\ place = None /\ screen = None
NoPci ==
  /\ regions = None /\ command = None /\ status = None /\ bars = None /\ assigned = None
  /\ list = None /\ ext = None /\ saved = None
NoAta ==
  /\ model = None /\ drive = None /\ locked = None /\ selected = None /\ regs = None /\ dev = None
  /\ cache = None /\ ata_status = None /\ moved = None
NoUsbTree ==
  /\ tree = None /\ offset = None /\ interfaces_count = None /\ interfaces = None /\ wanted = None
  /\ endpoints = None /\ no_memory = None /\ furthest = None

NoLoader ==
  /\ path = None /\ e820 = None /\ efi_map = None /\ image = None /\ cluster_size = None /\ i = None
  /\ region = None /\ kernelstart = None /\ addr = None /\ copied = None /\ headers = None /\ ram = None

MCInit ==
  \/ /\ part = "Xhci" /\ X!Init
     /\ NoKmalloc /\ NoKeyboard /\ NoPci /\ NoAta /\ NoUsbTree /\ NoLoader /\ call = None /\ held = None /\ result = None
  \/ /\ part = "Kmalloc" /\ Init
     /\ NoXhci /\ NoKeyboard /\ NoPci /\ NoAta /\ NoUsbTree /\ NoLoader /\ pc = None /\ held = None /\ result = None
  \/ /\ part = "Keyboard" /\ K!Init
     /\ NoXhci /\ NoKmalloc /\ NoPci /\ NoAta /\ NoUsbTree /\ NoLoader /\ pc = None /\ call = None /\ result = None
  \/ /\ part = "Pci" /\ P!Init
     /\ NoXhci /\ NoKmalloc /\ NoKeyboard /\ NoAta /\ NoUsbTree /\ NoLoader /\ call = None /\ held = None
  \/ /\ part = "Ata" /\ A!Init
     /\ NoXhci /\ NoKmalloc /\ NoKeyboard /\ NoPci /\ NoUsbTree /\ NoLoader /\ held = None /\ result = None
  \/ /\ part = "UsbTree" /\ T!Init
     /\ NoXhci /\ NoKmalloc /\ NoKeyboard /\ NoPci /\ NoAta /\ NoLoader /\ call = None
  \/ /\ part = "Loader" /\ B!Init
     /\ NoXhci /\ NoKmalloc /\ NoKeyboard /\ NoPci /\ NoAta /\ NoUsbTree /\ call = None /\ held = None /\ result = None

MCNext ==
  /\ UNCHANGED part
  /\ \/ part = "Xhci" /\ X!Next /\ UNCHANGED <<HVars, KVars, PVars, AVars, TVars, LVars, call, held, result>>
     \/ part = "Kmalloc" /\ Next /\ UNCHANGED <<XVars, KVars, PVars, AVars, TVars, LVars, pc, held, result>>
     \/ part = "Keyboard" /\ K!Next /\ UNCHANGED <<XVars, HVars, PVars, AVars, TVars, LVars, pc, call, result>>
     \/ part = "Pci" /\ P!Next /\ UNCHANGED <<XVars, HVars, KVars, AVars, TVars, LVars, call, held>>
     \/ part = "Ata" /\ A!Next /\ UNCHANGED <<XVars, HVars, KVars, PVars, TVars, LVars, held, result>>
     \/ part = "UsbTree" /\ T!Next /\ UNCHANGED <<XVars, HVars, KVars, PVars, AVars, LVars, call>>
     \/ part = "Loader" /\ B!Next /\ UNCHANGED <<XVars, HVars, KVars, PVars, AVars, TVars, call, held, result>>

MCSpec == MCInit /\ [][MCNext]_allVars

-----------------------------------------------------------------------------
(* Every part's variables keep their types. *)
TypesOK ==
  CASE part = "Xhci" -> X!TypeOK
    [] part = "Kmalloc" -> TypeOK
    [] part = "Keyboard" -> K!TypeOK
    [] part = "Pci" -> P!TypeOK
    [] part = "Ata" -> A!TypeOK
    [] part = "UsbTree" -> T!TypeOK
    [] part = "Loader" -> B!TypeOK

(* Xhci!NoUseAfterFree: the controller never has a pointer to memory that was freed, however *)
(* late it answers a command the driver gave up (address_device, disable_device_slot).       *)
XhciNoUseAfterFree == part = "Xhci" => X!NoUseAfterFree

(* Xhci!RingsInStep: driver and controller go through the rings in step: the controller finds *)
(* exactly what was submitted, on every pass over the Link TRB and its cycle bit.             *)
XhciRingsInStep == part = "Xhci" => X!RingsInStep

(* Xhci!AnswersMatch: an event is taken for the answer only of the command or transfer it *)
(* belongs to, though the answers of abandoned ones come in later (process_event).        *)
XhciAnswersMatch == part = "Xhci" => X!AnswersMatch

(* Kmalloc!BlocksDisjoint: no unit of memory belongs to two live blocks, and none to a block and *)
(* to the heap's own pages, after any sequence of kmalloc and kfree.                             *)
HeapBlocksDisjoint == part = "Kmalloc" => BlocksDisjoint

(* Kmalloc!PagesAccounted: every page taken from va_alloc is used by the heap, and goes back when *)
(* its last block does, but for those a failed call forgot (kmalloc, deallocate_slab).            *)
HeapPagesAccounted == part = "Kmalloc" => PagesAccounted

(* Keyboard!ModifiersFollowKeys and Keyboard!ScreenCurrent: between keys the decoder knows which   *)
(* modifiers are down, and the main loop, when it rests, has printed the last characters, wherever *)
(* the interrupts came, but for those that came before the loop started: they wait for the next    *)
(* byte (scancode_to_ascii, keyboard_handler, kernel_main).                                        *)
KeyboardFollows == part = "Keyboard" => K!ModifiersFollowKeys /\ K!ScreenCurrent

(* Pci!ProbeSafe: a function whose base address register is being sized decodes nothing, gets its *)
(* registers back, and address and size are right (pci_read_bar).                                 *)
PciProbeSafe == part = "Pci" => P!ProbeSafe

(* Pci!CapabilityFound: a search of a list of capabilities, circular or not, ends and finds what *)
(* the list leads to (pci_find_capability, pci_find_extended_capability).                        *)
PciCapabilityFound == part = "Pci" => P!CapabilityFound

(* Ata!TransfersMatch: a transfer that succeeds moved the sectors asked for, at any address, and *)
(* what was written left the cache; the lock is released on every way out (ata_read, ata_write). *)
AtaTransfersMatch == part = "Ata" => A!TransfersMatch

(* UsbTree!TreeRead: whatever lengths a device sends nothing behind the tree is read, and a device *)
(* is used exactly when each interface has its endpoints (count_tree, fill_interfaces).            *)
UsbTreeRead == part = "UsbTree" => T!TreeRead

(* Loader!MapRight and Loader!ImageComplete: the kernel is entered with all its segments, map and *)
(* parameters in place, in memory that is usable as a whole, and with a map that has no page of   *)
(* other memory as usable, on both boot paths (load_kernel, elf_allocator, convert_e820_to_efi).  *)
KernelLoaded == part = "Loader" => B!MapRight /\ B!ImageComplete
=============================================================================
