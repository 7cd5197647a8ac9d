--------------------------------- MODULE Xhci ---------------------------------
(***************************************************************************)
(* The xHCI driver (drivers/usb/xhci.cpp) and its controller.  They share  *)
(* a command ring, a ring of transfers for the endpoint 0 of each device,  *)
(* and an event ring.  A TRB belongs to the controller when its cycle bit  *)
(* is the one the controller expects; the bit changes its meaning with     *)
(* every pass, at the Link TRB that ends the ring.  Commands and transfers *)
(* that do not end in time may still end later: the driver keeps their     *)
(* memory and takes no other event for their completion.                   *)
(*                                                                         *)
(* Nothing but the driver's own waits reads the event ring                 *)
(* (xhci_process_events is not connected to an interrupt).                 *)
(***************************************************************************)
EXTENDS Integers, Sequences

CONSTANTS
  None,
  XPorts,    \* root ports with a device
  CmdLink,   \* index of the Link TRB of the command ring, 255
  Ep0Links   \* values of EP0_LINK to be considered, 255 in the code

Slots == XPorts                                  \* the controller has a slot for each port
Objects == {"in", "out", "ring", "data", "rings"}  \* input and device context, EP0 ring, data buffer, other rings

VARIABLES
  ep0_link,
  bios,                            \* the firmware owns the controller
  step, pc, port, attempted,       \* where scan_ports, get_device and the driver are
  needs_reinit,
  mem,                             \* mem[p][o]: what became of the memory allocated for port p
  slot, slots, dcbaa,              \* slot_id of identify_device; slots[p].slot_id; the port whose context dcbaa[s] is
  commands, command_enq,           \* the command ring; command_index and command_cycle
  waiting, answer,                 \* pending_command_physical, with the command; the completion if done
  ep0, ep0_enq,                    \* EP0 rings; slots[p].ep0_index and ep0_cycle
  unpublished,                     \* history: ports whose Link TRB was left behind by a transfer that just fits
  armed, got,                      \* the transfer waited for; transfer_completion
  events,                          \* the event ring
  hslots, command_deq, ep0_deq,    \* the controller: its slots, its place in the rings
  ep0_halted                       \* an error stopped endpoint 0

queues == <<commands, command_enq, waiting, answer>>
endpoint0 == <<ep0, ep0_enq, unpublished, armed, got>>
controller == <<hslots, command_deq, ep0_deq, ep0_halted>>
vars == <<ep0_link, bios, step, pc, port, attempted, needs_reinit, mem, slot, slots, dcbaa,
          queues, endpoint0, events, controller>>

Place(i, c) == [at |-> i, cycle |-> c]
Trb(what, c) == [what |-> what, cycle |-> c]

(* the place n TRBs further in a ring with its Link TRB at index "link" *)
Ahead(link, h, n) ==
  IF h.at + n < link THEN Place(h.at + n, h.cycle) ELSE Place(h.at + n - link, 1 - h.cycle)

(* the controller, when it arrives at h, finds a TRB that is its own, perhaps past the link *)
Owned(ring, link, h) ==
  LET here == Ahead(link, h, 0) IN
  /\ h.at = link => ring[link].cycle = h.cycle
  /\ ring[here.at].cycle = here.cycle

Consumed(link, h) == LET here == Ahead(link, h, 0) IN Place(here.at + 1, here.cycle)

(* the first n TRBs from h on are all the controller's *)
Reachable(ring, link, h, n) ==
  /\ \A k \in 0 .. n - 1 : LET x == Ahead(link, h, k) IN ring[x.at].cycle = x.cycle
  /\ h.at + n >= link => ring[link].cycle = h.cycle

NewRing(link) == [i \in 0 .. link |-> IF i = link THEN Trb("link", 1) ELSE Trb("empty", 0)]

Command(type, s, p) == [type |-> type, slot |-> s, port |-> p]

(* setup_rings *)
Init ==
  /\ ep0_link \in Ep0Links /\ bios \in BOOLEAN
  /\ step = "handoff" /\ pc = "ready" /\ port = None /\ attempted = {} /\ needs_reinit = FALSE
  /\ mem = [p \in XPorts |-> [o \in Objects |-> "none"]]
  /\ slot = None /\ slots = [p \in XPorts |-> None] /\ dcbaa = [s \in Slots |-> None]
  /\ commands = NewRing(CmdLink) /\ command_enq = Place(0, 1) /\ waiting = None /\ answer = None
  /\ ep0 = [p \in XPorts |-> NewRing(ep0_link)] /\ ep0_enq = [p \in XPorts |-> Place(0, 1)]
  /\ unpublished = {} /\ armed = None /\ got = None /\ events = <<>>
  /\ hslots = [s \in Slots |-> [state |-> "off", port |-> None]]
  /\ command_deq = Place(0, 1) /\ ep0_deq = [p \in XPorts |-> Place(0, 1)]
  /\ ep0_halted = [p \in XPorts |-> FALSE]

-----------------------------------------------------------------------------
(* The two rings, from the driver's side.                                  *)

(* mutant of submit_command: the Link TRB keeps its cycle bit when the ring wraps *)
SubmitNoLink(c) ==
  LET here == command_enq IN
  /\ commands' = [commands EXCEPT ![here.at] = Trb(c, here.cycle)]
  /\ command_enq' = Ahead(CmdLink, here, 1)
  /\ waiting' = [at |-> here.at, command |-> c] /\ answer' = None /\ pc' = "command"

(* the command is published, and at the last index the Link TRB as well *)
submit_command(c) ==
  LET here == command_enq
      last == here.at + 1 = CmdLink
  IN
  /\ commands' = [i \in 0 .. CmdLink |->
       CASE i = here.at -> Trb(c, here.cycle)
         [] i = CmdLink /\ last -> Trb("link", here.cycle)
         [] OTHER -> commands[i]]
  /\ command_enq' = Ahead(CmdLink, here, 1)
  /\ waiting' = [at |-> here.at, command |-> c] /\ answer' = None /\ pc' = "command"

(* mutant of process_events: any completion answers the command in progress *)
ProcessAny ==
  LET e == Head(events) IN
  /\ answer' = IF e.of = "command" THEN e ELSE answer
  /\ got' = IF e.of = "transfer" /\ armed # None /\ got = None /\ e.slot = armed.slot
                 /\ (e.at = armed.at \/ e.code = "error")
            THEN e ELSE got

(* A completion is for the command if it carries its address; one of the transfer *)
(* if it is for its last TRB, or reports an error of its endpoint.                 *)
process_event ==
  LET e == Head(events) IN
  /\ answer' = IF e.of = "command" /\ waiting # None /\ e.at = waiting.at THEN e ELSE answer
  /\ got' = IF e.of = "transfer" /\ armed # None /\ got = None /\ e.slot = armed.slot
                 /\ (e.at = armed.at \/ e.code = "error")
            THEN e ELSE got

xhci_process_events ==
  /\ pc \in {"command", "transfer"} /\ events # <<>>
  /\ process_event
  /\ events' = Tail(events)
  /\ UNCHANGED <<ep0_link, bios, step, pc, port, attempted, needs_reinit, mem, slot, slots, dcbaa,
                 commands, command_enq, waiting, ep0, ep0_enq, unpublished, armed, controller>>

(* Where a transfer of n TRBs goes: behind the last one, or to the start of the ring *)
(* if it does not fit in front of the link.                                          *)
Wraps(p, n) == ep0_enq[p].at + n > ep0_link
First(p, n) == IF Wraps(p, n) THEN Place(0, 1 - ep0_enq[p].cycle) ELSE ep0_enq[p]

(* The TRBs "what" are published, in a wrap with no-ops up to the link and the link   *)
(* itself.  The link is not written for a transfer that just fits in front of it: on *)
(* a pass with cycle 0 it keeps the bit of the pass before, and the controller stops. *)
Publish(p, s, what) ==
  LET n == Len(what)
      f == First(p, n)
  IN
  /\ ep0' = [ep0 EXCEPT ![p] = [i \in 0 .. ep0_link |->
       CASE i \in f.at .. f.at + n - 1 -> Trb(what[i - f.at + 1], f.cycle)
         [] Wraps(p, n) /\ i \in ep0_enq[p].at .. ep0_link - 1 -> Trb("no-op", 1 - f.cycle)
         [] Wraps(p, n) /\ i = ep0_link -> Trb("link", 1 - f.cycle)
         [] OTHER -> @[i]]]
  /\ unpublished' = IF ep0'[p][ep0_link].cycle = f.cycle \/ f.at + n < ep0_link \/ Wraps(p, n)
                    THEN unpublished ELSE unpublished \cup {p}
  /\ armed' = [slot |-> s, port |-> p, at |-> f.at + n - 1, cycle |-> f.cycle]
  /\ got' = None /\ pc' = "transfer"

(* next_index and next_cycle after the transfer in progress *)
AfterTransfer == Ahead(ep0_link, Place(armed.at + 1, armed.cycle), 0)
Disarm == armed' = None /\ got' = None /\ UNCHANGED unpublished

Mark(objects, value) ==
  [mem EXCEPT ![port] = [o \in Objects |-> IF o \in objects THEN value ELSE @[o]]]

(* get_device goes on with the port; scan_ports goes on with another one *)
Go(s) == step' = s /\ pc' = "ready" /\ UNCHANGED <<port, slot>>
Leave == step' = "scan" /\ pc' = "ready" /\ port' = None /\ slot' = None

At(s) == pc = "ready" /\ step = s
Answered(s, code) == pc = "command" /\ step = s /\ answer # None /\ answer.code = code
TimedOut(s) == pc = "command" /\ step = s /\ answer = None

-----------------------------------------------------------------------------
(* Start of the controller.                                                *)

Keep == UNCHANGED <<ep0_link, bios, attempted, needs_reinit, mem, slots, dcbaa, endpoint0, events, controller>>

(* the controller is taken from the firmware, which has one second to give it up *)
xhci_take_ownership ==
  /\ At("handoff")
  /\ \/ ~bios /\ Go("halt")
     \/ bios /\ Go("off")
  /\ Keep /\ UNCHANGED queues

(* halt and reset, each waited for *)
xhci_reset ==
  /\ At("halt")
  /\ Go("scratchpad") \/ Go("off")
  /\ Keep /\ UNCHANGED queues

(* as many pages as the controller asks for; those it got before one failed stay allocated *)
allocate_scracthpad ==
  /\ At("scratchpad")
  /\ Go("init") \/ Go("off")
  /\ Keep /\ UNCHANGED queues

(* the allocation of dcbaa and the rings, or the start, may fail; then the no-op command is submitted *)
controller_init ==
  /\ At("init")
  /\ \/ Go("off") /\ UNCHANGED queues
     \/ submit_command(Command("no-op", None, None)) /\ UNCHANGED <<step, port, slot>>
  /\ Keep

no_op_done ==
  /\ \/ Answered("init", "ok") /\ Go("ports")
     \/ (Answered("init", "error") \/ TimedOut("init")) /\ Go("off")
  /\ Keep /\ UNCHANGED queues

(* the arrays of ports and slots; scan_ports is called if there are any *)
enumrate_ports ==
  /\ At("ports")
  /\ Leave \/ Go("off")
  /\ Keep /\ UNCHANGED queues

(* every port is tried once, in the order in which the devices are seen *)
scan_ports ==
  /\ At("scan")
  /\ \E p \in XPorts \ attempted :
       /\ attempted' = attempted \cup {p} /\ port' = p
       /\ step' = "reset"
  /\ UNCHANGED <<ep0_link, bios, pc, needs_reinit, mem, slot, slots, dcbaa, queues, endpoint0, events, controller>>

reset_port ==
  /\ At("reset")
  /\ Go("enable") \/ Leave
  /\ UNCHANGED <<ep0_link, bios, attempted, needs_reinit, mem, slots, dcbaa, queues, endpoint0, events, controller>>

-----------------------------------------------------------------------------
(* identify_device.                                                        *)

enable_device_slot ==
  /\ At("enable")
  /\ \/ Leave /\ UNCHANGED queues   \* no slot type for the port
     \/ submit_command(Command("enable", None, port)) /\ UNCHANGED <<step, port, slot>>
  /\ UNCHANGED <<ep0_link, bios, attempted, needs_reinit, mem, slots, dcbaa, endpoint0, events, controller>>

enable_slot_done ==
  /\ \/ Answered("enable", "ok") /\ step' = "identify" /\ pc' = "ready" /\ slot' = answer.slot /\ UNCHANGED port
     \/ (Answered("enable", "error") \/ TimedOut("enable")) /\ Leave
  /\ UNCHANGED <<ep0_link, bios, attempted, needs_reinit, mem, slots, dcbaa, queues, endpoint0, events, controller>>

(* The slot is disabled.  Nothing was given to the controller in step "drop"; the *)
(* device context and the ring of EP0 wait for the answer in step "release".      *)
disable_device_slot(s) == submit_command(Command("disable", slot, port)) /\ step' = s /\ UNCHANGED <<port, slot>>

(* no packet size for the speed, or one of the allocations failed or lies above *)
(* 4 GB; a failure of the first one forgets the device context                   *)
identify_gives_up ==
  /\ At("identify")
  /\ \/ UNCHANGED mem
     \/ mem' = Mark({"out"}, "kept")
     \/ mem' = [mem EXCEPT ![port].in = "free", ![port].out = "kept"]
     \/ mem' = Mark({"in"}, "free")
     \/ mem' = Mark({"in", "out"}, "free")
  /\ disable_device_slot("drop")
  /\ UNCHANGED <<ep0_link, bios, attempted, needs_reinit, slots, dcbaa, endpoint0, events, controller>>

address_device ==
  /\ At("identify")
  /\ mem' = Mark({"in", "out", "ring"}, "held")
  /\ dcbaa' = [dcbaa EXCEPT ![slot] = port]
  /\ submit_command(Command("address", slot, port)) /\ step' = "address"
  /\ UNCHANGED <<ep0_link, bios, port, slot, attempted, needs_reinit, slots, endpoint0, events, controller>>

(* mutant of address_timeout: the memory is freed *)
AddressTimeoutFrees ==
  /\ TimedOut("address") /\ mem' = Mark({"in", "out", "ring"}, "free") /\ Leave
  /\ UNCHANGED <<ep0_link, bios, attempted, needs_reinit, slots, dcbaa, queues, endpoint0, events, controller>>

(* everything goes to controller.cached *)
address_timeout ==
  /\ TimedOut("address") /\ mem' = Mark({"in", "out", "ring"}, "kept") /\ Leave
  /\ UNCHANGED <<ep0_link, bios, attempted, needs_reinit, slots, dcbaa, queues, endpoint0, events, controller>>

address_failed ==
  /\ Answered("address", "error") /\ mem' = Mark({"in"}, "free") /\ disable_device_slot("release")
  /\ UNCHANGED <<ep0_link, bios, attempted, needs_reinit, slots, dcbaa, endpoint0, events, controller>>

(* no buffer for the descriptor *)
no_descriptor_buffer ==
  /\ Answered("address", "ok") /\ mem' = Mark({"in"}, "free") /\ disable_device_slot("release")
  /\ UNCHANGED <<ep0_link, bios, attempted, needs_reinit, slots, dcbaa, endpoint0, events, controller>>

(* the first transfer: GET_DESCRIPTOR in the first three TRBs *)
get_descriptor ==
  /\ Answered("address", "ok") /\ mem' = Mark({"data"}, "held")
  /\ Publish(port, slot, <<"setup", "data", "status">>) /\ step' = "identified"
  /\ UNCHANGED <<ep0_link, bios, port, slot, attempted, needs_reinit, slots, dcbaa, queues, ep0_enq, events, controller>>

(* wait_transfer_event gives up at the limit, even if the event has just come *)
get_descriptor_timeout ==
  /\ pc = "transfer" /\ step = "identified"
  /\ mem' = [mem EXCEPT ![port].in = "free", ![port].out = "kept", ![port].ring = "kept", ![port].data = "kept"]
  /\ Disarm /\ Leave
  /\ UNCHANGED <<ep0_link, bios, attempted, needs_reinit, slots, dcbaa, queues, ep0, ep0_enq, events, controller>>

get_descriptor_failed ==
  /\ pc = "transfer" /\ step = "identified" /\ got # None /\ got.code = "error"
  /\ mem' = Mark({"in", "data"}, "free") /\ disable_device_slot("release") /\ Disarm
  /\ UNCHANGED <<ep0_link, bios, attempted, needs_reinit, slots, dcbaa, ep0, ep0_enq, events, controller>>

(* The slot is recorded.  A descriptor that is not valid leaves all memory behind. *)
get_descriptor_done ==
  /\ pc = "transfer" /\ step = "identified" /\ got # None /\ got.code = "ok"
  /\ \/ /\ mem' = Mark({"in", "data"}, "free") /\ slots' = [slots EXCEPT ![port] = slot]
        /\ ep0_enq' = [ep0_enq EXCEPT ![port] = AfterTransfer] /\ Go("evaluate")
     \/ mem' = Mark({"in", "out", "ring", "data"}, "kept") /\ Leave /\ UNCHANGED <<slots, ep0_enq>>
  /\ Disarm
  /\ UNCHANGED <<ep0_link, bios, attempted, needs_reinit, dcbaa, queues, ep0, events, controller>>

(* only a slot that is known to be disabled gives its memory back *)
disable_slot_done ==
  /\ pc = "command" /\ step \in {"drop", "release"}
  /\ LET disabled == answer # None /\ answer.code = "ok" IN
     IF step = "release"
     THEN /\ mem' = Mark({"out", "ring"}, IF disabled THEN "free" ELSE "kept")
          /\ dcbaa' = IF disabled THEN [dcbaa EXCEPT ![slot] = None] ELSE dcbaa
     ELSE UNCHANGED <<mem, dcbaa>>
  /\ Leave
  /\ UNCHANGED <<ep0_link, bios, attempted, needs_reinit, slots, queues, endpoint0, events, controller>>

-----------------------------------------------------------------------------
(* set_address, the packets of get_device, configure_endpoints.            *)

(* The packet size is right, or not to be had, or the controller is told. *)
evaluate_context ==
  /\ At("evaluate")
  /\ \/ Go("descriptor") /\ UNCHANGED <<mem, queues>>
     \/ Leave /\ UNCHANGED <<mem, queues>>
     \/ /\ mem' = Mark({"in"}, "held")
        /\ submit_command(Command("evaluate", slot, port)) /\ UNCHANGED <<step, port, slot>>
  /\ UNCHANGED <<ep0_link, bios, attempted, needs_reinit, slots, dcbaa, endpoint0, events, controller>>

evaluate_done ==
  /\ \/ TimedOut("evaluate") /\ mem' = Mark({"in"}, "kept") /\ needs_reinit' = TRUE /\ Leave
     \/ Answered("evaluate", "error") /\ mem' = Mark({"in"}, "free") /\ UNCHANGED needs_reinit /\ Leave
     \/ Answered("evaluate", "ok") /\ mem' = Mark({"in"}, "free") /\ UNCHANGED needs_reinit /\ Go("descriptor")
  /\ UNCHANGED <<ep0_link, bios, attempted, slots, dcbaa, queues, endpoint0, events, controller>>

(* the step of get_device after a packet *)
AfterPacket == [descriptor |-> "config", config |-> "tree", tree |-> "endpoints"]
PacketSteps == DOMAIN AfterPacket \cup {"setconf"}

(* controller.needs_reinit, or no buffer; get_device asks for a reset when SET_CONFIGURATION fails *)
packet_refused ==
  /\ pc = "ready" /\ step \in PacketSteps /\ (needs_reinit \/ step # "setconf")
  /\ needs_reinit' = (needs_reinit \/ step = "setconf")
  /\ Leave
  /\ UNCHANGED <<ep0_link, bios, attempted, mem, slots, dcbaa, queues, endpoint0, events, controller>>

usb_send_packet ==
  /\ pc = "ready" /\ step \in PacketSteps /\ ~needs_reinit /\ dcbaa[slot] = port /\ armed = None
  /\ IF step = "setconf"
     THEN Publish(port, slot, <<"setup", "status">>) /\ UNCHANGED mem
     ELSE Publish(port, slot, <<"setup", "packet", "status">>) /\ mem' = Mark({"data"}, "held")
  /\ UNCHANGED <<ep0_link, bios, step, port, slot, attempted, needs_reinit, slots, dcbaa, queues, ep0_enq, events, controller>>

(* The buffer stays: the controller may still write into it. *)
packet_failed ==
  /\ pc = "transfer" /\ step \in PacketSteps
  /\ \/ got = None /\ UNCHANGED ep0_enq
     \/ got # None /\ got.code = "error" /\ ep0_enq' = [ep0_enq EXCEPT ![port] = AfterTransfer]
  /\ needs_reinit' = TRUE
  /\ mem' = IF step = "setconf" THEN mem ELSE Mark({"data"}, "kept")
  /\ Disarm /\ Leave
  /\ UNCHANGED <<ep0_link, bios, attempted, slots, dcbaa, queues, ep0, events, controller>>

(* the data is copied and used; get_device may give up because of what it says *)
packet_done ==
  /\ pc = "transfer" /\ step \in PacketSteps /\ got # None /\ got.code = "ok"
  /\ ep0_enq' = [ep0_enq EXCEPT ![port] = AfterTransfer]
  /\ mem' = IF step = "setconf" THEN mem ELSE Mark({"data"}, "free")
  /\ \/ Leave
     \/ step # "setconf" /\ Go(AfterPacket[step])
  /\ Disarm
  /\ UNCHANGED <<ep0_link, bios, attempted, needs_reinit, slots, dcbaa, queues, ep0, events, controller>>

(* An endpoint that is not supported or a failed allocation ends the call, with all *)
(* it allocated discarded; without endpoints there is nothing to tell the controller. *)
configure_endpoints ==
  /\ At("endpoints")
  /\ \/ (Leave \/ Go("setconf")) /\ mem' \in {mem, Mark({"in"}, "free"), Mark({"in", "rings"}, "free")} /\ UNCHANGED queues
     \/ /\ mem' = Mark({"in", "rings"}, "held")
        /\ submit_command(Command("configure", slot, port)) /\ UNCHANGED <<step, port, slot>>
  /\ UNCHANGED <<ep0_link, bios, attempted, needs_reinit, slots, dcbaa, endpoint0, events, controller>>

configure_done ==
  /\ \/ TimedOut("endpoints") /\ mem' = Mark({"in", "rings"}, "kept") /\ needs_reinit' = TRUE /\ Leave
     \/ Answered("endpoints", "error") /\ mem' = Mark({"in", "rings"}, "free") /\ UNCHANGED needs_reinit /\ Leave
     \/ Answered("endpoints", "ok") /\ mem' = Mark({"in"}, "free") /\ UNCHANGED needs_reinit /\ Go("setconf")
  /\ UNCHANGED <<ep0_link, bios, attempted, slots, dcbaa, queues, endpoint0, events, controller>>

-----------------------------------------------------------------------------
(* The controller.                                                         *)

firmware ==
  /\ bios /\ bios' = FALSE
  /\ UNCHANGED <<ep0_link, step, pc, port, attempted, needs_reinit, mem, slot, slots, dcbaa, queues, endpoint0, events, controller>>

driver == <<ep0_link, bios, step, pc, port, attempted, needs_reinit, mem, slot, slots, dcbaa, queues, endpoint0>>

(* "from", the command or the port the event is about, is not in the event ring *)
Event(of, at, s, code, from) == [of |-> of, at |-> at, slot |-> s, code |-> code, from |-> from]

(* what a command does to slot s when it succeeds, where it can *)
Executed(c, s) ==
  LET h == hslots[s] IN
  CASE c.type = "enable" -> h.state = "off" /\ hslots' = [hslots EXCEPT ![s].state = "enabled"]
    [] c.type = "disable" -> h.state # "off" /\ hslots' = [hslots EXCEPT ![s] = [state |-> "off", port |-> None]]
    [] c.type = "address" -> h.state = "enabled" /\ hslots' = [hslots EXCEPT ![s] = [state |-> "addressed", port |-> dcbaa[s]]]
    [] c.type = "evaluate" -> h.state = "addressed" /\ UNCHANGED hslots
    [] c.type = "configure" -> h.state = "addressed" /\ hslots' = [hslots EXCEPT ![s].state = "configured"]
    [] OTHER -> UNCHANGED hslots

hc_command ==
  LET at == Ahead(CmdLink, command_deq, 0).at
      c == commands[at].what
  IN
  /\ step # "off" /\ Owned(commands, CmdLink, command_deq)
  /\ command_deq' = Consumed(CmdLink, command_deq)
  /\ \/ \E s \in Slots :
          /\ c.slot \in {None, s} /\ Executed(c, s)
          /\ events' = Append(events, Event("command", at, s, "ok", c))
     \/ events' = Append(events, Event("command", at, c.slot, "error", c)) /\ UNCHANGED hslots
  /\ UNCHANGED <<driver, ep0_deq, ep0_halted>>

(* The next TRB of an endpoint 0.  The status stage reports its end, a short packet *)
(* may be reported, and an error stops the endpoint where it is.                    *)
hc_transfer ==
  \E s \in Slots :
    LET p == hslots[s].port
        at == Ahead(ep0_link, ep0_deq[p], 0).at
        what == ep0[p][at].what
        code == {"error"} \cup (CASE what = "status" -> {"ok"} [] what = "packet" -> {"none", "short"} [] OTHER -> {"none"})
    IN
    /\ hslots[s].state \in {"addressed", "configured"} /\ ~ep0_halted[p]
    /\ Owned(ep0[p], ep0_link, ep0_deq[p])
    /\ \E x \in code :
         /\ events' = IF x = "none" THEN events ELSE Append(events, Event("transfer", at, s, x, p))
         /\ ep0_halted' = [ep0_halted EXCEPT ![p] = (x = "error")]
         /\ ep0_deq' = IF x = "error" THEN ep0_deq ELSE [ep0_deq EXCEPT ![p] = Consumed(ep0_link, @)]
    /\ UNCHANGED <<driver, hslots, command_deq>>

Next ==
  \/ xhci_take_ownership \/ xhci_reset \/ allocate_scracthpad \/ controller_init \/ no_op_done
  \/ enumrate_ports \/ scan_ports \/ reset_port
  \/ enable_device_slot \/ enable_slot_done \/ identify_gives_up \/ address_device
  \/ address_timeout \/ address_failed \/ no_descriptor_buffer
  \/ get_descriptor \/ get_descriptor_timeout \/ get_descriptor_failed \/ get_descriptor_done
  \/ disable_slot_done \/ evaluate_context \/ evaluate_done
  \/ packet_refused \/ usb_send_packet \/ packet_failed \/ packet_done
  \/ configure_endpoints \/ configure_done \/ xhci_process_events
  \/ firmware \/ hc_command \/ hc_transfer

Spec == Init /\ [][Next]_vars

-----------------------------------------------------------------------------
Steps == {"handoff", "halt", "scratchpad", "init", "ports", "off", "scan", "reset", "enable", "identify", "address", "identified", "drop",
          "release", "evaluate", "endpoints"} \cup PacketSteps

TypeOK ==
  /\ step \in Steps /\ pc \in {"ready", "command", "transfer"} /\ port \in XPorts \cup {None}
  /\ attempted \subseteq XPorts /\ needs_reinit \in BOOLEAN /\ bios \in BOOLEAN
  /\ mem \in [XPorts -> [Objects -> {"none", "held", "free", "kept"}]]
  /\ slot \in Slots \cup {None} /\ slots \in [XPorts -> Slots \cup {None}] /\ dcbaa \in [Slots -> XPorts \cup {None}]
  /\ command_enq.at \in 0 .. CmdLink - 1 /\ command_deq.at \in 0 .. CmdLink
  /\ \A p \in XPorts : ep0_enq[p].at \in 0 .. ep0_link - 1 /\ ep0_deq[p].at \in 0 .. ep0_link

(* the commands the controller can still fetch *)
PendingCommands ==
  {commands[Ahead(CmdLink, command_deq, n).at].what :
     n \in {k \in 0 .. CmdLink - 1 : Reachable(commands, CmdLink, command_deq, k + 1)}}

PendingTrbs(p) ==
  {ep0[p][Ahead(ep0_link, ep0_deq[p], n).at].what :
     n \in {k \in 0 .. ep0_link - 1 : Reachable(ep0[p], ep0_link, ep0_deq[p], k + 1)}}

(* the memory the controller uses or may come to use, and of which port *)
InUse ==
  LET command(c) ==
        CASE c.type = "address" -> {"in", "out", "ring"}
          [] c.type = "evaluate" -> {"in", "out"}
          [] c.type = "configure" -> {"in", "out", "rings"}
          [] OTHER -> {}
      context(h) ==
        CASE h.state = "addressed" -> {"out", "ring"}
          [] h.state = "configured" -> {"out", "ring", "rings"}
          [] OTHER -> {}
      Addressed == {p \in XPorts : \E s \in Slots : hslots[s].port = p}
  IN
  (UNION {{<<c.port, o>> : o \in command(c)} : c \in PendingCommands})
    \cup (UNION {{<<hslots[s].port, o>> : o \in context(hslots[s])} : s \in Slots})
    \cup {<<p, "data">> : p \in {q \in Addressed : ~ep0_halted[q] /\ PendingTrbs(q) \cap {"data", "packet"} # {}}}

(* No memory is freed that the controller may still read or write: contexts and *)
(* rings of a slot that is not known to be disabled, and what commands and       *)
(* transfers that timed out refer to (identify_device, usb_send_packet,          *)
(* configure_endpoints).                                                         *)
NoUseAfterFree == \A x \in InUse : mem[x[1]][x[2]] \in {"held", "kept"}

(* n TRBs from the controller's place is where the driver puts the next, all of them *)
(* are the controller's and the one after them is not                                *)
InStep(ring, link, deq, enq) ==
  \E n \in 0 .. link :
    Ahead(link, deq, n) = enq /\ Reachable(ring, link, deq, n) /\ ring[enq.at].cycle # enq.cycle

(* Driver and controller agree on what is in the rings: the controller comes to every *)
(* TRB that was published, through the Link TRB as well, and to no old one, on every   *)
(* pass (submit_command, usb_send_packet) - but for the ports in unpublished.          *)
RingsInStep ==
  /\ InStep(commands, CmdLink, command_deq, command_enq)
  /\ \A p \in XPorts :
       (slots[p] # None /\ ~needs_reinit /\ ~ep0_halted[p] /\ hslots[slots[p]].port = p) =>
          \/ p \in unpublished
          \/ InStep(ep0[p], ep0_link, ep0_deq[p], IF armed # None /\ armed.port = p THEN AfterTransfer ELSE ep0_enq[p])

(* The completion the driver takes is the one of the command or the transfer it waits *)
(* for, though those given up earlier may end at any time (xhci_process_events).       *)
AnswersMatch ==
  /\ answer # None => answer.from = waiting.command
  /\ got # None => got.from = armed.port /\ got.code # "short"
=============================================================================
