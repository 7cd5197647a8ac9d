------------------------------- MODULE UsbCore -------------------------------
(***************************************************************************)
(* What the EHCI, UHCI and OHCI drivers have in common: get_device and     *)
(* scan_ports of usb.cpp, which take one port after another through the    *)
(* steps of enumeration, the USB addresses, and the devices on the ports.  *)
(* A driver moves the DMA buffer of a transfer in and out of its schedule; *)
(* the buffer holds the transfer's queue head, its descriptors and data.   *)
(***************************************************************************)
EXTENDS Integers, FiniteSets

CONSTANTS
  Bufs,         \* buffers that the DMA pool can hand out
  Nil,          \* no buffer; a link that ends a list
  NPorts,       \* ports with a device when enumrate_ports reads them
  MaxAddress,   \* the last USB address, 127
  MaxEndpoints  \* endpoints of a device

ASSUME UsbAssumption ==
  /\ Nil \notin Bufs
  /\ NPorts \in Nat \ {0} /\ MaxAddress \in Nat \ {0} /\ MaxEndpoints \in Nat

Ports == 1 .. NPorts

(* what get_device does on a port; all but the first and the last are transfers *)
Steps == <<"reset", "identify", "address", "descriptor", "config", "tree", "setconf", "endpoints">>

VARIABLES
  mem,         \* mem[b]: who has the buffer
  qh,          \* qh[b]: the transfer in b and how far the controller is with it
  dev,         \* dev[p]: the device at port p and the address it answers to
  pc,          \* where the driver is in a transfer
  step, port,  \* where get_device and scan_ports are
  found,       \* ports with ports[i].device set
  cur,         \* the buffer of the transfer in progress
  result,      \* how the wait for the transfer ended
  next_usb_address, address,  \* next to hand out; the one of this device
  mishap       \* history: what can give two devices one address (Mishap, AddressFails)

scan == <<step, port, found>>
addresses == <<next_usb_address, address>>
coreVars == <<mem, qh, dev, pc, scan, cur, result, addresses, mishap>>

(* a transfer of n stages to the device at address "to"; value: the address *)
(* that SET_ADDRESS gives it                                                *)
Transfer(n, to, value) == [n |-> n, to |-> to, value |-> value, done |-> 0, halted |-> FALSE, flagged |-> FALSE]

Blank == Transfer(1, 0, 0)

Finished(q) == q.halted \/ q.done = q.n

(* Two enabled ports have devices at address 0, which both hear what is sent *)
(* to the device being enumerated: a port is not disabled when its device    *)
(* fails.                                                                    *)
Mishap(d) ==
  \E p, q \in Ports : p # q /\ d[p].on /\ d[q].on /\ d[p].addr = 0 /\ d[q].addr = 0

Devices(d) == dev' = d /\ mishap' = (mishap \/ Mishap(d))
Listeners(a) == {p \in Ports : dev[p].on /\ dev[p].addr = a}

(* next_usb_address is one variable for all controllers of a class: those    *)
(* scanned earlier may have used up any number of addresses.                 *)
CoreInit ==
  /\ mem = [b \in Bufs |-> "free"] /\ qh = [b \in Bufs |-> Blank]
  /\ dev = [p \in Ports |-> [here |-> TRUE, on |-> FALSE, addr |-> 0]]
  /\ pc = "ready" /\ step = "reset" /\ port = 1 /\ found = {} /\ cur = Nil /\ result = "success"
  /\ next_usb_address \in 1 .. MaxAddress + 1 /\ address = 0 /\ mishap = FALSE

-----------------------------------------------------------------------------
(* The driver returns to get_device, which goes on with the port or with the *)
(* next one; what the call kept in local variables is gone.                  *)
Return == pc' = "ready" /\ cur' = Nil /\ result' = "success"
NextPort == port' = port + 1 /\ step' = "reset" /\ address' = 0
GiveUp == Return /\ NextPort /\ UNCHANGED found

Proceed ==
  /\ Return
  /\ \E i \in DOMAIN Steps : Steps[i] = step /\ step' = Steps[i + 1]
  /\ UNCHANGED <<port, found, address>>

(* the last step: the device becomes ports[i].device, or configure_endpoints failed *)
PortDone == Return /\ NextPort /\ found' \in {found, found \cup {port}}

AtStep(s) == pc = "ready" /\ port <= NPorts /\ step = s
AtTransfer == pc = "ready" /\ port <= NPorts /\ step \notin {"reset", "endpoints"}

(* the port is enabled and its device answers to address 0 *)
ResetOk == dev[port].here /\ Devices([dev EXCEPT ![port].on = TRUE, ![port].addr = 0])

(* the port is as it was after an early return and disabled after a later one *)
ResetLeaves == Devices(dev) \/ Devices([dev EXCEPT ![port].on = FALSE])

(* a reset that the driver stopped waiting for still enables the port *)
ResetFails == ResetLeaves \/ ResetOk

allocate_usb_address ==
  /\ next_usb_address <= MaxAddress
  /\ address' = next_usb_address /\ next_usb_address' = next_usb_address + 1

(* a free buffer is taken; SET_ADDRESS takes an address with it *)
Take(b) ==
  /\ AtTransfer /\ mem[b] = "free"
  /\ IF step = "address" THEN allocate_usb_address ELSE UNCHANGED addresses
  /\ mem' = [mem EXCEPT ![b] = "held"] /\ cur' = b

NoAddressLeft ==
  /\ AtStep("address") /\ next_usb_address > MaxAddress
  /\ GiveUp
  /\ UNCHANGED <<mem, qh, dev, next_usb_address, mishap>>

(* what was in a buffer is gone with it *)
Free(b) == mem' = [mem EXCEPT ![b] = "free"] /\ qh' = [qh EXCEPT ![b] = Blank]

(***************************************************************************)
(* What get_device and set_address do with a transfer that is over and     *)
(* whose buffer is out of the schedule.  SET_ADDRESS carried out although  *)
(* the driver saw it fail is a mishap too: the address goes back, and a    *)
(* device has it.                                                          *)
(***************************************************************************)
AddressFails ==
  /\ next_usb_address' = address /\ GiveUp
  /\ mishap' = (mishap \/ qh[cur].done = qh[cur].n)

address_done ==
  /\ step = "address"
  /\ IF result = "success" THEN Proceed /\ UNCHANGED <<next_usb_address, mishap>> ELSE AddressFails
  /\ UNCHANGED dev

(* mutant of descriptor_done: the address goes back whatever reset_port says *)
ReturnAddress(Fails) ==
  /\ step = "descriptor"
  /\ IF result = "success"
     THEN (Proceed \/ GiveUp) /\ UNCHANGED <<next_usb_address, dev, mishap>>
     ELSE /\ GiveUp /\ next_usb_address' = address /\ (ResetOk \/ Fails)

descriptor_done(Fails) ==
  /\ step = "descriptor"
  /\ IF result = "success"
     THEN (Proceed \/ GiveUp) /\ UNCHANGED <<next_usb_address, dev, mishap>>
     ELSE /\ GiveUp
          /\ \/ ResetOk /\ next_usb_address' = address
             \/ Fails /\ UNCHANGED next_usb_address

(* what the device answered can be refused, and kmalloc can fail *)
identify_done ==
  /\ step = "identify"
  /\ (result = "success" /\ Proceed) \/ GiveUp
  /\ UNCHANGED <<dev, next_usb_address, mishap>>

packet_done ==
  /\ step \in {"config", "tree", "setconf"}
  /\ \/ result = "success" /\ Proceed
     \/ (result # "success" \/ step # "setconf") /\ GiveUp
  /\ UNCHANGED <<dev, next_usb_address, mishap>>

-----------------------------------------------------------------------------
(* A stage of the transfer in b is carried out; after the last one of       *)
(* SET_ADDRESS devices that heard it take the address.                      *)
StageDone(b, flag) ==
  /\ ~Finished(qh[b]) /\ Listeners(qh[b].to) # {}
  /\ qh' = [qh EXCEPT ![b].done = @ + 1, ![b].flagged = @ \/ flag]
  /\ IF qh[b].value # 0 /\ qh[b].done + 1 = qh[b].n
     THEN \E L \in (SUBSET Listeners(0)) \ {{}} :
            Devices([p \in Ports |-> IF p \in L THEN [dev[p] EXCEPT !.addr = qh[b].value] ELSE dev[p]])
     ELSE UNCHANGED <<dev, mishap>>

StageFails(b) == ~Finished(qh[b]) /\ qh' = [qh EXCEPT ![b].halted = TRUE] /\ UNCHANGED <<dev, mishap>>

(* a device is pulled out, or another one plugged in *)
connect_change(p) ==
  /\ Devices([dev EXCEPT ![p] = [here |-> ~dev[p].here, on |-> FALSE, addr |-> 0]])
  /\ UNCHANGED <<mem, qh, pc, scan, cur, result, addresses>>

-----------------------------------------------------------------------------
CoreTypeOK ==
  /\ mem \in [Bufs -> {"free", "held", "cached", "endpoint", "leaked", "anchor"}]
  /\ qh \in [Bufs -> [n : 1 .. 4, to : 0 .. MaxAddress, value : 0 .. MaxAddress,
                      done : 0 .. 4, halted : BOOLEAN, flagged : BOOLEAN]]
  /\ dev \in [Ports -> [here : BOOLEAN, on : BOOLEAN, addr : 0 .. MaxAddress]]
  /\ step \in {Steps[i] : i \in DOMAIN Steps} /\ port \in 1 .. NPorts + 1
  /\ cur \in Bufs \cup {Nil} /\ result \in {"success", "error", "timeout"}
  /\ next_usb_address \in 1 .. MaxAddress + 1 /\ address \in 0 .. MaxAddress
  /\ found \subseteq Ports /\ mishap \in BOOLEAN

(* Two devices on enabled ports answer to one address only after a mishap: *)
(* two devices were at address 0 at once, or SET_ADDRESS was carried out   *)
(* while the driver took it for failed and handed the address out again.   *)
(* Otherwise an address goes back into use only when its device left it.   *)
AddressesDistinct ==
  ~mishap => \A p, q \in Ports : p # q /\ dev[p].on /\ dev[q].on => dev[p].addr # dev[q].addr
=============================================================================
