------------------------------ MODULE UhciProofs ------------------------------
(***************************************************************************)
(* For any number of buffers, ports and endpoints: until the first buffer  *)
(* is freed while the frame list points to it, and in that state too,      *)
(* nothing the UHCI controller can come to was freed otherwise, and        *)
(* between two calls the schedule holds only what calls that gave up left. *)
(***************************************************************************)
EXTENDS Uhci, UsbCoreProofs

ControlTransfer == {"halt", "start", "wait", "stop", "restart"}
Installed == {"start", "wait", "stop"}
BulkTransfer == {"link_halt", "link_start", "unlink_halt", "unlink_start"}
Linked == {"link_start", "unlink_halt"}

(* the list after the anchor holds endpoints of calls that gave up and the one *)
(* of the call in progress                                                     *)
InList == {anchor, Nil} \cup left \cup (IF pc \in Linked THEN {cur} ELSE {})

(* what the proof needs of a transfer *)
QhOK(q) ==
  /\ {"n", "done", "halted", "flagged"} \subseteq DOMAIN q
  /\ q.n \in 1 .. 3 /\ q.done \in 0 .. q.n /\ q.halted \in BOOLEAN

Types ==
  /\ mem \in [Bufs -> {"free", "held", "endpoint", "anchor"}]
  /\ DOMAIN qh = Bufs /\ \A b \in Bufs : QhOK(qh[b])
  /\ link \in [Bufs -> Bufs \cup {Nil}]
  /\ pc \in {"ready", "anchor_halt", "anchor_start"} \cup ControlTransfer \cup BulkTransfer
  /\ pc \in ControlTransfer => cur \in Bufs /\ mem[cur] = "held"
  /\ pc \in BulkTransfer => cur \in Bufs /\ mem[cur] = "endpoint" /\ anchor # Nil
  /\ left \subseteq Bufs /\ \A b \in left : mem[b] = "endpoint"

(* until the anchor is in the frame list nothing is *)
AnchorOK ==
  /\ anchor # Nil => anchor \in Bufs /\ mem[anchor] = "anchor"
  /\ anchor = Nil => left = {}
  /\ pc = "anchor_halt" => anchor # Nil /\ frame_list = Nil /\ backup = Nil /\ left = {} /\ hc = Nil

(* the list is closed; the endpoint of the call in progress, unless an earlier *)
(* call left it there, is the first, and no other queue head points to it      *)
ListOK ==
  /\ pc # "anchor_halt" => Closed(InList)
  /\ \A b \in Bufs : mem[b] = "endpoint" /\ b \notin InList => link[b] = Nil
  /\ pc \in Linked /\ cur \notin left =>
       link[anchor] = cur /\ \A b \in InList \ {Nil, anchor} : link[b] # cur

(* the frame list points to the transfer from install to restore, and to the *)
(* anchor otherwise; the controller is somewhere in that list                *)
FrameOK ==
  /\ backup \in {Nil, anchor}
  /\ pc \in Installed => frame_list = cur /\ hc \in {cur, Nil}
  /\ pc \notin Installed => frame_list \in {Nil, anchor} /\ hc \in InList
  /\ halted => hc = Nil
  /\ pc \in Installed \cup {"halt"} => link[cur] = Nil

(* the toggles of host and device differ only during a call, when the device *)
(* has carried out the transfer and the driver has not looked                *)
ToggleOK ==
  \A b \in Bufs \ left : mem[b] = "endpoint" =>
    /\ qh[b].n = 1
    /\ IF b = cur /\ pc \in BulkTransfer
       THEN \/ qh[b].done = 0 /\ (b \in toggled <=> b \in received)
            \/ qh[b].done = 1 /\ (b \in toggled <=> b \notin received)
       ELSE b \in toggled <=> b \in received

Strong == Types /\ AnchorOK /\ ListOK /\ FrameOK /\ ToggleOK

IInv == (late = {} /\ Strong) \/ (late # {} /\ NoUseAfterFree /\ BetweenCalls)

-----------------------------------------------------------------------------
(* what can be reached from x lies in every closed set around x *)
LEMMA ReachWithin ==
  ASSUME NEW C \in SUBSET (Bufs \cup {Nil}), Closed(C), NEW x \in C
  PROVE  Reach(x) \subseteq C
  BY DEF Reach

(* the list consists of buffers that were not freed *)
LEMMA ListHeld ==
  ASSUME Strong
  PROVE  /\ InList \subseteq Bufs \cup {Nil}
         /\ \A b \in Bufs : b \in InList => mem[b] \in {"anchor", "endpoint"}
  BY UsbAssumption DEF Strong, Types, AnchorOK, InList, BulkTransfer, Linked

(* what the controller can come to *)
LEMMA ReachHeld ==
  ASSUME Strong
  PROVE  /\ pc \in Installed => {hc} \cup Reach(frame_list) \subseteq {cur, Nil}
         /\ pc \notin Installed => {hc} \cup Reach(frame_list) \subseteq InList
  <1>1. CASE pc \in Installed
    <2>1. cur \in Bufs /\ link[cur] = Nil /\ frame_list = cur /\ hc \in {cur, Nil}
      BY <1>1 DEF Strong, Types, FrameOK, Installed, ControlTransfer
    <2>2. {cur, Nil} \in SUBSET (Bufs \cup {Nil}) /\ Closed({cur, Nil}) BY <2>1 DEF Closed
    <2> QED BY <1>1, <2>1, <2>2, ReachWithin
  <1>2. CASE pc = "anchor_halt"
    <2>1. Closed({Nil}) BY DEF Closed
    <2>2. frame_list = Nil /\ hc = Nil BY <1>2 DEF Strong, AnchorOK
    <2>3. Reach(Nil) \subseteq {Nil} BY <2>1, ReachWithin
    <2>4. Nil \in InList BY DEF InList
    <2> QED BY <1>2, <2>2, <2>3, <2>4 DEF Installed
  <1>3. CASE pc \notin Installed /\ pc # "anchor_halt"
    <2>1. InList \in SUBSET (Bufs \cup {Nil}) /\ Closed(InList) BY <1>3, ListHeld DEF Strong, ListOK
    <2>2. frame_list \in InList /\ hc \in InList BY <1>3 DEF Strong, FrameOK, InList
    <2> QED BY <1>3, <2>1, <2>2, ReachWithin
  <1> QED BY <1>1, <1>2, <1>3 DEF Installed

(* the properties follow *)
LEMMA StrongEnough == IInv => NoUseAfterFree /\ BetweenCalls
  <1> SUFFICES ASSUME late = {}, Strong PROVE NoUseAfterFree /\ BetweenCalls BY DEF IInv
  <1>1. NoUseAfterFree
    <2>1. CASE pc \in Installed
      <3>1. mem[cur] = "held" BY <2>1 DEF Strong, Types, Installed, ControlTransfer
      <3> QED BY <2>1, <3>1, ReachHeld, UsbAssumption DEF NoUseAfterFree
    <2>2. CASE pc \notin Installed
      BY <2>2, ReachHeld, ListHeld DEF NoUseAfterFree
    <2> QED BY <2>1, <2>2
  <1>2. BetweenCalls
    <2> SUFFICES ASSUME pc = "ready" PROVE BetweenCalls BY DEF BetweenCalls
    <2>1. InList = {anchor, Nil} \cup left /\ pc \notin Installed BY DEF InList, Linked, Installed
    <2>2. ({hc} \cup Reach(frame_list)) \ {Nil, anchor} \subseteq left BY <2>1, ReachHeld
    <2>3. \A b \in Bufs \ left : mem[b] = "endpoint" => (b \in toggled <=> b \in received)
      BY DEF Strong, ToggleOK, BulkTransfer
    <2> QED BY <2>2, <2>3 DEF BetweenCalls
  <1> QED BY <1>1, <1>2

(* all requests are transfers of at most three stages *)
LEMMA RequestOK ==
  ASSUME NEW s, NEW a
  PROVE  QhOK(Request(s, a)) /\ QhOK(Blank) /\ QhOK(Transfer(1, a, 0)) /\ Transfer(1, a, 0).n = 1
  BY DEF Request, IdentifyQh, SetAddressQh, DescriptorQh, PacketQh, Transfer, QhOK, Blank

(* the schedule is empty at first *)
LEMMA InitIInv == Init => IInv
  <1> SUFFICES ASSUME Init PROVE Strong BY DEF Init, IInv
  <1>1. InList = {Nil} BY DEF Init, CoreInit, InList, Linked
  <1>2. Types BY RequestOK DEF Init, CoreInit, Types, ControlTransfer, BulkTransfer
  <1>3. AnchorOK BY DEF Init, CoreInit, AnchorOK
  <1>4. ListOK /\ FrameOK BY <1>1 DEF Init, CoreInit, ListOK, FrameOK, Closed, Linked, Installed
  <1>5. ToggleOK BY DEF Init, CoreInit, ToggleOK
  <1> QED BY <1>2, <1>3, <1>4, <1>5 DEF Strong

-----------------------------------------------------------------------------
(* what the lists, the frame list and the toggles depend on *)
lasting == <<mem, link, anchor, backup, toggled, received, left>>

(* a step that leaves alone what the invariant is about *)
LEMMA Elsewhere ==
  ASSUME Strong, UNCHANGED <<mem, qh, pc, cur, bus>>
  PROVE  Strong'
  <1>1. UNCHANGED lasting /\ UNCHANGED <<frame_list, hc, halted>>
    BY DEF bus, lists, toggles, history, lasting
  <1>2. InList' = InList /\ Closed(InList)' = Closed(InList)
    BY <1>1 DEF InList, Closed, lasting
  <1>3. Types' /\ AnchorOK' BY <1>1 DEF Strong, Types, AnchorOK, lasting
  <1>4. ListOK' /\ FrameOK' BY <1>1, <1>2 DEF Strong, ListOK, FrameOK, lasting
  <1>5. ToggleOK' BY <1>1 DEF Strong, ToggleOK, lasting
  <1> QED BY <1>3, <1>4, <1>5 DEF Strong

(* between two calls the enumeration moves on without a transfer *)
LEMMA ReadyStep ==
  ASSUME Strong, pc = "ready", pc' = "ready", UNCHANGED <<mem, qh, bus>>
  PROVE  Strong'
  <1>1. UNCHANGED lasting /\ UNCHANGED <<frame_list, hc, halted>>
    BY DEF bus, lists, toggles, history, lasting
  <1>2. InList' = InList /\ Closed(InList)' = Closed(InList)
    BY <1>1 DEF InList, Closed, lasting, Linked
  <1> USE DEF ControlTransfer, BulkTransfer, Installed, Linked, lasting
  <1>3. Types' /\ AnchorOK' BY <1>1 DEF Strong, Types, AnchorOK
  <1>4. ListOK' /\ FrameOK' BY <1>1, <1>2 DEF Strong, ListOK, FrameOK
  <1>5. ToggleOK' BY <1>1 DEF Strong, ToggleOK
  <1> QED BY <1>3, <1>4, <1>5 DEF Strong

(* submit: a free buffer is in no list *)
LEMMA SubmitStep ==
  ASSUME Strong, NEW b \in Bufs, submit(b) PROVE Strong'
  <1> USE DEF ControlTransfer, BulkTransfer, Installed, Linked
  <1>1. /\ pc = "ready" /\ pc' = "halt" /\ cur' = b /\ mem[b] = "free" /\ mem' = [mem EXCEPT ![b] = "held"]
        /\ qh' = [qh EXCEPT ![b] = Request(step, address')] /\ link' = [link EXCEPT ![b] = Nil]
        /\ UNCHANGED <<halted, frame_list, backup, anchor, hc, toggled, received, left>>
    BY DEF submit, Take, AtTransfer, toggles, history
  <1>2. b \notin InList /\ InList' = InList
    BY <1>1, ListHeld DEF InList
  <1>3. Types' BY <1>1, RequestOK DEF Strong, Types
  <1>4. AnchorOK' BY <1>1 DEF Strong, Types, AnchorOK
  <1>5. Closed(InList)'
    BY <1>1, <1>2, ListHeld DEF Strong, Types, ListOK, Closed
  <1>6. ListOK' BY <1>1, <1>2, <1>5 DEF Strong, Types, ListOK
  <1>7. FrameOK' BY <1>1, <1>2 DEF Strong, Types, FrameOK
  <1>8. ToggleOK' BY <1>1 DEF Strong, Types, ToggleOK
  <1> QED BY <1>3, <1>4, <1>6, <1>7, <1>8 DEF Strong

(* install and restore: the frame list changes while the controller is halted *)
LEMMA FrameListStep == Strong /\ (install \/ restore) => Strong'
  <1> SUFFICES ASSUME Strong, install \/ restore PROVE Strong' OBVIOUS
  <1> USE DEF ControlTransfer, BulkTransfer, Installed, Linked
  <1>1. /\ UNCHANGED <<mem, qh, link, anchor, toggled, received, left, cur, halted, hc>>
        /\ halted /\ hc = Nil /\ backup' \in {Nil, anchor}
        /\ \/ pc = "halt" /\ pc' = "start" /\ frame_list' = cur
           \/ pc = "stop" /\ pc' = "restart" /\ frame_list' = backup
    BY DEF install, restore, Halted, Strong, FrameOK, toggles, history, lists
  <1>2. InList' = InList /\ Nil \in InList /\ Closed(InList)' = Closed(InList)
    BY <1>1 DEF InList, Closed
  <1>3. Types' /\ AnchorOK' BY <1>1 DEF Strong, Types, AnchorOK
  <1>4. ListOK' BY <1>1, <1>2 DEF Strong, ListOK
  <1>5. FrameOK' BY <1>1, <1>2 DEF Strong, FrameOK
  <1>6. ToggleOK' BY <1>1 DEF Strong, Types, ToggleOK
  <1> QED BY <1>3, <1>4, <1>5, <1>6 DEF Strong

(* the waits of a control transfer *)
LEMMA WaitStep == Strong /\ (started \/ wait_for_control_transfer \/ resume_status) => Strong'
  <1> SUFFICES ASSUME Strong, started \/ wait_for_control_transfer \/ resume_status PROVE Strong' OBVIOUS
  <1> USE DEF ControlTransfer, BulkTransfer, Installed, Linked
  <1>1. /\ UNCHANGED <<mem, link, anchor, backup, toggled, received, left, cur, halted, hc, frame_list>>
        /\ pc \in Installed /\ pc' \in Installed
    BY DEF started, wait_for_control_transfer, resume_status, Running, bus, toggles, history, lists
  <1>c. cur \in Bufs /\ mem[cur] = "held" BY <1>1 DEF Strong, Types
  <1>q. DOMAIN qh' = Bufs /\ (\A b \in Bufs : QhOK(qh'[b])) /\ \A b \in Bufs \ {cur} : qh'[b] = qh[b]
    <2>1. CASE UNCHANGED qh BY <2>1 DEF Strong, Types
    <2>2. CASE resume_status
      <3>1. qh' = [qh EXCEPT ![cur].flagged = FALSE] BY <2>2 DEF resume_status
      <3> QED BY <1>c, <3>1 DEF Strong, Types, QhOK
    <2> QED BY <2>1, <2>2 DEF started, wait_for_control_transfer
  <1>2. InList' = InList /\ Closed(InList)' = Closed(InList) BY <1>1 DEF InList, Closed
  <1>3. Types' /\ AnchorOK' BY <1>1, <1>q DEF Strong, Types, AnchorOK
  <1>4. ListOK' /\ FrameOK' BY <1>1, <1>2 DEF Strong, ListOK, FrameOK
  <1>5. ToggleOK' BY <1>1, <1>c, <1>q DEF Strong, ToggleOK
  <1> QED BY <1>3, <1>4, <1>5 DEF Strong

(* free_dma outside the schedule: the controller did not halt before the transfer, *)
(* or the old frame list is back                                                   *)
LEMMA FreeStep == Strong /\ (install_timeout \/ restart_failed \/ transfer_done) => Strong'
  <1> SUFFICES ASSUME Strong, install_timeout \/ restart_failed \/ transfer_done PROVE Strong' OBVIOUS
  <1> USE DEF ControlTransfer, BulkTransfer, Installed, Linked
  <1>1. /\ pc \in {"halt", "restart"} /\ mem' = [mem EXCEPT ![cur] = "free"] /\ qh' = [qh EXCEPT ![cur] = Blank]
        /\ UNCHANGED <<link, anchor, toggled, received, left, halted, hc, frame_list>>
        /\ backup' \in {Nil, backup}
    BY DEF install_timeout, restart_failed, transfer_done, NotHalted, NotRunning, Free, bus, toggles, history, lists
  <1>2. pc' = "ready"
    BY DEF install_timeout, restart_failed, transfer_done, identify_ends, set_address_ends, get_descriptor_ends,
           packet_ends, identify_done, address_done, descriptor_done, packet_done, AddressFails, Proceed, GiveUp, Return
  <1>3. cur \in Bufs /\ mem[cur] = "held" BY <1>1 DEF Strong, Types
  <1>4. InList' = InList /\ Closed(InList)' = Closed(InList) BY <1>1, <1>2 DEF InList, Closed
  <1>5. Types' /\ AnchorOK' BY <1>1, <1>2, <1>3, RequestOK DEF Strong, Types, AnchorOK
  <1>6. ListOK' BY <1>1, <1>2, <1>3, <1>4 DEF Strong, Types, ListOK
  <1>7. FrameOK' BY <1>1, <1>2, <1>4 DEF Strong, FrameOK
  <1>8. ToggleOK' BY <1>1, <1>2, <1>3 DEF Strong, Types, ToggleOK
  <1> QED BY <1>5, <1>6, <1>7, <1>8 DEF Strong

(* free_dma while the frame list points to the buffer: it is the only one there *)
LEMMA LateStep ==
  Strong /\ late = {} /\ (start_timeout \/ stop_timeout) => late' # {} /\ NoUseAfterFree' /\ BetweenCalls'
  <1> SUFFICES ASSUME Strong, late = {}, start_timeout \/ stop_timeout
               PROVE  late' # {} /\ NoUseAfterFree' /\ BetweenCalls'
    OBVIOUS
  <1>1. /\ pc \in Installed /\ late' = {cur} /\ mem' = [mem EXCEPT ![cur] = "free"]
        /\ UNCHANGED <<link, anchor, toggled, received, left, hc, frame_list>>
    BY DEF start_timeout, stop_timeout, NotRunning, NotHalted, FreeLate, lists, toggles, Installed
  <1>2. cur \in Bufs /\ mem[cur] = "held" BY <1>1 DEF Strong, Types, Installed, ControlTransfer
  <1>3. {hc} \cup Reach(frame_list) \subseteq {cur, Nil} BY <1>1, ReachHeld
  <1>4. ({hc} \cup Reach(frame_list))' = {hc} \cup Reach(frame_list) BY <1>1 DEF Reach, Closed
  <1>5. NoUseAfterFree'
    BY <1>1, <1>3, <1>4, UsbAssumption DEF NoUseAfterFree
  <1>6. \A b \in Bufs \ left : mem[b] = "endpoint" => (b \in toggled <=> b \in received)
    BY <1>1 DEF Strong, ToggleOK, Installed, BulkTransfer
  <1>7. \A b \in Bufs \ {cur} : mem'[b] = mem[b] BY <1>1, <1>2 DEF Strong, Types
  <1>8. BetweenCalls'
    BY <1>1, <1>3, <1>4, <1>6, <1>7 DEF BetweenCalls
  <1> QED BY <1>1, <1>5, <1>8

-----------------------------------------------------------------------------
(* configure_endpoint: the endpoint and the anchor come from free buffers; the *)
(* anchor is the first thing there is to be in the frame list                  *)
LEMMA EndpointStep ==
  ASSUME Strong, NEW b \in Bufs, configure_endpoint(b) PROVE Strong'
  <1> USE DEF ControlTransfer, BulkTransfer, Installed, Linked
  <1>1. /\ pc = "ready" /\ mem[b] = "free" /\ link' = [link EXCEPT ![b] = Nil]
        /\ qh' = [qh EXCEPT ![b] = Transfer(1, address, 0)]
        /\ toggled' = toggled \ {b} /\ received' = received \ {b}
        /\ UNCHANGED <<cur, halted, frame_list, backup, hc, left>>
    BY DEF configure_endpoint, AtStep, history
  <1>2. b \notin InList BY <1>1, ListHeld
  <1>3. QhOK(qh'[b]) /\ qh'[b].n = 1 /\ DOMAIN qh' = Bufs /\ \A c \in Bufs \ {b} : qh'[c] = qh[c]
    BY <1>1, RequestOK DEF Strong, Types
  <1>4. CASE mem' = [mem EXCEPT ![b] = "endpoint"] /\ UNCHANGED <<pc, anchor>>
    <2>1. InList' = InList BY <1>1, <1>4 DEF InList
    <2>2. Types' BY <1>1, <1>3, <1>4 DEF Strong, Types
    <2>3. AnchorOK' BY <1>1, <1>4 DEF Strong, Types, AnchorOK
    <2>4. Closed(InList)' BY <1>1, <1>2, <2>1, ListHeld DEF Strong, Types, ListOK, Closed
    <2>5. ListOK' BY <1>1, <1>2, <1>4, <2>1, <2>4 DEF Strong, Types, ListOK
    <2>6. FrameOK' BY <1>1, <1>4, <2>1 DEF Strong, FrameOK
    <2>7. ToggleOK' BY <1>1, <1>3, <1>4 DEF Strong, Types, ToggleOK
    <2> QED BY <2>2, <2>3, <2>5, <2>6, <2>7 DEF Strong
  <1>5. ASSUME anchor = Nil, pc' = "anchor_halt", NEW a \in Bufs \ {b}, mem[a] = "free", anchor' = a,
               mem' = [mem EXCEPT ![b] = "endpoint", ![a] = "anchor"]
        PROVE  Strong'
    <2>1. left = {} /\ InList = {Nil} /\ InList' = {a, Nil} BY <1>1, <1>5 DEF Strong, AnchorOK, InList
    <2>2. hc = Nil /\ frame_list = Nil /\ backup = Nil BY <1>1, <1>5, <2>1 DEF Strong, FrameOK
    <2>3. mem'[a] = "anchor" /\ mem'[b] = "endpoint" /\ \A c \in Bufs \ {a, b} : mem'[c] = mem[c]
      BY <1>5 DEF Strong, Types
    <2>4. Types' BY <1>1, <1>3, <1>5, <2>1 DEF Strong, Types
    <2>5. AnchorOK' BY <1>1, <1>5, <2>1, <2>2, <2>3, UsbAssumption DEF AnchorOK
    <2>6. ListOK' BY <1>1, <1>5, <2>1, <2>3 DEF Strong, Types, ListOK
    <2>7. FrameOK' BY <1>1, <1>5, <2>1, <2>2 DEF FrameOK
    <2>8. ToggleOK' BY <1>1, <1>3, <1>5, <2>3 DEF Strong, ToggleOK
    <2> QED BY <2>4, <2>5, <2>6, <2>7, <2>8 DEF Strong
  <1> QED BY <1>4, <1>5 DEF configure_endpoint

(* the anchor goes into the frame list of a halted controller, alone *)
LEMMA AnchorInstalledStep == Strong /\ anchor_installed => Strong'
  <1> SUFFICES ASSUME Strong, anchor_installed PROVE Strong' OBVIOUS
  <1> USE DEF ControlTransfer, BulkTransfer, Installed, Linked
  <1>1. /\ pc = "anchor_halt" /\ pc' = "anchor_start" /\ halted
        /\ frame_list' = anchor /\ link' = [link EXCEPT ![anchor] = Nil]
        /\ UNCHANGED <<mem, qh, cur, halted, backup, anchor, hc, toggled, received, left>>
    BY DEF anchor_installed, Halted, toggles, history
  <1>2. anchor \in Bufs /\ mem[anchor] = "anchor" /\ left = {} /\ hc = Nil
    BY <1>1 DEF Strong, AnchorOK
  <1>3. InList' = {anchor, Nil} /\ InList = {anchor, Nil} BY <1>1, <1>2 DEF InList
  <1>4. Types' /\ AnchorOK' BY <1>1, <1>2 DEF Strong, Types, AnchorOK
  <1>5. Closed(InList)' BY <1>1, <1>2, <1>3 DEF Strong, Types, Closed
  <1>6. ListOK' BY <1>1, <1>2, <1>3, <1>5 DEF Strong, Types, ListOK
  <1>7. FrameOK' BY <1>1, <1>2, <1>3 DEF Strong, FrameOK
  <1>8. ToggleOK' BY <1>1 DEF Strong, ToggleOK
  <1> QED BY <1>4, <1>6, <1>7, <1>8 DEF Strong

(* the anchor was not installed: it is freed and nothing pointed to it *)
LEMMA AnchorTimeoutStep == Strong /\ anchor_timeout => Strong'
  <1> SUFFICES ASSUME Strong, anchor_timeout PROVE Strong' OBVIOUS
  <1> USE DEF ControlTransfer, BulkTransfer, Installed, Linked
  <1>1. /\ pc = "anchor_halt" /\ pc' = "ready" /\ anchor' = Nil
        /\ mem' = [mem EXCEPT ![anchor] = "free"] /\ qh' = [qh EXCEPT ![anchor] = Blank]
        /\ UNCHANGED <<cur, halted, frame_list, backup, link, hc, toggled, received, left>>
    BY DEF anchor_timeout, NotHalted, Free, toggles, history
  <1>2. /\ anchor \in Bufs /\ mem[anchor] = "anchor" /\ left = {} /\ hc = Nil
        /\ frame_list = Nil /\ backup = Nil
    BY <1>1 DEF Strong, AnchorOK
  <1>3. InList' = {Nil} /\ InList = {anchor, Nil} BY <1>1, <1>2 DEF InList
  <1>4. Types' /\ AnchorOK' BY <1>1, <1>2, RequestOK DEF Strong, Types, AnchorOK
  <1>5. ListOK' BY <1>1, <1>2, <1>3 DEF Strong, Types, ListOK, Closed
  <1>6. FrameOK' BY <1>1, <1>2, <1>3 DEF Strong, FrameOK
  <1>7. ToggleOK' BY <1>1, <1>2 DEF Strong, Types, ToggleOK
  <1> QED BY <1>4, <1>5, <1>6, <1>7 DEF Strong

(* the anchor is in the frame list *)
LEMMA AnchorStartedStep == Strong /\ anchor_started => Strong'
  <1> SUFFICES ASSUME Strong, anchor_started PROVE Strong' OBVIOUS
  <1> USE DEF ControlTransfer, BulkTransfer, Installed, Linked
  <1>1. /\ pc = "anchor_start" /\ pc' = "ready"
        /\ UNCHANGED <<mem, qh, cur, halted, frame_list, backup, anchor, link, hc, toggled, received, left>>
    BY DEF anchor_started, bus, lists, toggles, history
  <1>2. InList' = InList /\ Closed(InList)' = Closed(InList) BY <1>1 DEF InList, Closed
  <1>3. Types' /\ AnchorOK' BY <1>1 DEF Strong, Types, AnchorOK
  <1>4. ListOK' /\ FrameOK' BY <1>1, <1>2 DEF Strong, ListOK, FrameOK
  <1>5. ToggleOK' BY <1>1 DEF Strong, ToggleOK
  <1> QED BY <1>3, <1>4, <1>5 DEF Strong

-----------------------------------------------------------------------------
(* usb_transfer: the descriptor is fresh *)
LEMMA CallStep ==
  ASSUME Strong, NEW b \in Bufs, usb_transfer(b) PROVE Strong'
  <1> USE DEF ControlTransfer, BulkTransfer, Installed, Linked
  <1>1. /\ pc = "ready" /\ pc' = "link_halt" /\ cur' = b /\ mem[b] = "endpoint" /\ anchor # Nil
        /\ qh' = [qh EXCEPT ![b].done = 0, ![b].halted = FALSE]
        /\ UNCHANGED <<mem, halted, frame_list, backup, anchor, link, hc, toggled, received, left>>
    BY DEF usb_transfer, lists, toggles, history
  <1>2. InList' = InList /\ Closed(InList)' = Closed(InList) BY <1>1 DEF InList, Closed
  <1> DEFINE q == [qh[b] EXCEPT !.done = 0, !.halted = FALSE]
  <1>3. DOMAIN qh' = Bufs /\ qh'[b] = q /\ \A c \in Bufs \ {b} : qh'[c] = qh[c]
    BY <1>1 DEF Strong, Types
  <1>4. q.n = qh[b].n /\ q.done = 0 /\ q.halted = FALSE /\ DOMAIN q = DOMAIN qh[b]
    BY DEF Strong, Types, QhOK
  <1> HIDE DEF q
  <1>5. QhOK(q)
    <2>1. QhOK(qh[b]) BY DEF Strong, Types
    <2>2. q.n \in 1 .. 3 /\ {"n", "done", "halted", "flagged"} \subseteq DOMAIN q BY <1>4, <2>1 DEF QhOK
    <2>3. q.done \in 0 .. q.n BY <1>4, <2>2
    <2> QED BY <1>4, <2>2, <2>3 DEF QhOK
  <1>6. Types' /\ AnchorOK' BY <1>1, <1>3, <1>5 DEF Strong, Types, AnchorOK
  <1>7. ListOK' /\ FrameOK' BY <1>1, <1>2 DEF Strong, ListOK, FrameOK
  <1>8. ToggleOK' BY <1>1, <1>3, <1>4 DEF Strong, ToggleOK
  <1> QED BY <1>6, <1>7, <1>8 DEF Strong

(* link_qh: the queue head becomes the first after the anchor *)
LEMMA LinkStep == Strong /\ link_qh => Strong'
  <1> SUFFICES ASSUME Strong, link_qh PROVE Strong' OBVIOUS
  <1> USE DEF ControlTransfer, BulkTransfer, Installed, Linked
  <1>1. /\ pc = "link_halt" /\ pc' = "link_start" /\ halted
        /\ link' = [link EXCEPT ![cur] = link[anchor], ![anchor] = cur]
        /\ UNCHANGED <<mem, qh, cur, halted, frame_list, backup, anchor, hc, toggled, received, left>>
    BY DEF link_qh, Halted, toggles, history
  <1>2. /\ anchor \in Bufs /\ cur \in Bufs /\ mem[cur] = "endpoint" /\ mem[anchor] = "anchor" /\ hc = Nil
        /\ cur # anchor
    BY <1>1 DEF Strong, Types, AnchorOK, FrameOK
  <1>3. InList = {anchor, Nil} \cup left /\ InList' = InList \cup {cur} BY <1>1 DEF InList
  <1>4. /\ link'[anchor] = cur /\ link'[cur] = link[anchor]
        /\ \A b \in Bufs \ {anchor, cur} : link'[b] = link[b]
        /\ link' \in [Bufs -> Bufs \cup {Nil}]
    <2>1. link[anchor] \in Bufs \cup {Nil} BY <1>2 DEF Strong, Types
    <2> QED BY <1>1, <1>2, <2>1 DEF Strong, Types
  <1>5. Closed(InList) /\ InList \subseteq Bufs \cup {Nil} BY <1>1, ListHeld DEF Strong, ListOK
  <1>6. link[anchor] \in InList BY <1>2, <1>3, <1>5, UsbAssumption DEF Closed
  <1>7. Types' /\ AnchorOK' BY <1>1, <1>4 DEF Strong, Types, AnchorOK
  <1>8. Closed(InList)' BY <1>2, <1>3, <1>4, <1>5, <1>6 DEF Closed
  <1>9. \A b \in Bufs : mem[b] = "endpoint" /\ b \notin InList' => link'[b] = Nil
    BY <1>2, <1>3, <1>4 DEF Strong, ListOK
  <1>10. cur \notin left => \A b \in InList' \ {Nil, anchor} : link'[b] # cur
    <2> SUFFICES ASSUME cur \notin left, NEW b \in InList' \ {Nil, anchor} PROVE link'[b] # cur OBVIOUS
    <2>1. cur \notin InList BY <1>2, <1>3, UsbAssumption
    <2>2. CASE b = cur BY <2>1, <2>2, <1>4, <1>6
    <2>3. CASE b # cur
      <3>1. b \in InList /\ link'[b] = link[b] BY <2>3, <1>3, <1>4, <1>5
      <3> QED BY <3>1, <2>1, <1>5 DEF Closed
    <2> QED BY <2>2, <2>3
  <1>11. ListOK' BY <1>1, <1>4, <1>8, <1>9, <1>10 DEF ListOK
  <1>12. FrameOK' BY <1>1, <1>2, <1>3 DEF Strong, FrameOK
  <1>13. ToggleOK' BY <1>1 DEF Strong, ToggleOK
  <1> QED BY <1>7, <1>11, <1>12, <1>13 DEF Strong

(* the way from x on is itself closed *)
LEMMA ReachClosed ==
  ASSUME link \in [Bufs -> Bufs \cup {Nil}], NEW x \in Bufs \cup {Nil}
  PROVE  x \in Reach(x) /\ Closed(Reach(x))
  BY DEF Reach, Closed

(* the loop of unlink_qh finds the queue head before the one to be unlinked *)
LEMMA BeforeInList ==
  ASSUME Strong, pc = "unlink_halt", cur \in Reach(link[anchor])
  PROVE  Before(cur) \in InList
  <1> DEFINE R == Reach(anchor)
  <1>1. /\ anchor \in Bufs /\ link \in [Bufs -> Bufs \cup {Nil}] /\ anchor # Nil
    BY DEF Strong, Types, AnchorOK, BulkTransfer
  <1>2. anchor \in R /\ Closed(R) BY <1>1, ReachClosed
  <1>3. InList \in SUBSET (Bufs \cup {Nil}) /\ Closed(InList) /\ anchor \in InList
    BY ListHeld DEF Strong, ListOK, InList
  <1>4. R \subseteq InList BY <1>3, ReachWithin
  <1>5. CASE link[anchor] = cur BY <1>3, <1>5 DEF Before
  <1>6. CASE link[anchor] # cur
    <2>1. \E x \in R \ {Nil} : link[x] = cur
      <3> SUFFICES ASSUME \A x \in R \ {Nil} : link[x] # cur PROVE FALSE OBVIOUS
      <3> DEFINE D == R \ {cur}
      <3>1. D \in SUBSET (Bufs \cup {Nil}) /\ Closed(D) BY <1>2, <1>3, <1>4 DEF Closed
      <3>2. link[anchor] \in D BY <1>1, <1>2, <1>6 DEF Closed
      <3> HIDE DEF D
      <3>3. Reach(link[anchor]) \subseteq D BY <3>1, <3>2, ReachWithin
      <3> QED BY <3>3 DEF D
    <2> QED BY <1>4, <1>6, <2>1 DEF Before
  <1> QED BY <1>5, <1>6

(* unlink_qh: a queue head that was linked once is gone from the list *)
LEMMA UnlinkStep == Strong /\ unlink_qh => Strong'
  <1> SUFFICES ASSUME Strong, unlink_qh PROVE Strong' OBVIOUS
  <1> USE DEF ControlTransfer, BulkTransfer, Installed, Linked
  <1> DEFINE before == Before(cur)
  <1>1. /\ pc = "unlink_halt" /\ pc' = "unlink_start" /\ halted
        /\ link' = [[link EXCEPT ![before] = link[cur]] EXCEPT ![cur] = Nil]
        /\ UNCHANGED <<mem, qh, cur, halted, frame_list, backup, anchor, hc, toggled, received, left>>
    BY DEF unlink_qh, Halted, toggles, history
  <1>a. before \in InList BY <1>1, BeforeInList DEF unlink_qh
  <1>b. link[anchor] = cur => before = anchor BY DEF Before
  <1> HIDE DEF before
  <1>2. /\ anchor \in Bufs /\ cur \in Bufs /\ mem[cur] = "endpoint" /\ mem[anchor] = "anchor" /\ hc = Nil
        /\ cur # anchor
    BY <1>1 DEF Strong, Types, AnchorOK, FrameOK
  <1>3. InList = {anchor, Nil, cur} \cup left /\ InList' = {anchor, Nil} \cup left BY <1>1 DEF InList
  <1>4. /\ link'[cur] = Nil
        /\ \A b \in Bufs \ {cur} : link'[b] = IF b = before THEN link[cur] ELSE link[b]
        /\ link' \in [Bufs -> Bufs \cup {Nil}]
    <2>1. link[cur] \in Bufs \cup {Nil} BY <1>2 DEF Strong, Types
    <2> QED BY <1>1, <1>2, <2>1 DEF Strong, Types
  <1>5. Closed(InList) /\ InList \subseteq Bufs \cup {Nil} BY <1>1, ListHeld DEF Strong, ListOK
  <1>6. link[cur] \in InList BY <1>2, <1>3, <1>5, UsbAssumption DEF Closed
  <1>7. Types' /\ AnchorOK' BY <1>1, <1>4 DEF Strong, Types, AnchorOK
  <1>8. Closed(InList)'
    <2>1. CASE cur \in left
      <3>1. InList' = InList BY <1>3, <2>1
      <3> QED BY <1>2, <1>3, <1>4, <1>5, <1>6, <3>1 DEF Closed
    <2>2. CASE cur \notin left
      <3>1. link[anchor] = cur /\ \A b \in InList \ {Nil, anchor} : link[b] # cur
        BY <1>1, <2>2 DEF Strong, ListOK
      <3>2. before = anchor BY <1>b, <3>1
      <3>3. InList' = InList \ {cur} BY <1>2, <1>3, <2>2, UsbAssumption
      <3>4. link[cur] # cur BY <1>2, <1>3, <3>1, UsbAssumption
      <3>5. \A b \in InList' \ {Nil} : link'[b] \in InList'
        BY <1>2, <1>4, <1>5, <1>6, <3>1, <3>2, <3>3, <3>4 DEF Closed
      <3> QED BY <3>5 DEF Closed
    <2> QED BY <2>1, <2>2
  <1>9. \A b \in Bufs : mem[b] = "endpoint" /\ b \notin InList' => link'[b] = Nil
    <2> SUFFICES ASSUME NEW b \in Bufs, mem[b] = "endpoint", b \notin InList', b # cur PROVE link'[b] = Nil
      BY <1>4
    <2>1. b \notin InList BY <1>3
    <2>2. link[b] = Nil BY <2>1 DEF Strong, ListOK
    <2>3. b # before BY <2>1, <1>a
    <2> QED BY <1>4, <2>2, <2>3
  <1>10. ListOK' BY <1>1, <1>8, <1>9 DEF ListOK
  <1>11. FrameOK' BY <1>1, <1>2, <1>3 DEF Strong, FrameOK
  <1>12. ToggleOK' BY <1>1 DEF Strong, ToggleOK
  <1> QED BY <1>7, <1>10, <1>11, <1>12 DEF Strong

(* link_error and unlink_error: the endpoint, linked or not, counts as left behind *)
LEMMA LeaveStep == Strong /\ (link_error \/ unlink_error) => Strong'
  <1> SUFFICES ASSUME Strong, link_error \/ unlink_error PROVE Strong' OBVIOUS
  <1> USE DEF ControlTransfer, BulkTransfer, Installed, Linked
  <1>1. /\ pc \in BulkTransfer /\ pc' = "ready" /\ left' = left \cup {cur}
        /\ UNCHANGED <<mem, qh, halted, frame_list, backup, anchor, link, hc, toggled, received>>
    BY DEF link_error, unlink_error, NotHalted, NotRunning, Return, lists, toggles
  <1>2. cur \in Bufs /\ mem[cur] = "endpoint" /\ anchor # Nil BY <1>1 DEF Strong, Types
  <1>3. InList' = InList \cup {cur} BY <1>1 DEF InList
  <1>4. Closed(InList) BY <1>1 DEF Strong, ListOK
  <1>5. cur \in InList \/ link[cur] = Nil BY <1>2 DEF Strong, ListOK
  <1>6. Nil \in InList BY DEF InList
  <1>7. Closed(InList)' BY <1>1, <1>3, <1>4, <1>5, <1>6 DEF Closed
  <1>8. Types' BY <1>1, <1>2 DEF Strong, Types
  <1>9. AnchorOK' BY <1>1, <1>2 DEF Strong, AnchorOK
  <1>10. ListOK' BY <1>1, <1>3, <1>7 DEF Strong, ListOK
  <1>11. FrameOK' BY <1>1, <1>3 DEF Strong, FrameOK
  <1>12. ToggleOK' BY <1>1 DEF Strong, ToggleOK
  <1> QED BY <1>8, <1>9, <1>10, <1>11, <1>12 DEF Strong

(* the time is up: the endpoint is in the list until the controller has halted *)
LEMMA WaitedStep == Strong /\ transfer_waited => Strong'
  <1> SUFFICES ASSUME Strong, transfer_waited PROVE Strong' OBVIOUS
  <1> USE DEF ControlTransfer, BulkTransfer, Installed, Linked
  <1>1. /\ pc = "link_start" /\ pc' = "unlink_halt"
        /\ UNCHANGED <<mem, qh, cur, halted, frame_list, backup, anchor, link, hc, toggled, received, left>>
    BY DEF transfer_waited, Running, lists, toggles, history
  <1>2. InList' = InList /\ Closed(InList)' = Closed(InList) BY <1>1 DEF InList, Closed
  <1>3. Types' /\ AnchorOK' BY <1>1 DEF Strong, Types, AnchorOK
  <1>4. ListOK' /\ FrameOK' BY <1>1, <1>2 DEF Strong, ListOK, FrameOK
  <1>5. ToggleOK' BY <1>1 DEF Strong, ToggleOK
  <1> QED BY <1>3, <1>4, <1>5 DEF Strong

(* the driver finds out whether the device took the data and follows its toggle *)
LEMMA ReadStep == Strong /\ transfer_read => Strong'
  <1> SUFFICES ASSUME Strong, transfer_read PROVE Strong' OBVIOUS
  <1> USE DEF ControlTransfer, BulkTransfer, Installed, Linked
  <1>1. /\ pc = "unlink_start" /\ pc' = "ready"
        /\ toggled' = IF qh[cur].done = 1 THEN (toggled \cup {cur}) \ (toggled \cap {cur}) ELSE toggled
        /\ UNCHANGED <<mem, qh, halted, frame_list, backup, anchor, link, hc, received, left>>
    BY DEF transfer_read, Running, Return, lists, history
  <1>2. InList' = InList /\ Closed(InList)' = Closed(InList) BY <1>1 DEF InList, Closed
  <1>3. Types' /\ AnchorOK' BY <1>1 DEF Strong, Types, AnchorOK
  <1>4. ListOK' /\ FrameOK' BY <1>1, <1>2 DEF Strong, ListOK, FrameOK
  <1>5. ToggleOK' BY <1>1 DEF Strong, ToggleOK
  <1> QED BY <1>3, <1>4, <1>5 DEF Strong

-----------------------------------------------------------------------------
(* the controller halts, starts, or goes from one queue head to the next *)
LEMMA MoveStep == Strong /\ (hc_next \/ hc_halts \/ hc_starts) => Strong'
  <1> SUFFICES ASSUME Strong, hc_next \/ hc_halts \/ hc_starts PROVE Strong' OBVIOUS
  <1> USE DEF ControlTransfer, BulkTransfer, Installed, Linked
  <1>1. UNCHANGED <<mem, qh, pc, cur, frame_list, backup, anchor, link, toggled, received, left>>
    BY DEF hc_next, hc_halts, hc_starts, driver, lists, history
  <1>2. InList' = InList /\ Closed(InList)' = Closed(InList) /\ Nil \in InList BY <1>1 DEF InList, Closed
  <1>3. /\ hc' \in {Nil, hc, IF hc = Nil THEN frame_list ELSE link[hc]}
        /\ halted' => hc' = Nil
    BY DEF hc_next, hc_halts, hc_starts, Strong, FrameOK
  <1>4. /\ pc \in Installed => hc' \in {cur, Nil}
        /\ pc \notin Installed => hc' \in InList
    <2>1. CASE pc \in Installed BY <2>1, <1>3 DEF Strong, FrameOK
    <2>2. CASE pc = "anchor_halt" BY <2>2, <1>2, <1>3 DEF Strong, AnchorOK
    <2>3. CASE pc \notin Installed /\ pc # "anchor_halt"
      <3>1. Closed(InList) /\ hc \in InList /\ frame_list \in InList
        BY <2>3 DEF Strong, ListOK, FrameOK, InList
      <3> QED BY <3>1, <1>2, <1>3, <2>3 DEF Closed
    <2> QED BY <2>1, <2>2, <2>3
  <1>5. pc = "anchor_halt" => hc' = Nil BY <1>3 DEF Strong, AnchorOK
  <1>6. Types' /\ AnchorOK' BY <1>1, <1>5 DEF Strong, Types, AnchorOK
  <1>7. ListOK' /\ FrameOK' BY <1>1, <1>2, <1>3, <1>4 DEF Strong, ListOK, FrameOK
  <1>8. ToggleOK' BY <1>1 DEF Strong, ToggleOK
  <1> QED BY <1>6, <1>7, <1>8 DEF Strong

(* the controller works on a transfer; that of an endpoint which no call left *)
(* behind is the one of the call in progress                                  *)
LEMMA WorkStep == Strong /\ (hc_stage \/ hc_fails) => Strong'
  <1> SUFFICES ASSUME Strong, hc_stage \/ hc_fails PROVE Strong' OBVIOUS
  <1> USE DEF ControlTransfer, BulkTransfer, Installed, Linked
  <1>1. /\ UNCHANGED <<mem, pc, cur, frame_list, backup, anchor, link, toggled, left, hc, halted>>
        /\ hc # Nil /\ hc # anchor /\ ~Finished(qh[hc])
    BY DEF hc_stage, hc_fails, StageDone, StageFails, driver, lists, history
  <1>2. /\ hc \in Bufs
        /\ pc \in Installed => hc = cur
        /\ pc \notin Installed => hc \in InList
    <2>1. cur \in Bufs \/ pc \notin Installed BY DEF Strong, Types
    <2> QED BY <1>1, <2>1, ListHeld DEF Strong, FrameOK
  <1>3. QhOK(qh[hc]) BY <1>2 DEF Strong, Types
  <1>4. /\ DOMAIN qh' = Bufs /\ QhOK(qh'[hc]) /\ \A b \in Bufs \ {hc} : qh'[b] = qh[b]
        /\ qh'[hc].n = qh[hc].n
        /\ \/ qh'[hc].done = qh[hc].done /\ received' = received
           \/ /\ qh'[hc].done = qh[hc].done + 1
              /\ received' = IF qh[hc].n = 1 THEN (received \cup {hc}) \ (received \cap {hc}) ELSE received
    <2>1. CASE hc_stage
      <3>1. PICK short \in BOOLEAN : qh' = [qh EXCEPT ![hc].done = @ + 1, ![hc].flagged = @ \/ short]
        BY <2>1 DEF hc_stage, StageDone
      <3> DEFINE q == [qh[hc] EXCEPT !.done = @ + 1, !.flagged = @ \/ short]
      <3>2. DOMAIN qh' = Bufs /\ qh'[hc] = q /\ \A b \in Bufs \ {hc} : qh'[b] = qh[b]
        BY <1>2, <3>1 DEF Strong, Types
      <3>3. q.done = qh[hc].done + 1 /\ q.n = qh[hc].n /\ q.halted = qh[hc].halted /\ DOMAIN q = DOMAIN qh[hc]
        BY <1>3 DEF QhOK
      <3> HIDE DEF q
      <3>4. qh[hc].done + 1 \in 0 .. qh[hc].n BY <1>1, <1>3 DEF QhOK, Finished
      <3>5. QhOK(q) BY <1>3, <3>3, <3>4 DEF QhOK
      <3> QED BY <2>1, <3>2, <3>3, <3>5 DEF hc_stage
    <2>2. CASE hc_fails
      <3>1. qh' = [qh EXCEPT ![hc].halted = TRUE] /\ received' = received
        BY <2>2 DEF hc_fails, StageFails
      <3> DEFINE q == [qh[hc] EXCEPT !.halted = TRUE]
      <3>2. DOMAIN qh' = Bufs /\ qh'[hc] = q /\ \A b \in Bufs \ {hc} : qh'[b] = qh[b]
        BY <1>2, <3>1 DEF Strong, Types
      <3>3. q.done = qh[hc].done /\ q.n = qh[hc].n /\ q.halted = TRUE /\ DOMAIN q = DOMAIN qh[hc]
        BY <1>3 DEF QhOK
      <3> HIDE DEF q
      <3>5. QhOK(q) BY <1>3, <3>3 DEF QhOK
      <3> QED BY <3>1, <3>2, <3>3, <3>5
    <2> QED BY <2>1, <2>2
  <1>5. InList' = InList /\ Closed(InList)' = Closed(InList) BY <1>1 DEF InList, Closed
  <1>6. \A b \in Bufs : QhOK(qh'[b])
    <2> SUFFICES ASSUME NEW b \in Bufs PROVE QhOK(qh'[b]) OBVIOUS
    <2> QED BY <1>4 DEF Strong, Types
  <1>7. Types' /\ AnchorOK' BY <1>1, <1>4, <1>6 DEF Strong, Types, AnchorOK
  <1>8. ListOK' /\ FrameOK' BY <1>1, <1>5 DEF Strong, ListOK, FrameOK
  <1>9. ToggleOK'
    <2> SUFFICES ASSUME NEW b \in Bufs \ left, mem[b] = "endpoint"
                 PROVE  /\ qh'[b].n = 1
                        /\ IF b = cur /\ pc \in BulkTransfer
                           THEN \/ qh'[b].done = 0 /\ (b \in toggled <=> b \in received')
                                \/ qh'[b].done = 1 /\ (b \in toggled <=> b \notin received')
                           ELSE b \in toggled <=> b \in received'
      BY <1>1 DEF ToggleOK
    <2>1. CASE b # hc BY <1>4, <2>1 DEF Strong, ToggleOK
    <2>2. CASE b = hc
      <3>1. pc \notin Installed BY <1>2, <2>2 DEF Strong, Types
      <3>2. b = cur /\ pc \in BulkTransfer BY <1>1, <1>2, <2>2, <3>1 DEF InList
      <3>3. /\ qh[b].n = 1
            /\ \/ qh[b].done = 0 /\ (b \in toggled <=> b \in received)
               \/ qh[b].done = 1 /\ (b \in toggled <=> b \notin received)
        BY <3>2 DEF Strong, ToggleOK
      <3>4. qh[b].done = 0 BY <1>1, <2>2, <3>3 DEF Finished
      <3> QED BY <1>4, <2>2, <3>2, <3>3, <3>4
    <2> QED BY <2>1, <2>2
  <1> QED BY <1>7, <1>8, <1>9 DEF Strong

-----------------------------------------------------------------------------
(* every step until the first buffer is freed late *)
LEMMA NextIInv == IInv /\ late = {} /\ [Next]_vars => IInv'
  <1> SUFFICES ASSUME Strong, late = {}, [Next]_vars PROVE IInv' BY DEF IInv
  <1>1. CASE start_timeout \/ stop_timeout BY <1>1, LateStep DEF IInv
  <1>2. ASSUME Strong', UNCHANGED late PROVE IInv' BY <1>2 DEF IInv
  <1> USE DEF history
  <1>3. CASE reset_port \/ AllocFails \/ (NoAddressLeft /\ UNCHANGED bus) \/ configure_endpoints
    BY <1>2, <1>3, ReadyStep DEF reset_port, AllocFails, NoAddressLeft, configure_endpoints, AtStep, AtTransfer,
       Proceed, GiveUp, PortDone, Return, bus
  <1>4. CASE \E b \in Bufs : submit(b) BY <1>2, <1>4, SubmitStep DEF submit
  <1>5. CASE install \/ restore BY <1>2, <1>5, FrameListStep DEF install, restore
  <1>6. CASE started \/ wait_for_control_transfer \/ resume_status
    BY <1>2, <1>6, WaitStep DEF started, wait_for_control_transfer, resume_status, bus
  <1>7. CASE install_timeout \/ restart_failed \/ transfer_done
    BY <1>2, <1>7, FreeStep DEF install_timeout, restart_failed, transfer_done, bus
  <1>8. CASE \E b \in Bufs : configure_endpoint(b) BY <1>2, <1>8, EndpointStep DEF configure_endpoint
  <1>9. CASE anchor_installed BY <1>2, <1>9, AnchorInstalledStep DEF anchor_installed
  <1>10. CASE anchor_timeout BY <1>2, <1>10, AnchorTimeoutStep DEF anchor_timeout
  <1>11. CASE anchor_started BY <1>2, <1>11, AnchorStartedStep DEF anchor_started, bus
  <1>12. CASE \E b \in Bufs : usb_transfer(b) BY <1>2, <1>12, CallStep DEF usb_transfer
  <1>13. CASE link_qh BY <1>2, <1>13, LinkStep DEF link_qh
  <1>14. CASE link_error \/ unlink_error BY <1>2, <1>14, LeaveStep DEF link_error, unlink_error
  <1>15. CASE transfer_waited BY <1>2, <1>15, WaitedStep DEF transfer_waited
  <1>16. CASE unlink_qh BY <1>2, <1>16, UnlinkStep DEF unlink_qh
  <1>17. CASE transfer_read BY <1>2, <1>17, ReadStep DEF transfer_read
  <1>18. CASE hc_next \/ hc_halts \/ hc_starts
    BY <1>2, <1>18, MoveStep DEF hc_next, hc_halts, hc_starts, driver
  <1>19. CASE hc_stage \/ hc_fails BY <1>2, <1>19, WorkStep DEF hc_stage, hc_fails, driver
  <1>20. CASE (\E p \in Ports : connect_change(p) /\ UNCHANGED bus) \/ UNCHANGED vars
    BY <1>2, <1>20, Elsewhere DEF connect_change, vars, coreVars, bus
  <1> QED
    BY <1>1, <1>3, <1>4, <1>5, <1>6, <1>7, <1>8, <1>9, <1>10, <1>11, <1>12, <1>13, <1>14, <1>15, <1>16, <1>17,
       <1>18, <1>19, <1>20 DEF Next

(* nothing changes *)
LEMMA Stutter == IInv /\ UNCHANGED vars => IInv'
  <1> SUFFICES ASSUME IInv, UNCHANGED vars PROVE IInv' OBVIOUS
  <1> USE DEF vars, coreVars, bus, lists, toggles, history
  <1>1. CASE Strong /\ late = {} BY <1>1, Elsewhere DEF IInv
  <1>2. CASE late # {} /\ NoUseAfterFree /\ BetweenCalls
    <2>1. Reach(frame_list)' = Reach(frame_list) BY DEF Reach, Closed
    <2>2. NoUseAfterFree' BY <1>2, <2>1 DEF NoUseAfterFree
    <2>3. BetweenCalls' BY <1>2, <2>1 DEF BetweenCalls
    <2> QED BY <1>2, <2>2, <2>3 DEF IInv
  <1> QED BY <1>1, <1>2 DEF IInv

(* what was freed late stays known *)
LEMMA LateGrows == [Next]_vars => late \subseteq late'
  BY DEF Next, vars, bus, driver, history, FreeLate, reset_port, AllocFails, submit, install, install_timeout,
     started, start_timeout, resume_status, wait_for_control_transfer, stop_timeout, restore, restart_failed,
     transfer_done, configure_endpoint, anchor_installed, anchor_timeout, anchor_started, configure_endpoints,
     usb_transfer, link_qh, link_error, transfer_waited, unlink_qh, unlink_error, transfer_read,
     hc_next, hc_stage, hc_fails, hc_halts, hc_starts

(* the driver alone, with any constants: as long as the controller halts and starts *)
(* in time around every transfer, nothing it can come to was freed, and between two *)
(* calls the schedule and the toggles are in order                                  *)
THEOREM InTime == Spec => [](late = {} => NoUseAfterFree /\ BetweenCalls)
  <1>1. Init => (late = {} => IInv) BY InitIInv
  <1>2. (late = {} => IInv) /\ [Next]_vars => (late = {} => IInv)' BY NextIInv, LateGrows
  <1>3. (late = {} => IInv) => (late = {} => NoUseAfterFree /\ BetweenCalls) BY StrongEnough
  <1> QED BY <1>1, <1>2, <1>3, PTL DEF Spec

-----------------------------------------------------------------------------
(* a transfer of an endpoint sets no address *)
EndpointsPlain == \A b \in Bufs : mem[b] = "endpoint" => qh[b].value = 0

(* a step of the UHCI driver or controller keeps the addresses in order *)
LEMMA NextAddress ==
  IInv /\ late = {} /\ EndpointsPlain /\ AddressInv /\ [Next]_vars => AddressInv' /\ EndpointsPlain'
  <1> SUFFICES ASSUME Strong, EndpointsPlain, AddressInv, [Next]_vars PROVE AddressInv' /\ EndpointsPlain'
    BY DEF IInv
  <1> USE DEF scan, addresses
  <1>p. ASSUME UNCHANGED <<mem, qh>> PROVE EndpointsPlain' BY <1>p DEF EndpointsPlain
  <1>f. ASSUME Free(cur) PROVE EndpointsPlain'
    <2>1. mem' = [mem EXCEPT ![cur] = "free"] /\ qh' = [qh EXCEPT ![cur] = Blank] BY <1>f DEF Free
    <2> QED BY <2>1 DEF EndpointsPlain, AddressInv, AddressTypes, Strong, Types
  <1>1. CASE reset_port
    BY <1>1, <1>p, ResetKeeps DEF reset_port, ResetFails
  <1>2. CASE AllocFails \/ (NoAddressLeft /\ UNCHANGED bus) \/ configure_endpoints
    BY <1>2, <1>p, QuietKeeps DEF AllocFails, NoAddressLeft, configure_endpoints, GiveUp, PortDone
  <1>3. ASSUME NEW b \in Bufs, submit(b) PROVE AddressInv' /\ EndpointsPlain'
    <2> DEFINE r == Request(step, address')
    <2>1. address' \in Nat BY <1>3 DEF submit, Take, allocate_usb_address, AddressInv, AddressTypes
    <2>2. TransferOK(r) /\ r.value = IF step = "address" THEN address' ELSE 0
      BY <2>1 DEF Request, IdentifyQh, SetAddressQh, DescriptorQh, PacketQh, Transfer, TransferOK
    <2>3. Take(b) /\ qh' = [qh EXCEPT ![b] = r] /\ pc' # "ready" /\ UNCHANGED <<dev, scan, mishap>>
      BY <1>3 DEF submit
    <2>4. AddressInv' BY <2>2, <2>3, TakeKeeps
    <2>5. EndpointsPlain' BY <2>3 DEF Take, EndpointsPlain, AddressInv, AddressTypes, Strong, Types
    <2> QED BY <2>4, <2>5
  <1>4. CASE install \/ started \/ wait_for_control_transfer \/ restore
    BY <1>4, <1>p, QuietKeeps DEF install, started, wait_for_control_transfer, restore, Halted, Running
  <1>5. CASE install_timeout \/ restart_failed
    <2>1. Free(cur) /\ NextPort /\ UNCHANGED <<dev, mishap, next_usb_address>>
      BY <1>5 DEF install_timeout, restart_failed, GiveUp
    <2>2. qh' = [qh EXCEPT ![cur] = Blank] BY <2>1 DEF Free
    <2>3. AddressInv' BY <2>1, <2>2, FreedTransfer, EasedKeeps DEF AddressInv
    <2> QED BY <1>f, <2>1, <2>3
  <1>6. CASE start_timeout \/ stop_timeout
    <2>1. /\ mem' = [mem EXCEPT ![cur] = "free"] /\ UNCHANGED <<qh, dev, next_usb_address>> /\ mishap' = TRUE
          /\ pc' = "ready"
          /\ \/ step' = "reset" /\ port' = port + 1 /\ address' = 0
             \/ step = "identify" /\ step' = "address" /\ UNCHANGED <<port, address>>
      BY <1>6 DEF start_timeout, stop_timeout, FreeLate, GiveUp, NextPort, Return, Proceed, Steps
    <2>2. AddressTypes' BY <2>1 DEF AddressInv, AddressTypes, InHand
    <2>3. EndpointsPlain' BY <2>1 DEF EndpointsPlain, Strong, Types
    <2> QED BY <2>1, <2>2, <2>3 DEF AddressInv
  <1>7. CASE resume_status
    <2>1. /\ qh' = [qh EXCEPT ![cur].flagged = FALSE] /\ pc = "wait"
          /\ UNCHANGED <<mem, dev, mishap, next_usb_address, step, port, address, pc, cur>>
      BY <1>7 DEF resume_status
    <2>2. cur \in Bufs BY <2>1 DEF Strong, Types, ControlTransfer
    <2>3. TransferOK(qh[cur]) BY <2>2 DEF AddressInv, AddressTypes
    <2> DEFINE r == [qh[cur] EXCEPT !.flagged = FALSE]
    <2>4. DOMAIN qh' = Bufs /\ qh'[cur] = r /\ \A c \in Bufs \ {cur} : qh'[c] = qh[c]
      BY <2>1, <2>2 DEF AddressInv, AddressTypes
    <2>5. r.n = qh[cur].n /\ r.done = qh[cur].done /\ r.value = qh[cur].value /\ DOMAIN r = DOMAIN qh[cur]
      BY <2>3 DEF TransferOK
    <2> HIDE DEF r
    <2>6. TransferOK(r) BY <2>3, <2>5 DEF TransferOK
    <2>7. \A c \in Bufs : TransferOK(qh'[c]) /\ qh'[c].value = qh[c].value /\ (Pending(c)' => Pending(c))
      BY <2>4, <2>5, <2>6 DEF Pending, AddressInv, AddressTypes
    <2>8. AddressInv' BY <2>1, <2>2, <2>4, <2>7, EasedKeeps
    <2> QED BY <2>1, <2>7, <2>8 DEF EndpointsPlain
  <1>8. CASE transfer_done
    <2>1. pc # "ready" /\ Free(cur) BY <1>8 DEF transfer_done
    <2>2. CASE identify_done \/ packet_done BY <1>f, <2>1, <2>2, PlainEnd
    <2>3. CASE address_done BY <1>f, <2>1, <2>3, AddressEnd
    <2>4. CASE descriptor_done(ResetLeaves)
      <3>1. ResetLeaves => ResetFails BY DEF ResetFails
      <3> QED BY <1>f, <2>1, <2>4, <3>1, DescriptorEnd
    <2> QED
      BY <1>8, <2>2, <2>3, <2>4
      DEF transfer_done, identify_ends, set_address_ends, get_descriptor_ends, packet_ends
  <1>9. ASSUME NEW b \in Bufs, configure_endpoint(b) PROVE AddressInv' /\ EndpointsPlain'
    <2>1. /\ qh' = [qh EXCEPT ![b] = Transfer(1, address, 0)] /\ step = "endpoints"
          /\ UNCHANGED <<dev, mishap, next_usb_address, step, port, address>>
          /\ \A c \in Bufs \ {b} : mem'[c] = "endpoint" => mem[c] = "endpoint"
      BY <1>9 DEF configure_endpoint, AtStep, Strong, Types
    <2>2. TransferOK(Transfer(1, address, 0)) /\ Transfer(1, address, 0).value = 0 BY DEF TransferOK, Transfer
    <2>3. DOMAIN qh' = Bufs /\ qh'[b] = Transfer(1, address, 0) /\ \A c \in Bufs \ {b} : qh'[c] = qh[c]
      BY <2>1 DEF AddressInv, AddressTypes
    <2>4. \A c \in Bufs : TransferOK(qh'[c]) /\ (Pending(c)' => Pending(c) /\ qh'[c].value = qh[c].value)
      BY <2>2, <2>3 DEF Pending, AddressInv, AddressTypes
    <2>5. AddressInv' BY <2>1, <2>3, <2>4, EasedKeeps
    <2>6. EndpointsPlain' BY <2>1, <2>2, <2>3 DEF EndpointsPlain
    <2> QED BY <2>5, <2>6
  <1>10. CASE anchor_installed \/ anchor_started \/ link_qh \/ link_error \/ transfer_waited \/ unlink_qh
              \/ unlink_error \/ transfer_read
    BY <1>10, <1>p, QuietKeeps
    DEF anchor_installed, anchor_started, link_qh, link_error, transfer_waited, unlink_qh, unlink_error,
        transfer_read, Halted, NotHalted, Running, NotRunning, Return
  <1>11. CASE anchor_timeout
    <2>1. /\ mem' = [mem EXCEPT ![anchor] = "free"] /\ qh' = [qh EXCEPT ![anchor] = Blank] /\ pc' = "ready"
          /\ UNCHANGED <<dev, mishap, next_usb_address, step, port, address>>
      BY <1>11 DEF anchor_timeout, Free
    <2>2. AddressInv' BY <2>1, FreedTransfer, EasedKeeps DEF AddressInv
    <2>3. EndpointsPlain' BY <2>1 DEF EndpointsPlain, AddressInv, AddressTypes, Strong, Types
    <2> QED BY <2>2, <2>3
  <1>12. ASSUME NEW b \in Bufs, usb_transfer(b) PROVE AddressInv' /\ EndpointsPlain'
    <2>1. /\ qh' = [qh EXCEPT ![b].done = 0, ![b].halted = FALSE] /\ mem[b] = "endpoint"
          /\ UNCHANGED <<mem, dev, mishap, next_usb_address, step, port, address>>
      BY <1>12 DEF usb_transfer
    <2>2. step = "reset"
      BY <1>12, UsbAssumption DEF usb_transfer, AddressInv, AddressTypes, Ports
    <2>3. TransferOK(qh[b]) /\ qh[b].value = 0 BY <2>1 DEF AddressInv, AddressTypes, EndpointsPlain
    <2> DEFINE r == [qh[b] EXCEPT !.done = 0, !.halted = FALSE]
    <2>4. DOMAIN qh' = Bufs /\ qh'[b] = r /\ \A c \in Bufs \ {b} : qh'[c] = qh[c]
      BY <2>1 DEF AddressInv, AddressTypes
    <2>5. r.n = qh[b].n /\ r.done = 0 /\ r.value = 0 /\ DOMAIN r = DOMAIN qh[b] BY <2>3 DEF TransferOK
    <2> HIDE DEF r
    <2>6. TransferOK(r)
      <3>1. r.done \in 0 .. r.n BY <2>3, <2>5 DEF TransferOK
      <3> QED BY <2>3, <2>5, <3>1 DEF TransferOK
    <2>7. \A c \in Bufs : /\ TransferOK(qh'[c]) /\ qh'[c].value = qh[c].value
                          /\ Pending(c)' => Pending(c)
      BY <2>3, <2>4, <2>5, <2>6 DEF Pending, AddressInv, AddressTypes
    <2>8. AddressInv' BY <2>1, <2>2, <2>4, <2>7, EasedKeeps
    <2> QED BY <2>1, <2>7, <2>8 DEF EndpointsPlain
  <1>13. CASE hc_stage \/ hc_fails
    <2>1. hc \in Bufs
      <3>1. hc # Nil BY <1>13 DEF hc_stage, hc_fails
      <3>2. cur \in Bufs \/ pc \notin Installed BY DEF Strong, Types, Installed, ControlTransfer
      <3> QED BY <3>1, <3>2, ListHeld DEF Strong, FrameOK
    <2>2. AddressInv' BY <1>13, <2>1, StageKeeps, FailKeeps DEF hc_stage, hc_fails, driver
    <2>3. UNCHANGED mem /\ \A c \in Bufs : qh'[c].value = qh[c].value
      <3>1. CASE hc_stage
        <4>1. UNCHANGED mem BY <3>1 DEF hc_stage, driver
        <4>2. PICK f : qh' = [qh EXCEPT ![hc].done = @ + 1, ![hc].flagged = @ \/ f]
          BY <3>1 DEF hc_stage, StageDone
        <4> QED BY <2>1, <4>1, <4>2 DEF AddressInv, AddressTypes, TransferOK
      <3>2. CASE hc_fails
        BY <2>1, <3>2 DEF hc_fails, StageFails, driver, AddressInv, AddressTypes, TransferOK
      <3> QED BY <1>13, <3>1, <3>2
    <2> QED BY <2>2, <2>3 DEF EndpointsPlain
  <1>14. CASE hc_next \/ hc_halts \/ hc_starts \/ UNCHANGED vars
    BY <1>14, <1>p, QuietKeeps DEF hc_next, hc_halts, hc_starts, driver, vars, coreVars
  <1>15. CASE \E p \in Ports : connect_change(p) /\ UNCHANGED bus
    BY <1>15, <1>p, ConnectKeeps DEF connect_change
  <1> QED
    BY <1>1, <1>2, <1>3, <1>4, <1>5, <1>6, <1>7, <1>8, <1>9, <1>10, <1>11, <1>12, <1>13, <1>14, <1>15 DEF Next

(* the addresses when nothing changes *)
LEMMA AddressStutter == EndpointsPlain /\ AddressInv /\ UNCHANGED vars => AddressInv' /\ EndpointsPlain'
  BY QuietKeeps DEF vars, coreVars, scan, addresses, EndpointsPlain
=============================================================================
