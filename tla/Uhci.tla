--------------------------------- MODULE Uhci ---------------------------------
(***************************************************************************)
(* Enumeration and bulk transfers over a UHCI controller                   *)
(* (drivers/usb/uhci.cpp).  The driver changes the frame list only while   *)
(* the controller is halted: for a control transfer it halts, points all   *)
(* entries at the transfer's queue head, starts, waits, halts, puts the    *)
(* old entries back and starts again.  Each wait for HCHalted gives up     *)
(* after 100 ms, and the buffer is freed on every path.                    *)
(*                                                                         *)
(* All 1024 entries of the frame list always have the same value.          *)
(***************************************************************************)
EXTENDS UsbCore

VARIABLES
  run, halted,  \* RS of USBCMD; HCHalted of USBSTS
  frame_list,   \* the queue head that every entry points to, or Nil
  backup,       \* the entries saved before a transfer
  anchor,       \* the queue head that endpoints are linked after, or Nil
  link,         \* head_link of the queue heads
  scheduled,    \* the endpoints with ep.scheduled
  hc,           \* the queue head the controller works on, or Nil
  toggled,      \* the endpoints whose data_toggle is 1
  received,     \* the endpoints whose device expects DATA1
  late,         \* history: buffers freed while the frame list pointed to them
  left          \* history: endpoints whose last call ended in LINK_ERROR or UNLINK_ERROR

lists == <<anchor, link, scheduled>>
toggles == <<toggled, received>>
history == <<late, left>>
bus == <<run, halted, frame_list, backup, lists, hc, toggles, history>>
vars == <<coreVars, bus>>

(* the queue heads from x on, and Nil if the list ends: the least set with x *)
(* in it that has with a queue head the one it links to                      *)
Closed(C) == \A y \in C \ {Nil} : link[y] \in C
Reach(x) ==
  LET paths == {C \in SUBSET (Bufs \cup {Nil}) : x \in C /\ Closed(C)}
  IN  {y \in Bufs \cup {Nil} : \A C \in paths : y \in C}

Init ==
  /\ CoreInit
  /\ run = TRUE /\ halted = FALSE /\ frame_list = Nil /\ backup = Nil /\ anchor = Nil
  /\ link = [b \in Bufs |-> Nil] /\ scheduled = {} /\ hc = Nil
  /\ toggled = {} /\ received = {} /\ late = {} /\ left = {}

-----------------------------------------------------------------------------
(* the transfers: setup, one stage for all data packets, status *)
IdentifyQh == Transfer(3, 0, 0)
SetAddressQh(a) == Transfer(2, 0, a)
DescriptorQh(a) == Transfer(3, a, 0)
PacketQh(s, a) == Transfer(IF s = "setconf" THEN 2 ELSE 3, a, 0)

Request(s, a) ==
  CASE s = "identify" -> IdentifyQh
    [] s = "address" -> SetAddressQh(a)
    [] s = "descriptor" -> DescriptorQh(a)
    [] OTHER -> PacketQh(s, a)

reset_port ==
  /\ AtStep("reset")
  /\ \/ ResetOk /\ Proceed
     \/ ResetLeaves /\ GiveUp
  /\ UNCHANGED <<mem, qh, bus, next_usb_address>>

(* allocate_dma fails, or the buffer lies above 4 GB and is freed at once *)
AllocFails ==
  /\ AtTransfer /\ GiveUp
  /\ UNCHANGED <<mem, qh, bus, dev, next_usb_address, mishap>>

(* the queue head is filled in and RS is cleared *)
submit(b) ==
  /\ Take(b)
  /\ qh' = [qh EXCEPT ![b] = Request(step, address')]
  /\ link' = [link EXCEPT ![b] = Nil]
  /\ run' = FALSE /\ pc' = "halt"
  /\ UNCHANGED <<halted, frame_list, backup, anchor, scheduled, hc, toggles, history, dev, scan, result, mishap>>

(* wait_for_halted and wait_for_start have a last look after 100 ms *)
Halted(at) == pc = at /\ halted
NotHalted(at) == pc = at /\ ~halted
Running(at) == pc = at /\ ~halted
NotRunning(at) == pc = at /\ halted

(* set_address keeps the entries it saved for its second transfer, the descriptor *)
install ==
  /\ Halted("halt")
  /\ backup' = IF step = "descriptor" THEN backup ELSE frame_list
  /\ frame_list' = cur /\ run' = TRUE /\ pc' = "start"
  /\ UNCHANGED <<mem, qh, dev, scan, cur, result, addresses, mishap, halted, lists, hc, toggles, history>>

(* the controller did not halt before the transfer: RS stays clear *)
install_timeout ==
  /\ NotHalted("halt")
  /\ Free(cur) /\ GiveUp
  /\ UNCHANGED <<dev, next_usb_address, mishap, bus>>

started ==
  /\ Running("start")
  /\ pc' = "wait"
  /\ UNCHANGED <<mem, qh, dev, scan, cur, result, addresses, mishap, bus>>

(* It did not start again, or did not halt again: the buffer is freed, and   *)
(* the frame list still points to it.  That is a mishap: what the transfer   *)
(* does, and what is put into the buffer next, is out of the driver's hands. *)
FreeLate == mem' = [mem EXCEPT ![cur] = "free"] /\ late' = late \cup {cur} /\ mishap' = TRUE /\ backup' = Nil

start_timeout ==
  /\ NotRunning("start")
  /\ FreeLate /\ GiveUp
  /\ UNCHANGED <<qh, dev, next_usb_address, run, halted, frame_list, lists, hc, toggles, left>>

(* A short packet before the last data packet stops the queue; the driver    *)
(* then points the queue head at the status stage (flagged: the queue stops) *)
resume_status ==
  /\ pc = "wait" /\ qh[cur].flagged
  /\ qh' = [qh EXCEPT ![cur].flagged = FALSE]
  /\ UNCHANGED <<mem, dev, pc, scan, cur, result, addresses, mishap, bus>>

(* an error on a stage that is over, the status stage over, or 100 ms gone; RS is cleared *)
wait_for_control_transfer ==
  /\ pc = "wait"
  /\ result' = CASE qh[cur].halted -> "error"
                 [] qh[cur].done = qh[cur].n -> "success"
                 [] OTHER -> "timeout"
  /\ run' = FALSE /\ pc' = "stop"
  /\ UNCHANGED <<mem, qh, dev, scan, cur, addresses, mishap, halted, frame_list, backup, lists, hc, toggles, history>>

(* identify_device has copied the answer by then and get_device goes on with it *)
stop_timeout ==
  /\ NotHalted("stop")
  /\ FreeLate
  /\ \/ GiveUp
     \/ step = "identify" /\ result = "success" /\ Proceed
  /\ UNCHANGED <<qh, dev, next_usb_address, run, halted, frame_list, lists, hc, toggles, left>>

(* mutant of restore: the old entries stay away *)
RestoreNothing ==
  /\ Halted("stop")
  /\ run' = TRUE /\ pc' = "restart"
  /\ UNCHANGED <<mem, qh, dev, scan, cur, result, addresses, mishap, halted, frame_list, backup, lists, hc, toggles, history>>

restore ==
  /\ Halted("stop")
  /\ frame_list' = backup /\ run' = TRUE /\ pc' = "restart"
  /\ UNCHANGED <<mem, qh, dev, scan, cur, result, addresses, mishap, halted, backup, lists, hc, toggles, history>>

(* A controller that does not start any more fails a SET_ADDRESS and a     *)
(* packet that went well; elsewhere it is only reported.                   *)
restart_failed ==
  /\ NotRunning("restart") /\ result = "success" /\ step \notin {"identify", "descriptor"}
  /\ Free(cur) /\ GiveUp /\ backup' = Nil
  /\ UNCHANGED <<dev, next_usb_address, mishap, run, halted, frame_list, lists, hc, toggles, history>>

identify_ends == identify_done
set_address_ends == address_done
get_descriptor_ends == descriptor_done(ResetLeaves)
packet_ends == packet_done

transfer_done ==
  /\ pc = "restart" /\ (~halted \/ result # "success" \/ step \in {"identify", "descriptor"})
  /\ Free(cur)
  /\ identify_ends \/ set_address_ends \/ get_descriptor_ends \/ packet_ends
  /\ backup' = IF step' = "descriptor" THEN backup ELSE Nil
  /\ UNCHANGED <<run, halted, frame_list, lists, hc, toggles, history>>

-----------------------------------------------------------------------------
(* a buffer for an endpoint; the first endpoint of all brings the anchor, *)
(* whose absence configure_endpoint does not report                       *)
EndpointsOfPort == Cardinality({b \in Bufs : mem[b] = "endpoint"}) < MaxEndpoints

configure_endpoint(b) ==
  /\ AtStep("endpoints") /\ EndpointsOfPort /\ mem[b] = "free"
  /\ link' = [link EXCEPT ![b] = Nil]
  /\ qh' = [qh EXCEPT ![b] = Transfer(1, address, 0)]
  /\ toggled' = toggled \ {b} /\ received' = received \ {b}
  /\ \/ /\ mem' = [mem EXCEPT ![b] = "endpoint"]
        /\ UNCHANGED <<pc, anchor, run>>
     \/ /\ anchor = Nil
        /\ \E a \in Bufs \ {b} : /\ mem[a] = "free" /\ anchor' = a
                                  /\ mem' = [mem EXCEPT ![b] = "endpoint", ![a] = "anchor"]
        /\ run' = FALSE /\ pc' = "anchor_halt"
  /\ UNCHANGED <<dev, scan, cur, result, addresses, mishap, halted, frame_list, backup, scheduled, hc, history>>

anchor_installed ==
  /\ Halted("anchor_halt")
  /\ frame_list' = anchor /\ link' = [link EXCEPT ![anchor] = Nil]
  /\ run' = TRUE /\ pc' = "anchor_start"
  /\ UNCHANGED <<mem, qh, dev, scan, cur, result, addresses, mishap, halted, backup, anchor, scheduled, hc, toggles, history>>

anchor_timeout ==
  /\ NotHalted("anchor_halt")
  /\ Free(anchor) /\ anchor' = Nil /\ pc' = "ready"
  /\ UNCHANGED <<dev, scan, cur, result, addresses, mishap, run, halted, frame_list, backup, link, scheduled, hc, toggles, history>>

(* started, or 100 ms gone *)
anchor_started ==
  /\ pc = "anchor_start" /\ pc' = "ready"
  /\ UNCHANGED <<mem, qh, dev, scan, cur, result, addresses, mishap, bus>>

(* every endpoint has its buffer, or one could not get it *)
configure_endpoints ==
  /\ AtStep("endpoints") /\ PortDone
  /\ UNCHANGED <<mem, qh, dev, next_usb_address, mishap, bus>>

-----------------------------------------------------------------------------
(* The caller of usb_transfer waits for its whole time limit whatever the *)
(* controller does; the descriptor is looked at after it was unlinked.    *)
usb_transfer(b) ==
  /\ pc = "ready" /\ port > NPorts /\ found # {} /\ mem[b] = "endpoint" /\ anchor # Nil
  /\ qh' = [qh EXCEPT ![b].done = 0, ![b].halted = FALSE]
  /\ cur' = b /\ run' = FALSE /\ pc' = "link_halt"
  /\ UNCHANGED <<mem, dev, scan, result, addresses, mishap, halted, frame_list, backup, lists, hc, toggles, history>>

link_qh ==
  /\ Halted("link_halt")
  /\ link' = [link EXCEPT ![cur] = link[anchor], ![anchor] = cur]
  /\ scheduled' = scheduled \cup {cur} /\ run' = TRUE /\ pc' = "link_start"
  /\ UNCHANGED <<mem, qh, dev, scan, cur, result, addresses, mishap, halted, frame_list, backup, anchor, hc, toggles, history>>

(* not halted: nothing was linked; not started: ep.scheduled is cleared, and *)
(* the queue head stays linked                                               *)
link_error ==
  /\ NotHalted("link_halt") \/ NotRunning("link_start")
  /\ scheduled' = scheduled \ (IF pc = "link_start" THEN {cur} ELSE {})
  /\ left' = left \cup {cur} /\ Return
  /\ UNCHANGED <<mem, qh, dev, scan, addresses, mishap, run, halted, frame_list, backup, anchor, link, hc, toggles, late>>

(* the time is up, RS is cleared *)
transfer_waited ==
  /\ Running("link_start")
  /\ run' = FALSE /\ pc' = "unlink_halt"
  /\ UNCHANGED <<mem, qh, dev, scan, cur, result, addresses, mishap, halted, frame_list, backup, lists, hc, toggles, history>>

(* the first queue head on the way from the anchor that points to b *)
Before(b) == IF link[anchor] = b THEN anchor ELSE CHOOSE x \in Reach(anchor) \ {Nil} : link[x] = b

(* mutant of unlink_qh: the queue head before it keeps its link *)
UnlinkHalf ==
  /\ Halted("unlink_halt")
  /\ scheduled' = scheduled \ {cur}
  /\ link' = [link EXCEPT ![cur] = Nil]
  /\ run' = TRUE /\ pc' = "unlink_start"
  /\ UNCHANGED <<mem, qh, dev, scan, cur, result, addresses, mishap, halted, frame_list, backup, anchor, hc, toggles, history>>

unlink_qh ==
  /\ Halted("unlink_halt") /\ cur \in Reach(link[anchor])
  /\ scheduled' = scheduled \ {cur}
  /\ link' = [[link EXCEPT ![Before(cur)] = link[cur]] EXCEPT ![cur] = Nil]
  /\ run' = TRUE /\ pc' = "unlink_start"
  /\ UNCHANGED <<mem, qh, dev, scan, cur, result, addresses, mishap, halted, frame_list, backup, anchor, hc, toggles, history>>

unlink_error ==
  /\ NotHalted("unlink_halt") \/ NotRunning("unlink_start")
  /\ left' = left \cup {cur} /\ Return
  /\ UNCHANGED <<mem, qh, dev, scan, addresses, mishap, run, halted, frame_list, backup, lists, hc, toggles, late>>

(* data_toggle changes if the descriptor was carried out *)
transfer_read ==
  /\ Running("unlink_start")
  /\ toggled' = IF qh[cur].done = 1 THEN (toggled \cup {cur}) \ (toggled \cap {cur}) ELSE toggled
  /\ Return
  /\ UNCHANGED <<mem, qh, dev, scan, addresses, mishap, run, halted, frame_list, backup, lists, hc, received, history>>

-----------------------------------------------------------------------------
(* the controller *)
driver == <<mem, pc, scan, cur, result, addresses, run, frame_list, backup, lists, toggled, history>>

(* the next frame begins at the frame list, the next queue head follows its link *)
hc_next ==
  /\ ~halted
  /\ hc' = IF hc = Nil THEN frame_list ELSE link[hc]
  /\ UNCHANGED <<qh, dev, mishap, halted, received, driver>>

(* a bulk transfer that is carried out changes what its device expects *)
hc_stage ==
  /\ hc # Nil /\ hc # anchor /\ ~qh[hc].flagged
  /\ \E short \in BOOLEAN : /\ short => qh[hc].n = 3 /\ qh[hc].done = 1
                            /\ StageDone(hc, short)
  /\ received' = IF qh[hc].n = 1 THEN (received \cup {hc}) \ (received \cap {hc}) ELSE received
  /\ UNCHANGED <<halted, hc, driver>>

hc_fails ==
  /\ hc # Nil /\ hc # anchor /\ ~qh[hc].flagged /\ StageFails(hc)
  /\ UNCHANGED <<halted, hc, received, driver>>

(* it halts after the transaction in progress, and starts with a new frame *)
hc_halts ==
  /\ ~run /\ ~halted /\ halted' = TRUE /\ hc' = Nil
  /\ UNCHANGED <<qh, dev, mishap, received, driver>>

hc_starts ==
  /\ run /\ halted /\ halted' = FALSE
  /\ UNCHANGED <<qh, dev, mishap, hc, received, driver>>

Next ==
  \/ reset_port \/ AllocFails \/ (NoAddressLeft /\ UNCHANGED bus) \/ \E b \in Bufs : submit(b)
  \/ install \/ install_timeout \/ started \/ start_timeout \/ resume_status
  \/ wait_for_control_transfer \/ stop_timeout \/ restore \/ restart_failed \/ transfer_done
  \/ \E b \in Bufs : configure_endpoint(b)
  \/ anchor_installed \/ anchor_timeout \/ anchor_started \/ configure_endpoints
  \/ \E b \in Bufs : usb_transfer(b)
  \/ link_qh \/ link_error \/ transfer_waited \/ unlink_qh \/ unlink_error \/ transfer_read
  \/ hc_next \/ hc_stage \/ hc_fails \/ hc_halts \/ hc_starts
  \/ \E p \in Ports : connect_change(p) /\ UNCHANGED bus

Spec == Init /\ [][Next]_vars

-----------------------------------------------------------------------------
TypeOK ==
  /\ CoreTypeOK
  /\ {frame_list, backup, anchor, hc} \subseteq Bufs \cup {Nil} /\ {run, halted} \subseteq BOOLEAN
  /\ link \in [Bufs -> Bufs \cup {Nil}]
  /\ scheduled \cup toggled \cup received \cup late \cup left \subseteq Bufs
  /\ pc \in {"ready", "halt", "start", "wait", "stop", "restart", "anchor_halt", "anchor_start",
             "link_halt", "link_start", "unlink_halt", "unlink_start"}

(* A queue head the controller works on, or comes to from the frame list,   *)
(* lies in a freed buffer only if that buffer's transfer was given up when  *)
(* the controller failed to halt or to start while it was in the frame list *)
NoUseAfterFree ==
  \A x \in {hc} \cup Reach(frame_list) : x \in Bufs => mem[x] # "free" \/ x \in late

(* Between two calls the schedule holds nothing but the anchor and what the *)
(* calls that gave up left in it, and host and device agree on the toggle   *)
(* of every endpoint whose transfers were all linked and unlinked in time.  *)
BetweenCalls ==
  pc = "ready" =>
    /\ ({hc} \cup Reach(frame_list)) \ {Nil, anchor} \subseteq late \cup left
    /\ \A b \in Bufs \ (left \cup late) : mem[b] = "endpoint" => (b \in toggled <=> b \in received)
=============================================================================
