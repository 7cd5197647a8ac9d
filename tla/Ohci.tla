--------------------------------- MODULE Ohci ---------------------------------
(***************************************************************************)
(* Enumeration over an OHCI controller (drivers/usb/ohci.cpp).  For each   *)
(* control transfer the driver makes one endpoint descriptor (ED) the head *)
(* of the control list, enables the list and polls.  Then it marks the ED  *)
(* to be skipped, disables the list, waits for the next frame and for the  *)
(* done queue to return the transfer descriptors (TDs) it watches, and     *)
(* frees the buffer.  Where that fails the buffer stays in                 *)
(* controller.cached for ever.                                             *)
(*                                                                         *)
(* The controller looks at CLE at the start of a frame.  TDs it is done    *)
(* with gather in HcDoneHead; it publishes them in the HCCA, and not again *)
(* before the driver has cleared WDH.                                      *)
(***************************************************************************)
EXTENDS UsbCore

CONSTANT DataTds   \* 1 or more TDs of the data stage of a packet, one for each max_packet_size bytes

VARIABLES
  cle, enabled,  \* CLE of HcControl; what the controller saw of it at the last frame
  control_head,  \* HcControlHeadED, Nil when 0
  old_head,      \* its value before the transfer
  skip,          \* EDs with the skip bit
  work,          \* the ED the controller has fetched in this frame, or Nil
  done, hcca,    \* the TDs <<buffer, number>> in HcDoneHead; those published (WDH is set if any)
  retired,       \* the TDs of this transfer that the driver has met in a done queue
  ticked         \* the frame number is not the one that stop_control_schedule has read

heads == <<control_head, old_head, skip>>
queue == <<done, hcca>>
bus == <<cle, enabled, heads, work, queue, retired, ticked>>
vars == <<coreVars, bus>>

Init ==
  /\ CoreInit
  /\ cle = FALSE /\ enabled = FALSE /\ control_head = Nil /\ old_head = Nil /\ skip = {} /\ work = Nil
  /\ done = {} /\ hcca = {} /\ retired = {} /\ ticked = FALSE

-----------------------------------------------------------------------------
IdentifyEd == Transfer(3, 0, 0)
SetAddressEd(a) == Transfer(2, 0, a)
DescriptorEd(a) == Transfer(3, a, 0)
PacketEd(s, a) == Transfer(IF s = "setconf" THEN 2 ELSE 2 + DataTds, a, 0)

Request(s, a) ==
  CASE s = "identify" -> IdentifyEd
    [] s = "address" -> SetAddressEd(a)
    [] s = "descriptor" -> DescriptorEd(a)
    [] OTHER -> PacketEd(s, a)

(* the TDs whose condition code is not NotAccessed any more *)
Accessed(b) == 1 .. (qh[b].done + IF qh[b].halted THEN 1 ELSE 0)

(* ohci_transfer_watch: the setup TD, the first data TD and the status TD *)
Watched(b) == {1, 2, qh[b].n}

reset_port ==
  /\ AtStep("reset")
  /\ \/ ResetOk /\ Proceed
     \/ ResetFails /\ GiveUp
  /\ UNCHANGED <<mem, qh, bus, next_usb_address>>

(* allocate_dma fails, or gives a buffer above 4 GB, which set_address forgets *)
AllocFails ==
  /\ AtTransfer
  /\ \/ UNCHANGED mem
     \/ /\ step \in {"address", "descriptor"}
        /\ \E b \in Bufs : mem[b] = "free" /\ mem' = [mem EXCEPT ![b] = "leaked"]
  /\ GiveUp
  /\ UNCHANGED <<qh, bus, dev, next_usb_address, mishap>>

(* CLE is clear between two transfers, so stop_control_schedule does not wait here *)
submit(b) ==
  /\ Take(b)
  /\ qh' = [qh EXCEPT ![b] = Request(step, address')]
  /\ old_head' = control_head /\ control_head' = b /\ cle' = TRUE
  /\ skip' = skip \ {b} /\ retired' = {} /\ pc' = "wait"
  /\ UNCHANGED <<dev, scan, result, mishap, enabled, work, queue, ticked>>

(* The published TDs are walked and noted, then WDH is cleared.  The walk is *)
(* given up at a TD for which dma_phys_to_virt finds no mapping: one that    *)
(* was freed, or one behind an unmapped page of the pool.                    *)
process_done_queue ==
  /\ \A t \in hcca : mem[t[1]] # "free"
  /\ retired' = retired \cup {i \in Watched(cur) : <<cur, i>> \in hcca}
  /\ hcca' = {}

poll_done_queue ==
  /\ pc = "wait" /\ hcca # {} /\ process_done_queue
  /\ UNCHANGED <<mem, qh, dev, pc, scan, cur, result, addresses, mishap, cle, enabled, heads, work, done, ticked>>

(* the ED halted, its last TD is done, or 100 ms are gone *)
wait_for_descriptor ==
  /\ pc = "wait"
  /\ result' = CASE qh[cur].halted -> "error"
                 [] qh[cur].done = qh[cur].n -> "success"
                 [] OTHER -> "timeout"
  /\ pc' = "skip"
  /\ UNCHANGED <<mem, qh, bus, dev, scan, cur, addresses, mishap>>

(* mutant of skip_ed: the ED is not marked *)
SkipNothing ==
  /\ pc = "skip" /\ ticked' = FALSE /\ pc' = "disable"
  /\ UNCHANGED <<mem, qh, dev, scan, cur, result, addresses, mishap, cle, enabled, heads, work, queue, retired>>

(* the ED is marked, then the frame number is read *)
skip_ed ==
  /\ pc = "skip" /\ skip' = skip \cup {cur} /\ ticked' = FALSE /\ pc' = "disable"
  /\ UNCHANGED <<mem, qh, dev, scan, cur, result, addresses, mishap, cle, enabled, control_head, old_head, work, queue, retired>>

stop_control_schedule ==
  /\ pc = "disable" /\ cle' = FALSE /\ pc' = "frame"
  /\ UNCHANGED <<mem, qh, dev, scan, cur, result, addresses, mishap, enabled, heads, work, queue, retired, ticked>>

wait_for_next_frame ==
  /\ pc = "frame" /\ ticked /\ ticked' = FALSE /\ pc' = "reap"
  /\ UNCHANGED <<mem, qh, dev, scan, cur, result, addresses, mishap, cle, enabled, heads, work, queue, retired>>

(* the buffer goes to controller.cached and the port is given up *)
Quarantine ==
  /\ mem' = [mem EXCEPT ![cur] = "cached"] /\ GiveUp
  /\ old_head' = Nil /\ retired' = {}
  /\ UNCHANGED <<qh, dev, next_usb_address, mishap, cle, enabled, control_head, skip, work, queue, ticked>>

frame_timeout ==
  /\ pc = "frame" /\ ~ticked /\ Quarantine

(* one look at the done queue; the old head is put back once all watched TDs are accounted for *)
wait_for_transfer_reap ==
  /\ pc = "reap" /\ process_done_queue
  /\ IF Accessed(cur) \cap Watched(cur) \subseteq retired'
     THEN control_head' = old_head /\ pc' = "restored"
     ELSE UNCHANGED <<control_head, pc>>
  /\ UNCHANGED <<mem, qh, dev, scan, cur, result, addresses, mishap, cle, enabled, old_head, skip, work, done, ticked>>

(* the walk failed, or 20 ms are gone *)
reap_timeout ==
  /\ pc = "reap" /\ (hcca # {} \/ ~(Accessed(cur) \cap Watched(cur) \subseteq retired))
  /\ Quarantine

identify_ends == identify_done
set_address_ends == address_done
get_descriptor_ends == descriptor_done(ResetFails)
packet_ends == packet_done

transfer_done ==
  /\ pc = "restored"
  /\ Free(cur) /\ old_head' = Nil /\ skip' = skip \ {cur} /\ retired' = {}
  /\ identify_ends \/ set_address_ends \/ get_descriptor_ends \/ packet_ends
  /\ UNCHANGED <<cle, enabled, control_head, work, queue, ticked>>

(* one buffer for each endpoint; those taken before a failure are kept *)
configure_endpoints ==
  /\ AtStep("endpoints")
  /\ \E S \in SUBSET {b \in Bufs : mem[b] = "free"} :
       /\ Cardinality(S) <= MaxEndpoints
       /\ mem' = [b \in Bufs |-> IF b \in S THEN "endpoint" ELSE mem[b]]
  /\ PortDone
  /\ UNCHANGED <<qh, bus, dev, next_usb_address, mishap>>

-----------------------------------------------------------------------------
(* the controller *)
driver == <<mem, pc, scan, cur, result, addresses, cle, heads, retired>>

(* a frame starts: the work of the last one is over, and CLE counts *)
hc_frame ==
  /\ ticked' = (pc \in {"disable", "frame"}) /\ enabled' = cle /\ work' = Nil
  /\ UNCHANGED <<qh, dev, mishap, queue, driver>>

hc_fetch ==
  /\ enabled /\ control_head # Nil /\ control_head \notin skip /\ ~Finished(qh[control_head])
  /\ work' = control_head
  /\ UNCHANGED <<qh, dev, mishap, enabled, queue, ticked, driver>>

Retire == done' = done \cup {<<work, qh[work].done + 1>>}

hc_stage ==
  /\ work # Nil /\ StageDone(work, FALSE) /\ Retire
  /\ UNCHANGED <<enabled, work, hcca, ticked, driver>>

hc_halt ==
  /\ work # Nil /\ StageFails(work) /\ Retire
  /\ UNCHANGED <<enabled, work, hcca, ticked, driver>>

hc_publish ==
  /\ hcca = {} /\ done # {} /\ hcca' = done /\ done' = {}
  /\ UNCHANGED <<qh, dev, mishap, enabled, work, ticked, driver>>

Next ==
  \/ reset_port \/ AllocFails \/ (NoAddressLeft /\ UNCHANGED bus) \/ \E b \in Bufs : submit(b)
  \/ poll_done_queue \/ wait_for_descriptor \/ skip_ed \/ stop_control_schedule
  \/ wait_for_next_frame \/ frame_timeout \/ wait_for_transfer_reap \/ reap_timeout
  \/ transfer_done \/ configure_endpoints
  \/ hc_frame \/ hc_fetch \/ hc_stage \/ hc_halt \/ hc_publish
  \/ \E p \in Ports : connect_change(p) /\ UNCHANGED bus

Spec == Init /\ [][Next]_vars

-----------------------------------------------------------------------------
TypeOK ==
  /\ CoreTypeOK
  /\ {cle, enabled, ticked} \subseteq BOOLEAN
  /\ {control_head, old_head, work} \subseteq Bufs \cup {Nil} /\ skip \subseteq Bufs
  /\ done \cup hcca \subseteq Bufs \X (1 .. 4) /\ retired \subseteq 1 .. 4
  /\ pc \in {"ready", "wait", "skip", "disable", "frame", "reap", "restored"}

(* The comment in restore_control_schedule: "Make sure no retired TD from   *)
(* our allocation remains linked in an unconsumed DoneHead queue."          *)
NoRetiredTdLeft == \A t \in done \cup hcca : mem[t[1]] # "free"

(* Neither the control list, nor the ED at work, nor a done queue leads the *)
(* controller or the driver into a freed buffer, even when the frame number *)
(* changes between its reading and the clearing of CLE, and the control     *)
(* list is off between two transfers.                                       *)
NoUseAfterFree ==
  /\ NoRetiredTdLeft
  /\ \A x \in {control_head, old_head, work} : x # Nil => mem[x] # "free"
  /\ pc = "ready" => ~cle
=============================================================================
