--------------------------------- MODULE Ehci ---------------------------------
(***************************************************************************)
(* Enumeration over an EHCI controller (drivers/usb/ehci.cpp).  For each   *)
(* control transfer the driver links a queue head into the asynchronous    *)
(* schedule, polls it with a time limit, unlinks it, rings the doorbell    *)
(* and waits for the controller to let go of it; then it frees the buffer. *)
(* Where that fails the buffer is kept in controller.cached for ever.      *)
(*                                                                         *)
(* The controller walks the schedule all the time.  It holds the queue     *)
(* head it works on and the link it read from that one; a link can change  *)
(* in memory after it was read.                                            *)
(***************************************************************************)
EXTENDS UsbCore

CONSTANT async_head   \* the queue head that is always in the schedule

ASSUME EhciAssumption == async_head \notin Bufs \cup {Nil}

VARIABLES
  next,   \* horizontal_link of async_head and of the queue heads
  bell,   \* IAAD and IAA: "idle", "rung", "answered"
  hc      \* the queue head the controller holds, and the link read from it

bus == <<next, bell, hc>>
vars == <<coreVars, bus>>

-----------------------------------------------------------------------------
(* setup and status stage, and one between them when there is data to read *)
IdentifyQh == Transfer(3, 0, 0)
SetAddressQh(a) == Transfer(2, 0, a)
DescriptorQh(a) == Transfer(3, a, 0)
PacketQh(s, a) == Transfer(IF s = "setconf" THEN 2 ELSE 3, a, 0)

Request(s, a) ==
  CASE s = "identify" -> IdentifyQh
    [] s = "address" -> SetAddressQh(a)
    [] s = "descriptor" -> DescriptorQh(a)
    [] OTHER -> PacketQh(s, a)

(* the stage that failed is not active, but the stages after it still are *)
Active(q) == IF q.halted THEN q.done + 1 < q.n ELSE q.done < q.n

(* the queue heads met on the way from x back to async_head: the least set *)
(* with x in it that has with a queue head its successor                   *)
Heads == Bufs \cup {async_head, Nil}
Closed(C) == \A y \in C \ {async_head, Nil} : next[y] \in C
Reach(x) ==
  LET paths == {C \in SUBSET Heads : x \in C /\ Closed(C)}
  IN  {y \in Heads : \A C \in paths : y \in C}
Linked == {async_head} \cup Reach(next[async_head])

Init ==
  /\ CoreInit
  /\ next = [x \in Bufs \cup {async_head} |-> IF x = async_head THEN async_head ELSE Nil]
  /\ bell = "idle" /\ hc = [at |-> async_head, nxt |-> async_head]

-----------------------------------------------------------------------------
reset_port ==
  /\ AtStep("reset")
  /\ \/ ResetOk /\ Proceed
     \/ ResetFails /\ GiveUp
  /\ UNCHANGED <<mem, qh, bus, next_usb_address>>

(* allocate_dma fails, or gives a buffer above 4 GB, which identify_device forgets *)
AllocFails ==
  /\ AtTransfer
  /\ \/ UNCHANGED mem
     \/ /\ step = "identify"
        /\ \E b \in Bufs : mem[b] = "free" /\ mem' = [mem EXCEPT ![b] = "leaked"]
  /\ GiveUp
  /\ UNCHANGED <<qh, bus, dev, next_usb_address, mishap>>

(* mutant of insert_async_qh: the new queue head keeps its terminate link *)
InsertAlone(b) == next' = [next EXCEPT ![b] = Nil, ![async_head] = b]

(* the queue head takes over the head's successor before the head points to it *)
insert_async_qh(b) == next' = [next EXCEPT ![b] = next[async_head], ![async_head] = b]

submit(b) ==
  /\ Take(b)
  /\ qh' = [qh EXCEPT ![b] = Request(step, address')]
  /\ insert_async_qh(b)
  /\ pc' = "wait"
  /\ UNCHANGED <<bell, hc, dev, scan, result, mishap>>

(* an error on a stage that is over, all stages over, or 500 ms gone *)
wait_for_descriptor ==
  /\ pc = "wait"
  /\ result' = CASE qh[cur].halted \/ qh[cur].flagged -> "error"
                 [] qh[cur].done = qh[cur].n -> "success"
                 [] OTHER -> "timeout"
  /\ pc' = "unlink"
  /\ UNCHANGED <<mem, qh, bus, dev, scan, cur, addresses, mishap>>

(* the buffer goes to controller.cached and the port is given up *)
Quarantine == mem' = [mem EXCEPT ![cur] = "cached"] /\ GiveUp

unlink_async_qh ==
  /\ pc = "unlink"
  /\ \/ /\ Active(qh[cur]) \/ bell = "rung"
        /\ Quarantine
        /\ UNCHANGED <<next, bell>>
     \/ /\ ~Active(qh[cur]) /\ bell # "rung"
        /\ next' = [next EXCEPT ![async_head] = next[cur]]
        /\ bell' = "rung" /\ pc' = "advance"
        /\ UNCHANGED <<mem, scan, cur, result, address>>
  /\ UNCHANGED <<qh, hc, dev, next_usb_address, mishap>>

(* mutant of advance_timeout: the buffer is freed *)
TimeoutFrees ==
  /\ pc = "advance" /\ bell # "answered"
  /\ Free(cur) /\ GiveUp
  /\ UNCHANGED <<bus, dev, next_usb_address, mishap>>

advance_timeout ==
  /\ pc = "advance" /\ bell # "answered"
  /\ Quarantine
  /\ UNCHANGED <<qh, bus, dev, next_usb_address, mishap>>

(* the controller has let go of the queue head *)
advance_done ==
  /\ pc = "advance" /\ bell = "answered"
  /\ bell' = "idle" /\ Free(cur)
  /\ identify_done \/ address_done \/ descriptor_done(ResetFails) \/ packet_done
  /\ UNCHANGED <<next, hc>>

(* one buffer for each endpoint; those taken before a failure are kept *)
configure_endpoints ==
  /\ AtStep("endpoints")
  /\ \E S \in SUBSET {b \in Bufs : mem[b] = "free"} :
       /\ Cardinality(S) <= MaxEndpoints
       /\ mem' = [b \in Bufs |-> IF b \in S THEN "endpoint" ELSE mem[b]]
  /\ PortDone
  /\ UNCHANGED <<qh, bus, dev, next_usb_address, mishap>>

-----------------------------------------------------------------------------
(* the controller *)
driver == <<mem, pc, scan, cur, result, addresses>>

(* a stage that needed a second try leaves an error flag *)
hc_stage ==
  /\ hc.at # async_head /\ \E f \in BOOLEAN : StageDone(hc.at, f)
  /\ UNCHANGED <<bus, driver>>

hc_halt ==
  /\ hc.at # async_head /\ StageFails(hc.at)
  /\ UNCHANGED <<bus, driver>>

hc_advance ==
  /\ hc' = [at |-> hc.nxt, nxt |-> next[hc.nxt]]
  /\ UNCHANGED <<qh, next, bell, dev, mishap, driver>>

(* the controller holds nothing any more that is not in the schedule *)
hc_doorbell ==
  /\ bell = "rung" /\ {hc.at, hc.nxt} \subseteq Linked
  /\ bell' = "answered"
  /\ UNCHANGED <<qh, next, hc, dev, mishap, driver>>

Next ==
  \/ reset_port \/ AllocFails \/ (NoAddressLeft /\ UNCHANGED bus) \/ \E b \in Bufs : submit(b)
  \/ wait_for_descriptor \/ unlink_async_qh \/ advance_timeout \/ advance_done \/ configure_endpoints
  \/ hc_stage \/ hc_halt \/ hc_advance \/ hc_doorbell
  \/ \E p \in Ports : connect_change(p) /\ UNCHANGED bus

Spec == Init /\ [][Next]_vars

-----------------------------------------------------------------------------
TypeOK ==
  /\ CoreTypeOK
  /\ next \in [Bufs \cup {async_head} -> Bufs \cup {async_head, Nil}]
  /\ bell \in {"idle", "rung", "answered"}
  /\ hc \in [at : Bufs \cup {async_head}, nxt : Bufs \cup {async_head}]
  /\ pc \in {"ready", "wait", "unlink", "advance"}

(* No queue head that the controller holds, or can still come to by the    *)
(* links in memory, lies in a buffer that free_dma has taken back, however *)
(* late the controller is and however often a doorbell timed out.          *)
NoUseAfterFree ==
  \A x \in {hc.at} \cup Reach(hc.nxt) \cup Linked : x \in Bufs => mem[x] # "free"

(* From wherever the controller stands it comes back to async_head: inserts *)
(* and unlinks around queue heads that were left in the schedule lose none. *)
RingCloses == \A x \in {hc.nxt, next[async_head]} : async_head \in Reach(x)
=============================================================================
