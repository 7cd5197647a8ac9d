------------------------------- MODULE UsbProofs -------------------------------
(***************************************************************************)
(* The theorems about the drivers of each class of controllers, for the    *)
(* composition that the model checker runs and for any number of ports,    *)
(* buffers and addresses.  The first part is about the EHCI driver: a      *)
(* buffer that is not free is kept, the links of kept queue heads lead     *)
(* from one to the next and back to async_head, and the controller holds   *)
(* no other.  The invariants of UHCI, OHCI and of the addresses are in the *)
(* modules of their names.                                                 *)
(***************************************************************************)
EXTENDS MCUsb, UsbCoreProofs

(* the queue heads of the transfer in progress and of those that were given *)
(* up: what may be in the schedule                                          *)
Kept == {b \in Bufs : mem[b] \in {"held", "cached"}} \cup {async_head}

(* what the proof needs of the types *)
Types ==
  /\ mem \in [Bufs -> {"free", "held", "cached", "endpoint", "leaked"}]
  /\ next \in [Bufs \cup {async_head} -> Heads]
  /\ pc \in {"ready", "wait", "unlink", "advance"}
  /\ bell \in {"idle", "rung", "answered"}
  /\ pc # "ready" => cur \in Bufs /\ mem[cur] = "held"

(* no link of a kept queue head leads out of the kept ones *)
LinksKept == \A b \in Kept : next[b] \in Kept

(* the transfer in progress is the first of the schedule until it is unlinked, *)
(* and nothing but async_head points to it                                     *)
CurLinked ==
  /\ pc \in {"wait", "unlink"} => next[async_head] = cur
  /\ pc # "ready" => \A b \in Kept \ {async_head} : next[b] # cur
  /\ pc = "advance" => next[async_head] # cur

(* the controller holds kept queue heads, and when it has answered the doorbell *)
(* the unlinked one is not among them                                           *)
HcKept ==
  /\ DOMAIN hc = {"at", "nxt"} /\ hc = [at |-> hc.at, nxt |-> hc.nxt]
  /\ hc.at \in Kept /\ hc.nxt \in Kept
  /\ pc = "advance" /\ bell = "answered" => hc.at # cur /\ hc.nxt # cur

(* from every kept queue head the links lead back to async_head *)
Returns == \A x \in Kept : async_head \in Reach(x)

IInv == Types /\ LinksKept /\ CurLinked /\ HcKept /\ Returns

-----------------------------------------------------------------------------
(* what can be reached from x lies in every closed set around x *)
LEMMA ReachWithin ==
  ASSUME NEW C \in SUBSET Heads, Closed(C), NEW x \in C
  PROVE  Reach(x) \subseteq C
  BY DEF Reach

(* Returns, without Reach *)
LEMMA ReturnsMeans ==
  Returns <=> \A x \in Kept, C \in SUBSET Heads : x \in C /\ Closed(C) => async_head \in C
  <1>1. async_head \in Heads BY DEF Heads
  <1> QED BY <1>1 DEF Returns, Reach

(* the same after a step *)
LEMMA ReturnsMeansNext ==
  Returns' <=> \A x \in Kept', C \in SUBSET Heads : x \in C /\ Closed(C)' => async_head \in C
  <1>1. async_head \in Heads BY DEF Heads
  <1> QED BY <1>1 DEF Returns, Reach

(* the kept queue heads are a closed set *)
LEMMA KeptClosed ==
  ASSUME IInv
  PROVE  Kept \subseteq Heads /\ async_head \in Kept /\ Closed(Kept) /\ Nil \notin Kept
  BY UsbAssumption, EhciAssumption DEF IInv, LinksKept, Kept, Heads, Closed

(* the initial schedule is async_head alone *)
LEMMA InitIInv == Init => IInv
  <1> SUFFICES ASSUME Init PROVE IInv OBVIOUS
  <1> USE UsbAssumption, EhciAssumption DEF Init, CoreInit
  <1>1. Kept = {async_head} BY DEF Kept
  <1>2. Types BY DEF Types, Heads
  <1>3. LinksKept /\ CurLinked /\ HcKept BY <1>1 DEF LinksKept, CurLinked, HcKept
  <1>4. Returns BY <1>1, ReturnsMeans
  <1> QED BY <1>2, <1>3, <1>4 DEF IInv

(* A step that changes neither the links nor what the controller holds keeps *)
(* the ring when it keeps no new queue head.                                 *)
LEMMA SameLinks ==
  ASSUME Returns, UNCHANGED next, Kept' \subseteq Kept
  PROVE  Returns'
  BY ReturnsMeans, ReturnsMeansNext DEF Closed

(* a link of async_head is not part of any way back to it *)
LEMMA OtherHeadLink ==
  ASSUME IInv, NEW x, next' = [next EXCEPT ![async_head] = x], Kept' \subseteq Kept
  PROVE  Returns'
  <1>1. ASSUME NEW C \in SUBSET Heads, Closed(C)' PROVE Closed(C)
    BY <1>1, UsbAssumption, EhciAssumption DEF Closed, IInv, Types, Heads
  <1> QED BY <1>1, ReturnsMeans, ReturnsMeansNext DEF IInv

(* a step that leaves the driver's and the controller's state as it is *)
LEMMA Elsewhere ==
  ASSUME IInv, UNCHANGED <<mem, next, pc, bell, cur, hc>>
  PROVE  IInv'
  <1>1. Kept' = Kept BY DEF Kept
  <1>2. Returns' BY <1>1, SameLinks DEF IInv
  <1> QED BY <1>1, <1>2 DEF IInv, Types, LinksKept, CurLinked, HcKept

(* the driver returns to get_device: any buffer but a kept one changes hands *)
LEMMA BackToReady ==
  ASSUME IInv, pc' = "ready", UNCHANGED <<next, hc>>, bell' \in {"idle", "rung", "answered"},
         mem' \in [Bufs -> {"free", "held", "cached", "endpoint", "leaked"}], Kept' = Kept
  PROVE  IInv'
  <1>1. Returns' BY SameLinks DEF IInv
  <1> QED BY <1>1 DEF IInv, Types, LinksKept, CurLinked, HcKept

(* reset_port *)
LEMMA ResetPort == IInv /\ reset_port => IInv'
  <1> SUFFICES ASSUME IInv, reset_port PROVE IInv' OBVIOUS
  <1>1. pc' = "ready" /\ UNCHANGED <<mem, next, bell, hc>>
    BY DEF reset_port, Proceed, GiveUp, Return, bus
  <1>2. Kept' = Kept BY <1>1 DEF Kept
  <1> QED BY <1>1, <1>2, BackToReady DEF IInv, Types

(* a buffer above 4 GB is forgotten *)
LEMMA AllocFailsStep == IInv /\ AllocFails => IInv'
  <1> SUFFICES ASSUME IInv, AllocFails PROVE IInv' OBVIOUS
  <1>1. pc' = "ready" /\ UNCHANGED <<next, bell, hc>>
    BY DEF AllocFails, GiveUp, Return, bus
  <1>2. mem' \in [Bufs -> {"free", "held", "cached", "endpoint", "leaked"}] /\ Kept' = Kept
    BY DEF AllocFails, IInv, Types, Kept
  <1> QED BY <1>1, <1>2, BackToReady DEF IInv, Types

(* the endpoints' buffers are not in the schedule *)
LEMMA ConfigureStep == IInv /\ configure_endpoints => IInv'
  <1> SUFFICES ASSUME IInv, configure_endpoints PROVE IInv' OBVIOUS
  <1>1. pc' = "ready" /\ UNCHANGED <<next, bell, hc>>
    BY DEF configure_endpoints, PortDone, Return, bus
  <1>2. PICK S \in SUBSET {b \in Bufs : mem[b] = "free"} :
          mem' = [b \in Bufs |-> IF b \in S THEN "endpoint" ELSE mem[b]]
    BY DEF configure_endpoints
  <1>3. mem' \in [Bufs -> {"free", "held", "cached", "endpoint", "leaked"}] /\ Kept' = Kept
    BY <1>2 DEF IInv, Types, Kept
  <1> QED BY <1>1, <1>3, BackToReady DEF IInv, Types

(* a timed-out transfer is kept, whether it is still linked or not *)
LEMMA QuarantineStep ==
  ASSUME IInv, pc # "ready", Quarantine, UNCHANGED <<next, bell, hc>>
  PROVE  IInv'
  <1>1. pc' = "ready" BY DEF Quarantine, GiveUp, Return
  <1>2. mem' \in [Bufs -> {"free", "held", "cached", "endpoint", "leaked"}] /\ Kept' = Kept
    BY DEF Quarantine, IInv, Types, Kept
  <1> QED BY <1>1, <1>2, BackToReady DEF IInv, Types

(* insert_async_qh: the free buffer, to which no kept queue head points, becomes *)
(* the first of the schedule                                                     *)
LEMMA SubmitStep ==
  ASSUME IInv, NEW b \in Bufs, submit(b) PROVE IInv'
  <1> USE UsbAssumption, EhciAssumption
  <1>1. /\ pc = "ready" /\ pc' = "wait" /\ mem[b] = "free" /\ cur' = b
        /\ mem' = [mem EXCEPT ![b] = "held"]
        /\ next' = [next EXCEPT ![b] = next[async_head], ![async_head] = b]
        /\ UNCHANGED <<bell, hc>>
    BY DEF submit, Take, AtTransfer, insert_async_qh
  <1>2. Types' BY <1>1 DEF IInv, Types, Heads
  <1>3. Kept' = Kept \cup {b} /\ b \notin Kept BY <1>1 DEF Kept, IInv, Types
  <1>4. /\ next'[async_head] = b /\ next'[b] = next[async_head]
        /\ \A x \in Kept \ {async_head} : next'[x] = next[x]
        /\ next[async_head] \in Kept
    BY <1>1, <1>3, KeptClosed DEF IInv, Types, LinksKept, Heads
  <1>5. LinksKept' BY <1>3, <1>4 DEF IInv, LinksKept
  <1>6. CurLinked'
    <2>1. \A x \in Kept' \ {async_head} : next'[x] \in Kept
      BY <1>3, <1>4 DEF IInv, LinksKept
    <2> QED BY <1>1, <1>3, <1>4, <2>1 DEF CurLinked
  <1>7. HcKept' BY <1>1, <1>3 DEF IInv, HcKept
  <1>8. Returns'
    <2> SUFFICES ASSUME NEW x \in Kept', NEW C \in SUBSET Heads, x \in C, Closed(C)'
                 PROVE  async_head \in C
      BY ReturnsMeansNext
    <2> DEFINE D == C \cap Kept
    <2>1. D \in SUBSET Heads /\ Closed(D)
      BY <1>3, <1>4, KeptClosed DEF Closed, IInv, LinksKept
    <2>2. CASE x \in Kept BY <2>1, <2>2, ReturnsMeans DEF IInv
    <2>3. CASE x = b
      <3>1. b \notin {async_head, Nil} OBVIOUS
      <3>2. next[async_head] \in D BY <1>4, <2>3, <3>1 DEF Closed
      <3> QED BY <2>1, <3>2, <1>4, ReturnsMeans DEF IInv
    <2> QED BY <1>3, <2>2, <2>3
  <1> QED BY <1>2, <1>5, <1>6, <1>7, <1>8 DEF IInv

(* unlink_async_qh: async_head points to the successor again *)
LEMMA UnlinkStep == IInv /\ unlink_async_qh => IInv'
  <1> SUFFICES ASSUME IInv, unlink_async_qh PROVE IInv' OBVIOUS
  <1> USE UsbAssumption, EhciAssumption
  <1>1. CASE Quarantine /\ UNCHANGED <<next, bell>>
    BY <1>1, QuarantineStep DEF unlink_async_qh
  <1>2. CASE /\ next' = [next EXCEPT ![async_head] = next[cur]]
             /\ bell' = "rung" /\ pc' = "advance" /\ UNCHANGED <<mem, cur>>
    <2>1. pc = "unlink" /\ UNCHANGED hc BY DEF unlink_async_qh
    <2>2. cur \in Bufs /\ cur \in Kept /\ Kept' = Kept BY <1>2, <2>1 DEF IInv, Types, Kept
    <2>3. /\ next'[async_head] = next[cur] /\ next[cur] \in Kept /\ next[cur] # cur
          /\ \A x \in Kept \ {async_head} : next'[x] = next[x]
      BY <1>2, <2>1, <2>2, KeptClosed DEF IInv, Types, LinksKept, CurLinked, Heads
    <2>4. Types' BY <1>2, <2>1, <2>2 DEF IInv, Types, Heads
    <2>5. LinksKept' /\ CurLinked' BY <1>2, <2>1, <2>2, <2>3 DEF IInv, LinksKept, CurLinked
    <2>6. HcKept' BY <1>2, <2>1, <2>2 DEF IInv, HcKept
    <2>7. Returns' BY <1>2, <2>2, OtherHeadLink
    <2> QED BY <2>4, <2>5, <2>6, <2>7 DEF IInv
  <1> QED BY <1>1, <1>2 DEF unlink_async_qh

(* free_dma after the doorbell was answered: nothing points to the buffer *)
LEMMA FreeStep == IInv /\ advance_done => IInv'
  <1> SUFFICES ASSUME IInv, advance_done PROVE IInv' OBVIOUS
  <1> USE UsbAssumption, EhciAssumption
  <1>1. /\ pc = "advance" /\ bell = "answered" /\ bell' = "idle"
        /\ mem' = [mem EXCEPT ![cur] = "free"] /\ UNCHANGED <<next, hc>>
    BY DEF advance_done, Free
  <1>2. pc' = "ready"
    BY DEF advance_done, identify_done, address_done, descriptor_done, packet_done,
           AddressFails, Proceed, GiveUp, Return
  <1>3. cur \in Bufs /\ Kept' = Kept \ {cur} BY <1>1 DEF IInv, Types, Kept
  <1>4. Types' BY <1>1, <1>2 DEF IInv, Types
  <1>5. LinksKept' /\ CurLinked'
    BY <1>1, <1>2, <1>3 DEF IInv, LinksKept, CurLinked
  <1>6. HcKept' BY <1>1, <1>2, <1>3 DEF IInv, HcKept
  <1>7. Returns' BY <1>1, <1>3, SameLinks DEF IInv
  <1> QED BY <1>4, <1>5, <1>6, <1>7 DEF IInv

(* the controller goes on along the links in memory *)
LEMMA HcAdvanceStep == IInv /\ hc_advance => IInv'
  <1> SUFFICES ASSUME IInv, hc_advance PROVE IInv' OBVIOUS
  <1>1. hc' = [at |-> hc.nxt, nxt |-> next[hc.nxt]] /\ UNCHANGED <<mem, next, pc, bell, cur>>
    BY DEF hc_advance, driver
  <1>2. Kept' = Kept BY <1>1 DEF Kept
  <1>3. Returns' BY <1>1, <1>2, SameLinks DEF IInv
  <1>4. next[hc.nxt] \in Kept /\ hc.nxt \in Kept BY DEF IInv, HcKept, LinksKept
  <1>5. pc = "advance" => next[hc.nxt] # cur BY <1>4 DEF IInv, CurLinked
  <1>6. HcKept' BY <1>1, <1>2, <1>4, <1>5 DEF IInv, HcKept
  <1> QED BY <1>1, <1>2, <1>3, <1>6 DEF IInv, Types, LinksKept, CurLinked

(* the controller answers when it holds only what is in the schedule, which the *)
(* unlinked queue head is not                                                   *)
LEMMA HcDoorbellStep == IInv /\ hc_doorbell => IInv'
  <1> SUFFICES ASSUME IInv, hc_doorbell PROVE IInv' OBVIOUS
  <1> USE UsbAssumption, EhciAssumption
  <1>1. /\ {hc.at, hc.nxt} \subseteq Linked /\ bell' = "answered"
        /\ UNCHANGED <<mem, next, pc, hc, cur>>
    BY DEF hc_doorbell, driver
  <1>2. Kept' = Kept BY <1>1 DEF Kept
  <1>3. Returns' BY <1>1, <1>2, SameLinks DEF IInv
  <1>4. pc = "advance" => cur \notin Linked
    <2> SUFFICES ASSUME pc = "advance" PROVE cur \notin Linked OBVIOUS
    <2> DEFINE C == Kept \ {cur}
    <2>1. cur \in Bufs BY DEF IInv, Types
    <2>2. C \in SUBSET Heads /\ Closed(C) /\ next[async_head] \in C /\ async_head \in C
      BY <2>1, KeptClosed DEF IInv, LinksKept, CurLinked, Closed
    <2> QED BY <2>2, ReachWithin DEF Linked
  <1>5. HcKept' BY <1>1, <1>2, <1>4 DEF IInv, HcKept
  <1> QED BY <1>1, <1>2, <1>3, <1>5 DEF IInv, Types, LinksKept, CurLinked

(* every step preserves the inductive invariant *)
LEMMA NextIInv == IInv /\ [Next]_vars => IInv'
  <1> SUFFICES ASSUME IInv, [Next]_vars PROVE IInv' OBVIOUS
  <1>1. CASE wait_for_descriptor
    <2>1. pc = "wait" /\ pc' = "unlink" /\ UNCHANGED <<mem, next, bell, cur, hc>>
      BY <1>1 DEF wait_for_descriptor, bus
    <2>2. Kept' = Kept BY <2>1 DEF Kept
    <2>3. Returns' BY <2>1, <2>2, SameLinks DEF IInv
    <2> QED BY <2>1, <2>2, <2>3 DEF IInv, Types, LinksKept, CurLinked, HcKept
  <1>2. CASE advance_timeout
    BY <1>2, QuarantineStep DEF advance_timeout, bus
  <1>3. CASE NoAddressLeft /\ UNCHANGED bus
    <2>1. pc' = "ready" /\ UNCHANGED <<mem, next, bell, hc>>
      BY <1>3 DEF NoAddressLeft, GiveUp, Return, bus
    <2>2. Kept' = Kept BY <2>1 DEF Kept
    <2> QED BY <2>1, <2>2, BackToReady DEF IInv, Types
  <1>4. CASE hc_stage \/ hc_halt
    BY <1>4, Elsewhere DEF hc_stage, hc_halt, driver, bus
  <1>5. CASE \E p \in Ports : connect_change(p) /\ UNCHANGED bus
    BY <1>5, Elsewhere DEF connect_change, bus
  <1>6. CASE UNCHANGED vars
    BY <1>6, Elsewhere DEF vars, coreVars, bus
  <1> QED
    BY <1>1, <1>2, <1>3, <1>4, <1>5, <1>6, ResetPort, AllocFailsStep, SubmitStep, UnlinkStep,
       FreeStep, ConfigureStep, HcAdvanceStep, HcDoorbellStep DEF Next

(* Kept queue heads lead only to kept ones, and the EHCI controller holds no other, in every state of *)
(* insert_async_qh, unlink_async_qh, quarantine and the controller.                                   *)
THEOREM Invariance == Spec => []IInv
  BY InitIInv, NextIInv, PTL DEF Spec

(* what the controller holds, what it can come to and what is linked are kept *)
(* queue heads, and those were not freed                                      *)
LEMMA SafeSchedule == IInv => NoUseAfterFree
  <1> SUFFICES ASSUME IInv PROVE NoUseAfterFree OBVIOUS
  <1>1. Kept \in SUBSET Heads /\ Closed(Kept) /\ async_head \in Kept BY KeptClosed
  <1>2. hc.at \in Kept /\ hc.nxt \in Kept /\ next[async_head] \in Kept
    BY <1>1 DEF IInv, HcKept, LinksKept
  <1>3. Reach(hc.nxt) \subseteq Kept /\ Linked \subseteq Kept
    BY <1>1, <1>2, ReachWithin DEF Linked
  <1>4. \A x \in Kept : x \in Bufs => mem[x] # "free" BY EhciAssumption DEF Kept
  <1> QED BY <1>2, <1>3, <1>4 DEF NoUseAfterFree

(* from every kept queue head the links lead back *)
LEMMA ClosedRing == IInv => RingCloses
  <1> SUFFICES ASSUME IInv PROVE RingCloses OBVIOUS
  <1>1. hc.nxt \in Kept /\ next[async_head] \in Kept
    BY KeptClosed DEF IInv, HcKept, LinksKept
  <1> QED BY <1>1 DEF RingCloses, IInv, Returns

-----------------------------------------------------------------------------
(* a step of the EHCI driver or controller keeps the addresses in order *)
LEMMA NextAddress == IInv /\ AddressInv /\ [Next]_vars => AddressInv'
  <1> SUFFICES ASSUME IInv, AddressInv, [Next]_vars PROVE AddressInv' OBVIOUS
  <1> USE DEF scan, addresses
  <1>1. CASE reset_port BY <1>1, ResetKeeps DEF reset_port
  <1>2. CASE AllocFails \/ (NoAddressLeft /\ UNCHANGED bus) \/ configure_endpoints
    BY <1>2, QuietKeeps DEF AllocFails, NoAddressLeft, configure_endpoints, GiveUp, PortDone
  <1>3. ASSUME NEW b \in Bufs, submit(b) PROVE AddressInv'
    <2> DEFINE r == Request(step, address')
    <2>1. address' \in Nat BY <1>3 DEF submit, Take, allocate_usb_address, AddressInv, AddressTypes
    <2>2. TransferOK(r) /\ r.value = IF step = "address" THEN address' ELSE 0
      BY <2>1 DEF Request, IdentifyQh, SetAddressQh, DescriptorQh, PacketQh, Transfer, TransferOK
    <2>3. Take(b) /\ qh' = [qh EXCEPT ![b] = r] /\ pc' # "ready" /\ UNCHANGED <<dev, scan, mishap>>
      BY <1>3 DEF submit
    <2> QED BY <2>2, <2>3, TakeKeeps
  <1>4. CASE wait_for_descriptor \/ unlink_async_qh \/ advance_timeout
    BY <1>4, QuietKeeps DEF wait_for_descriptor, unlink_async_qh, advance_timeout, Quarantine, GiveUp
  <1>5. CASE advance_done
    <2>1. pc # "ready" /\ Free(cur) BY <1>5 DEF advance_done
    <2>2. CASE identify_done \/ packet_done BY <2>1, <2>2, PlainEnd
    <2>3. CASE address_done BY <2>1, <2>3, AddressEnd
    <2>4. CASE descriptor_done(ResetFails) BY <2>1, <2>4, DescriptorEnd
    <2> QED BY <1>5, <2>2, <2>3, <2>4 DEF advance_done
  <1>6. CASE hc_stage \/ hc_halt
    <2>1. hc.at \in Bufs BY <1>6 DEF hc_stage, hc_halt, IInv, HcKept, Kept
    <2> QED BY <1>6, <2>1, StageKeeps, FailKeeps DEF hc_stage, hc_halt, driver
  <1>7. CASE hc_advance \/ hc_doorbell \/ UNCHANGED vars
    BY <1>7, QuietKeeps DEF hc_advance, hc_doorbell, driver, vars, coreVars
  <1>8. CASE \E p \in Ports : connect_change(p) /\ UNCHANGED bus BY <1>8, ConnectKeeps
  <1> QED BY <1>1, <1>2, <1>3, <1>4, <1>5, <1>6, <1>7, <1>8 DEF Next

-----------------------------------------------------------------------------

(* a behaviour of the EHCI driver keeps its invariant *)
LEMMA EhciInvariance == MCSpec => [](class = "EHCI" => IInv)
  <1>1. MCInit => (class = "EHCI" => IInv) BY InitIInv DEF MCInit
  <1>2. (class = "EHCI" => IInv) /\ [MCNext]_allVars => (class = "EHCI" => IInv)'
    <2> SUFFICES ASSUME class = "EHCI" => IInv, [MCNext]_allVars, class' = "EHCI" PROVE IInv' OBVIOUS
    <2>1. CASE MCNext BY <2>1, NextIInv DEF MCNext
    <2>2. CASE UNCHANGED allVars BY <2>2, NextIInv DEF allVars
    <2> QED BY <2>1, <2>2
  <1> QED BY <1>1, <1>2, PTL DEF MCSpec

(* The EHCI controller never comes to a freed buffer, however late it is (unlink_async_qh, quarantine). *)
THEOREM EhciNoUseAfterFreeHolds == MCSpec => []EhciNoUseAfterFree
  <1>1. (class = "EHCI" => IInv) => EhciNoUseAfterFree BY SafeSchedule DEF EhciNoUseAfterFree
  <1> QED BY <1>1, EhciInvariance, PTL

(* The asynchronous schedule is a ring through async_head, whatever given-up transfers left in it *)
(* (insert_async_qh, unlink_async_qh).                                                            *)
THEOREM EhciRingClosesHolds == MCSpec => []EhciRingCloses
  <1>1. (class = "EHCI" => IInv) => EhciRingCloses BY ClosedRing DEF EhciRingCloses
  <1> QED BY <1>1, EhciInvariance, PTL

(* a behaviour of the OHCI driver keeps its invariant, with one TD for the data stage *)
LEMMA OhciInvariance == DataTds = 1 /\ MCSpec => [](class = "OHCI" => O!IInv)
  <1>1. DataTds = 1 /\ MCInit => (class = "OHCI" => O!IInv)
    BY UsbAssumption, O!InitIInv DEF MCInit
  <1>2. (class = "OHCI" => O!IInv) /\ [MCNext]_allVars => (class = "OHCI" => O!IInv)'
    <2> SUFFICES ASSUME class = "OHCI" => O!IInv, [MCNext]_allVars, class' = "OHCI" PROVE O!IInv' OBVIOUS
    <2>1. CASE MCNext
      <3>1. class = "OHCI" /\ O!Next BY <2>1 DEF MCNext
      <3> QED BY <3>1, UsbAssumption, O!NextIInv
    <2>2. CASE UNCHANGED allVars
      <3>1. UNCHANGED O!vars
        BY <2>2 DEF allVars, vars, coreVars, scan, addresses, OVars, O!vars, O!coreVars, O!bus,
           O!scan, O!addresses, O!heads, O!queue
      <3> QED BY <2>2, <3>1, UsbAssumption, O!NextIInv DEF allVars
    <2> QED BY <2>1, <2>2
  <1> QED BY <1>1, <1>2, PTL DEF MCSpec

(* With one TD for the data stage nothing that the control list, the controller and the done queue *)
(* refer to is in a freed buffer (restore_control_schedule).                                       *)
THEOREM OhciNoUseAfterFreeHolds == DataTds = 1 /\ MCSpec => []OhciNoUseAfterFree
  <1>1. (class = "OHCI" => O!IInv) => OhciNoUseAfterFree
    BY UsbAssumption, O!SafeLists DEF OhciNoUseAfterFree
  <1> QED BY <1>1, OhciInvariance, PTL

(* a behaviour of the UHCI driver with two ports keeps its invariant until it frees a buffer late *)
LEMMA UhciInvariance == MCSpec => [](class = "UHCI" => U!IInv)
  <1> USE UsbAssumption, MoreAssumption
  <1>1. MCInit => (class = "UHCI" => U!IInv) BY U!InitIInv DEF MCInit
  <1>2. (class = "UHCI" => U!IInv) /\ [MCNext]_allVars => (class = "UHCI" => U!IInv)'
    <2> SUFFICES ASSUME class = "UHCI" => U!IInv, [MCNext]_allVars, class' = "UHCI" PROVE U!IInv' OBVIOUS
    <2>1. CASE class = "UHCI" /\ late = {} /\ U!Next BY <2>1, U!NextIInv
    <2>2. CASE UNCHANGED <<class, vars, UVars, OVars>>
      <3>1. UNCHANGED <<U!vars>> /\ class = "UHCI"
        BY <2>2 DEF vars, coreVars, scan, addresses, UVars, U!vars, U!coreVars, U!bus,
           U!scan, U!addresses, U!lists, U!toggles, U!history
      <3> QED BY <2>2, <3>1, U!Stutter DEF UVars
    <2> QED BY <2>1, <2>2 DEF MCNext, allVars
  <1> QED BY <1>1, <1>2, PTL DEF MCSpec

(* a behaviour of the UHCI driver with two endpoints keeps its invariant until it frees a buffer late *)
LEMMA EndpointsInvariance == MCSpec => [](class = "UHCI endpoints" => E!IInv)
  <1>0. 1 \in Nat \ {0} /\ 2 \in Nat OBVIOUS
  <1> USE UsbAssumption, MoreAssumption, <1>0
  <1>1. MCInit => (class = "UHCI endpoints" => E!IInv) BY E!InitIInv DEF MCInit
  <1>2. (class = "UHCI endpoints" => E!IInv) /\ [MCNext]_allVars => (class = "UHCI endpoints" => E!IInv)'
    <2> SUFFICES ASSUME class = "UHCI endpoints" => E!IInv, [MCNext]_allVars, class' = "UHCI endpoints" PROVE E!IInv' OBVIOUS
    <2>1. CASE class = "UHCI endpoints" /\ late = {} /\ E!Next BY <2>1, E!NextIInv
    <2>2. CASE UNCHANGED <<class, vars, UVars, OVars>>
      <3>1. UNCHANGED <<E!vars>> /\ class = "UHCI endpoints"
        BY <2>2 DEF vars, coreVars, scan, addresses, UVars, E!vars, E!coreVars, E!bus,
           E!scan, E!addresses, E!lists, E!toggles, E!history
      <3> QED BY <2>2, <3>1, E!Stutter DEF UVars
    <2> QED BY <2>1, <2>2 DEF MCNext, allVars
  <1> QED BY <1>1, <1>2, PTL DEF MCSpec

(* Nothing the UHCI controller can come to was freed, but for a transfer during which the controller *)
(* did not halt or start (link_qh, unlink_qh).                                                       *)
THEOREM UhciNoUseAfterFreeHolds == MCSpec => []UhciNoUseAfterFree
  <1>0. 1 \in Nat \ {0} /\ 2 \in Nat OBVIOUS
  <1>1. (class = "UHCI" => U!IInv) /\ (class = "UHCI endpoints" => E!IInv) => UhciNoUseAfterFree
    BY <1>0, UsbAssumption, MoreAssumption, U!StrongEnough, E!StrongEnough DEF UhciNoUseAfterFree
  <1> QED BY <1>1, UhciInvariance, EndpointsInvariance, PTL

(* Between two calls the schedule and the toggles are in order, but for calls that report LINK_ERROR *)
(* or UNLINK_ERROR (link_qh, unlink_qh, usb_transfer).                                               *)
THEOREM UhciBetweenCallsHolds == MCSpec => []UhciBetweenCalls
  <1>0. 1 \in Nat \ {0} /\ 2 \in Nat OBVIOUS
  <1>1. (class = "UHCI" => U!IInv) /\ (class = "UHCI endpoints" => E!IInv) => UhciBetweenCalls
    BY <1>0, UsbAssumption, MoreAssumption, U!StrongEnough, E!StrongEnough DEF UhciBetweenCalls
  <1> QED BY <1>1, UhciInvariance, EndpointsInvariance, PTL

-----------------------------------------------------------------------------
(* the addresses of the class that a behaviour follows are in order *)
AddressesOK ==
  CASE class = "EHCI" -> AddressInv /\ IInv
    [] class = "UHCI" -> U!AddressInv /\ U!EndpointsPlain /\ U!IInv
    [] class = "OHCI" -> O!AddressInv /\ O!Working
    [] OTHER -> class = "UHCI endpoints"

(* initially *)
LEMMA AddressesInit == MCInit => AddressesOK
  <1> SUFFICES ASSUME MCInit PROVE AddressesOK OBVIOUS
  <1> USE UsbAssumption, MoreAssumption
  <1>1. CASE class = "EHCI" BY <1>1, InitIInv, InitAddress DEF MCInit, Init, AddressesOK
  <1>2. CASE class = "UHCI"
    <2>1. U!Init BY <1>2 DEF MCInit
    <2>2. U!AddressInv BY <2>1, U!InitAddress DEF U!Init
    <2>3. U!EndpointsPlain BY <2>1 DEF U!Init, U!CoreInit, U!EndpointsPlain
    <2> QED BY <1>2, <2>1, <2>2, <2>3, U!InitIInv DEF AddressesOK
  <1>3. CASE class = "OHCI"
    <2>1. O!Init BY <1>3 DEF MCInit
    <2>2. O!AddressInv BY <2>1, O!InitAddress DEF O!Init
    <2>3. O!Working BY <2>1 DEF O!Init, O!Working
    <2> QED BY <1>3, <2>2, <2>3 DEF AddressesOK
  <1> QED BY <1>1, <1>2, <1>3 DEF MCInit, AddressesOK

(* and after every step of driver, controller or device *)
LEMMA AddressesNext == AddressesOK /\ [MCNext]_allVars => AddressesOK'
  <1> SUFFICES ASSUME AddressesOK, [MCNext]_allVars PROVE AddressesOK' OBVIOUS
  <1> USE UsbAssumption, MoreAssumption
  <1>0. UNCHANGED class BY DEF MCNext, allVars
  <1>1. CASE class = "EHCI"
    <2>1. AddressInv /\ IInv BY <1>1 DEF AddressesOK
    <2>2. [Next]_vars BY <1>1 DEF MCNext, allVars
    <2>3. AddressInv' /\ IInv' BY <2>1, <2>2, NextAddress, NextIInv
    <2> QED BY <1>0, <1>1, <2>3 DEF AddressesOK
  <1>2. CASE class = "UHCI"
    <2>1. U!AddressInv /\ U!EndpointsPlain /\ U!IInv BY <1>2 DEF AddressesOK
    <2>2. U!AddressInv' /\ U!EndpointsPlain' /\ U!IInv'
      <3>1. CASE late = {} /\ U!Next BY <2>1, <3>1, U!NextAddress, U!NextIInv
      <3>2. CASE UNCHANGED <<vars, UVars, OVars>>
        <4>1. UNCHANGED <<U!vars>>
          BY <3>2 DEF vars, coreVars, scan, addresses, UVars, U!vars, U!coreVars, U!bus,
             U!scan, U!addresses, U!lists, U!toggles, U!history
        <4> QED BY <2>1, <4>1, U!Stutter, U!AddressStutter
      <3> QED BY <1>2, <3>1, <3>2 DEF MCNext, allVars
    <2> QED BY <1>0, <1>2, <2>2 DEF AddressesOK
  <1>3. CASE class = "OHCI"
    <2>1. O!AddressInv /\ O!Working BY <1>3 DEF AddressesOK
    <2>2. [O!Next]_(O!vars)
      <3>1. CASE O!Next BY <3>1
      <3>2. CASE UNCHANGED allVars
        <4>1. UNCHANGED <<O!vars>>
          BY <3>2 DEF allVars, vars, coreVars, scan, addresses, OVars, O!vars, O!coreVars, O!bus,
             O!scan, O!addresses, O!heads, O!queue
        <4> QED BY <4>1
      <3> QED BY <1>3, <3>1, <3>2 DEF MCNext
    <2>3. O!AddressInv' /\ O!Working' BY <2>1, <2>2, O!NextAddress, O!NextWorking
    <2> QED BY <1>0, <1>3, <2>3 DEF AddressesOK
  <1> QED BY <1>0, <1>1, <1>2, <1>3 DEF AddressesOK

(* No driver lets two devices answer to one address without a mishap (allocate_usb_address,  *)
(* the SET_ADDRESS of set_address).                                                          *)
THEOREM DistinctAddressesHolds == MCSpec => []DistinctAddresses
  <1>1. AddressesOK => DistinctAddresses
    <2> SUFFICES ASSUME AddressesOK PROVE DistinctAddresses OBVIOUS
    <2> USE UsbAssumption, MoreAssumption
    <2>1. CASE class = "EHCI" BY <2>1, Distinct DEF AddressesOK, DistinctAddresses
    <2>2. CASE class = "UHCI"
      <3>1. U!AddressesDistinct BY <2>2, U!Distinct DEF AddressesOK
      <3>2. AddressesDistinct BY <3>1 DEF U!AddressesDistinct, U!Ports, AddressesDistinct, Ports
      <3> QED BY <2>2, <3>2 DEF DistinctAddresses
    <2>3. CASE class = "OHCI"
      <3>1. O!AddressesDistinct BY <2>3, O!Distinct DEF AddressesOK
      <3>2. AddressesDistinct BY <3>1 DEF O!AddressesDistinct, O!Ports, AddressesDistinct, Ports
      <3> QED BY <2>3, <3>2 DEF DistinctAddresses
    <2>4. CASE class = "UHCI endpoints"
      <3>1. E!AddressesDistinct BY DEF E!AddressesDistinct, E!Ports
      <3> QED BY <2>4, <3>1 DEF DistinctAddresses
    <2> QED BY <2>1, <2>2, <2>3, <2>4 DEF AddressesOK
  <1> QED BY <1>1, AddressesInit, AddressesNext, PTL DEF MCSpec
=============================================================================
