------------------------------ MODULE OhciProofs ------------------------------
(***************************************************************************)
(* For any number of buffers and ports, with one TD for the data stage of  *)
(* a transfer: neither the control list nor the controller nor a done      *)
(* queue leads into a buffer that was freed.                               *)
(***************************************************************************)
EXTENDS Ohci, UsbCoreProofs

(* the buffers of the transfer in progress and of those that were given up *)
Kept == {b \in Bufs : mem[b] \in {"held", "cached"}}

(* how far the controller can be with an ED: all its TDs are watched, as there *)
(* is one for the data                                                         *)
EdOK(q) ==
  /\ {"n", "done", "halted"} \subseteq DOMAIN q
  /\ q.n \in 1 .. 3 /\ q.done \in 0 .. q.n /\ q.halted \in BOOLEAN
  /\ q.halted => q.done < q.n

(* what the proof needs of the types *)
Types ==
  /\ mem \in [Bufs -> {"free", "held", "cached", "endpoint", "leaked"}]
  /\ DOMAIN qh = Bufs /\ \A b \in Bufs : EdOK(qh[b])
  /\ pc \in {"ready", "wait", "skip", "disable", "frame", "reap", "restored"}
  /\ pc # "ready" => cur \in Bufs /\ mem[cur] = "held"
  /\ ticked \in BOOLEAN

(* everything the controller and the driver can come to is kept *)
HeadsKept == control_head \in Kept \cup {Nil} /\ old_head \in Kept \cup {Nil} /\ work \in Kept \cup {Nil}
QueueKept == \A t \in done \cup hcca : t[1] \in Kept

(* the ED of the transfer in progress is marked and fetched for the last time *)
(* before the frame that the driver waits for                                 *)
CurSkipped ==
  /\ pc # "ready" => old_head # cur
  /\ pc \in {"disable", "frame", "reap", "restored"} => cur \in skip
  /\ pc \in {"disable", "frame"} /\ ticked => work # cur
  /\ pc \in {"reap", "restored"} => work # cur
  /\ pc = "restored" => control_head # cur
  /\ pc \in {"ready", "frame", "reap", "restored"} => ~cle

(* a TD of the transfer comes into a done queue once, when the controller is *)
(* done with it, and once it was met there it is in none                     *)
CurTds ==
  pc # "ready" =>
    /\ \A t \in done : t[1] = cur => t[2] \in Accessed(cur) /\ t[2] \notin retired /\ t \notin hcca
    /\ \A t \in hcca : t[1] = cur => t[2] \in Accessed(cur)
    /\ retired \subseteq Accessed(cur)
    /\ pc = "restored" => \A t \in done \cup hcca : t[1] # cur

(* the elements of a done queue: a buffer and the number of a TD *)
Pairs == \A t \in done \cup hcca : t = <<t[1], t[2]>>

IInv ==
  /\ DataTds = 1
  /\ Types /\ HeadsKept /\ QueueKept /\ CurSkipped /\ CurTds /\ Pairs

-----------------------------------------------------------------------------
(* the TDs of an ED are watched, all of them *)
LEMMA AllWatched ==
  ASSUME Types, NEW b \in Bufs PROVE Accessed(b) \subseteq Watched(b)
  <1>1. qh[b].n \in 1 .. 3 /\ qh[b].done \in 0 .. qh[b].n /\ (qh[b].halted => qh[b].done < qh[b].n)
    BY DEF Types, EdOK
  <1>2. \A n \in 1 .. 3 : \A d \in 0 .. n : /\ 1 .. d \subseteq {1, 2, n}
                                           /\ d < n => 1 .. (d + 1) \subseteq {1, 2, n}
    OBVIOUS
  <1>3. CASE qh[b].halted BY <1>1, <1>2, <1>3 DEF Accessed, Watched
  <1>4. CASE ~qh[b].halted
    <2>1. Accessed(b) = 1 .. qh[b].done BY <1>1, <1>4 DEF Accessed
    <2> QED BY <1>1, <1>2, <2>1 DEF Watched
  <1> QED BY <1>3, <1>4

(* every request is an ED of at most three TDs *)
LEMMA RequestOK ==
  ASSUME DataTds = 1, NEW s, NEW a
  PROVE  EdOK(Request(s, a)) /\ EdOK(Blank)
  BY DEF Request, IdentifyEd, SetAddressEd, DescriptorEd, PacketEd, Transfer, EdOK, Blank

(* nothing is kept at first *)
LEMMA InitIInv == DataTds = 1 /\ Init => IInv
  <1> SUFFICES ASSUME DataTds = 1, Init PROVE IInv OBVIOUS
  <1>1. Types BY RequestOK DEF Init, CoreInit, Types
  <1> QED BY <1>1 DEF Init, CoreInit, IInv, HeadsKept, QueueKept, CurSkipped, CurTds, Pairs

(* A step of the enumeration that returns to get_device: kept buffers stay, *)
(* and the control list and the done queues stay as they are.               *)
LEMMA BackToReady ==
  ASSUME IInv, pc' = "ready", Types', Kept' = Kept, UNCHANGED <<control_head, work, done, hcca, cle>>, ~cle,
         old_head' \in {Nil, old_head}
  PROVE  IInv'
  BY DEF IInv, HeadsKept, QueueKept, CurSkipped, CurTds, Pairs

(* a step that leaves alone what the invariant is about *)
LEMMA Elsewhere ==
  ASSUME IInv, UNCHANGED <<mem, qh, pc, cur, bus>>
  PROVE  IInv'
  <1>1. Kept' = Kept /\ UNCHANGED <<control_head, old_head, skip, work, done, hcca, retired, ticked, cle>>
    BY DEF Kept, bus, heads, queue
  <1>2. Accessed(cur)' = Accessed(cur) BY DEF Accessed
  <1>3. Types' BY <1>1 DEF IInv, Types
  <1>4. HeadsKept' /\ QueueKept' /\ CurSkipped' /\ Pairs'
    BY <1>1 DEF IInv, HeadsKept, QueueKept, CurSkipped, Pairs
  <1>5. CurTds' BY <1>1, <1>2 DEF IInv, CurTds
  <1> QED BY <1>3, <1>4, <1>5 DEF IInv

(* reset_port, and an address that is not to be had *)
LEMMA ResetStep == IInv /\ (reset_port \/ (NoAddressLeft /\ UNCHANGED bus)) => IInv'
  <1> SUFFICES ASSUME IInv, reset_port \/ (NoAddressLeft /\ UNCHANGED bus) PROVE IInv' OBVIOUS
  <1>1. pc = "ready" /\ pc' = "ready" /\ UNCHANGED <<mem, qh, bus>>
    BY DEF reset_port, NoAddressLeft, AtStep, Proceed, GiveUp, Return
  <1>2. Kept' = Kept /\ UNCHANGED <<control_head, old_head, work, done, hcca, cle, ticked>>
    BY <1>1 DEF Kept, bus, heads, queue
  <1>3. Types' BY <1>1, <1>2 DEF IInv, Types
  <1>4. ~cle BY <1>1 DEF IInv, CurSkipped
  <1> QED BY <1>1, <1>2, <1>3, <1>4, BackToReady

(* a buffer above 4 GB is forgotten *)
LEMMA AllocFailsStep == IInv /\ AllocFails => IInv'
  <1> SUFFICES ASSUME IInv, AllocFails PROVE IInv' OBVIOUS
  <1>1. pc = "ready" /\ pc' = "ready" /\ UNCHANGED <<qh, bus>>
    BY DEF AllocFails, AtTransfer, GiveUp, Return
  <1>2. mem' \in [Bufs -> {"free", "held", "cached", "endpoint", "leaked"}] /\ Kept' = Kept
    BY DEF AllocFails, IInv, Types, Kept
  <1>3. UNCHANGED <<control_head, old_head, work, done, hcca, cle, ticked>>
    BY <1>1 DEF bus, heads, queue
  <1>4. Types' BY <1>1, <1>2, <1>3 DEF IInv, Types
  <1>5. ~cle BY <1>1 DEF IInv, CurSkipped
  <1> QED BY <1>1, <1>2, <1>3, <1>4, <1>5, BackToReady

(* the endpoints' buffers are in no list *)
LEMMA ConfigureStep == IInv /\ configure_endpoints => IInv'
  <1> SUFFICES ASSUME IInv, configure_endpoints PROVE IInv' OBVIOUS
  <1>1. pc = "ready" /\ pc' = "ready" /\ UNCHANGED <<qh, bus>>
    BY DEF configure_endpoints, AtStep, PortDone, Return
  <1>2. PICK S \in SUBSET {b \in Bufs : mem[b] = "free"} :
          mem' = [b \in Bufs |-> IF b \in S THEN "endpoint" ELSE mem[b]]
    BY DEF configure_endpoints
  <1>3. mem' \in [Bufs -> {"free", "held", "cached", "endpoint", "leaked"}] /\ Kept' = Kept
    BY <1>2 DEF IInv, Types, Kept
  <1>4. UNCHANGED <<control_head, old_head, work, done, hcca, cle, ticked>>
    BY <1>1 DEF bus, heads, queue
  <1>5. Types' BY <1>1, <1>3, <1>4 DEF IInv, Types
  <1>6. ~cle BY <1>1 DEF IInv, CurSkipped
  <1> QED BY <1>1, <1>3, <1>4, <1>5, <1>6, BackToReady

(* what was given up stays in the list, or wherever the controller has it *)
LEMMA QuarantineStep ==
  ASSUME IInv, pc \in {"frame", "reap"}, Quarantine PROVE IInv'
  <1>1. pc' = "ready" /\ old_head' = Nil /\ UNCHANGED <<qh, control_head, work, done, hcca, cle, ticked>>
    BY DEF Quarantine, GiveUp, Return, queue
  <1>2. mem' \in [Bufs -> {"free", "held", "cached", "endpoint", "leaked"}] /\ Kept' = Kept
    BY DEF Quarantine, IInv, Types, Kept
  <1>3. Types' BY <1>1, <1>2 DEF IInv, Types
  <1>4. ~cle BY DEF IInv, CurSkipped
  <1> QED BY <1>1, <1>2, <1>3, <1>4, BackToReady

(* submit: the free buffer was in no list and no queue *)
LEMMA SubmitStep ==
  ASSUME IInv, NEW b \in Bufs, submit(b) PROVE IInv'
  <1>1. /\ pc = "ready" /\ pc' = "wait" /\ mem[b] = "free" /\ cur' = b
        /\ mem' = [mem EXCEPT ![b] = "held"] /\ qh' = [qh EXCEPT ![b] = Request(step, address')]
        /\ old_head' = control_head /\ control_head' = b /\ retired' = {}
        /\ UNCHANGED <<work, done, hcca, ticked>>
    BY DEF submit, Take, AtTransfer, queue
  <1>2. Types' BY <1>1, RequestOK DEF IInv, Types
  <1>3. b \notin Kept /\ Kept' = Kept \cup {b} BY <1>1 DEF Kept, IInv, Types
  <1>4. b # Nil BY UsbAssumption
  <1>5. HeadsKept' /\ QueueKept' /\ Pairs'
    BY <1>1, <1>3 DEF IInv, HeadsKept, QueueKept, Pairs
  <1>6. CurSkipped' BY <1>1, <1>3, <1>4 DEF IInv, HeadsKept, CurSkipped
  <1>7. CurTds' BY <1>1, <1>3 DEF IInv, QueueKept, CurTds, Pairs
  <1> QED BY <1>2, <1>5, <1>6, <1>7 DEF IInv

(* the driver looks, marks the ED, disables the list and waits: links and queues stay *)
LEMMA WaitSteps ==
  IInv /\ (wait_for_descriptor \/ skip_ed \/ stop_control_schedule \/ wait_for_next_frame) => IInv'
  <1> SUFFICES ASSUME IInv, wait_for_descriptor \/ skip_ed \/ stop_control_schedule \/ wait_for_next_frame
               PROVE IInv' OBVIOUS
  <1> USE DEF wait_for_descriptor, skip_ed, stop_control_schedule, wait_for_next_frame
  <1>1. UNCHANGED <<mem, qh, cur, control_head, old_head, work, done, hcca, retired>>
    BY DEF bus, heads, queue
  <1>2. Kept' = Kept /\ Accessed(cur)' = Accessed(cur) BY <1>1 DEF Kept, Accessed
  <1>3. pc # "ready" /\ pc' \in {"skip", "disable", "frame", "reap"} BY DEF IInv
  <1>4. Types' BY <1>1, <1>3 DEF IInv, Types, bus
  <1>5. HeadsKept' /\ QueueKept' /\ Pairs' BY <1>1, <1>2 DEF IInv, HeadsKept, QueueKept, Pairs
  <1>6. CurTds' BY <1>1, <1>2, <1>3 DEF IInv, CurTds
  <1>7. CurSkipped'
    <2>1. CASE wait_for_descriptor BY <2>1, <1>1 DEF IInv, CurSkipped, bus, heads
    <2>2. CASE skip_ed BY <2>2, <1>1 DEF IInv, CurSkipped
    <2>3. CASE stop_control_schedule BY <2>3, <1>1 DEF IInv, CurSkipped, heads
    <2>4. CASE wait_for_next_frame BY <2>4, <1>1 DEF IInv, CurSkipped, heads
    <2> QED BY <2>1, <2>2, <2>3, <2>4
  <1> QED BY <1>4, <1>5, <1>6, <1>7 DEF IInv

(* process_done_queue: what it met is in no queue any more *)
LEMMA PollStep == IInv /\ poll_done_queue => IInv'
  <1> SUFFICES ASSUME IInv, poll_done_queue PROVE IInv' OBVIOUS
  <1>1. /\ pc = "wait" /\ UNCHANGED <<mem, qh, pc, cur, control_head, old_head, skip, work, done, ticked, cle>>
        /\ retired' = retired \cup {i \in Watched(cur) : <<cur, i>> \in hcca} /\ hcca' = {}
    BY DEF poll_done_queue, process_done_queue, heads
  <1>2. Kept' = Kept /\ Accessed(cur)' = Accessed(cur) BY <1>1 DEF Kept, Accessed
  <1>3. Types' BY <1>1 DEF IInv, Types
  <1>4. HeadsKept' /\ QueueKept' /\ Pairs' /\ CurSkipped'
    BY <1>1, <1>2 DEF IInv, HeadsKept, QueueKept, Pairs, CurSkipped
  <1>5. CurTds' BY <1>1, <1>2 DEF IInv, CurTds, Pairs
  <1> QED BY <1>3, <1>4, <1>5 DEF IInv

(* wait_for_transfer_reap: when all watched TDs were met the old head comes back, *)
(* and no TD of the transfer is left, for all of its TDs are watched              *)
LEMMA ReapStep == IInv /\ wait_for_transfer_reap => IInv'
  <1> SUFFICES ASSUME IInv, wait_for_transfer_reap PROVE IInv' OBVIOUS
  <1>1. /\ pc = "reap" /\ UNCHANGED <<mem, qh, cur, old_head, skip, work, done, ticked, cle>>
        /\ retired' = retired \cup {i \in Watched(cur) : <<cur, i>> \in hcca} /\ hcca' = {}
        /\ IF Accessed(cur) \cap Watched(cur) \subseteq retired'
           THEN control_head' = old_head /\ pc' = "restored"
           ELSE UNCHANGED <<control_head, pc>>
    BY DEF wait_for_transfer_reap, process_done_queue
  <1>2. Kept' = Kept /\ Accessed(cur)' = Accessed(cur) BY <1>1 DEF Kept, Accessed
  <1>3. Types' BY <1>1 DEF IInv, Types
  <1>4. HeadsKept' /\ QueueKept' /\ Pairs'
    BY <1>1, <1>2 DEF IInv, HeadsKept, QueueKept, Pairs
  <1>5. CurSkipped' BY <1>1 DEF IInv, CurSkipped
  <1>6. CurTds'
    <2>1. pc = "reap" /\ cur \in Bufs BY <1>1 DEF IInv, Types
    <2>2. \A t \in done : t[1] = cur => t[2] \in Accessed(cur) /\ t[2] \notin retired'
      BY <1>1, <2>1 DEF IInv, CurTds, Pairs
    <2>3. retired' \subseteq Accessed(cur) BY <1>1, <2>1 DEF IInv, CurTds
    <2>4. pc' = "restored" => Accessed(cur) \subseteq retired'
      BY <1>1, <2>1, AllWatched DEF IInv
    <2>5. pc' = "restored" => \A t \in done : t[1] # cur BY <2>2, <2>4
    <2> QED BY <1>1, <1>2, <2>1, <2>2, <2>3, <2>5 DEF IInv, CurTds
  <1> QED BY <1>3, <1>4, <1>5, <1>6 DEF IInv

(* free_dma: no list, no queue and not the controller has the buffer *)
LEMMA FreeStep == IInv /\ transfer_done => IInv'
  <1> SUFFICES ASSUME IInv, transfer_done PROVE IInv' OBVIOUS
  <1>1. /\ pc = "restored" /\ mem' = [mem EXCEPT ![cur] = "free"] /\ qh' = [qh EXCEPT ![cur] = Blank]
        /\ old_head' = Nil /\ UNCHANGED <<cle, control_head, work, done, hcca, ticked>>
    BY DEF transfer_done, Free, queue
  <1>2. pc' = "ready"
    BY DEF transfer_done, identify_ends, set_address_ends, get_descriptor_ends, packet_ends,
           identify_done, address_done, descriptor_done, packet_done, AddressFails, Proceed, GiveUp, Return
  <1>3. cur \in Bufs /\ Kept' = Kept \ {cur} BY <1>1 DEF IInv, Types, Kept
  <1>4. Types' BY <1>1, <1>2, RequestOK DEF IInv, Types
  <1>5. HeadsKept' /\ QueueKept' /\ Pairs'
    BY <1>1, <1>3 DEF IInv, HeadsKept, QueueKept, Pairs, CurSkipped, CurTds
  <1>6. CurSkipped' /\ CurTds' BY <1>1, <1>2 DEF IInv, CurSkipped, CurTds
  <1> QED BY <1>4, <1>5, <1>6 DEF IInv

-----------------------------------------------------------------------------
(* a frame starts, or the controller fetches the head of the control list *)
LEMMA FrameStep == IInv /\ (hc_frame \/ hc_fetch) => IInv'
  <1> SUFFICES ASSUME IInv, hc_frame \/ hc_fetch PROVE IInv' OBVIOUS
  <1>1. UNCHANGED <<mem, qh, pc, cur, control_head, old_head, skip, done, hcca, retired, cle>>
    BY DEF hc_frame, hc_fetch, driver, heads, queue
  <1>2. Kept' = Kept /\ Accessed(cur)' = Accessed(cur) BY <1>1 DEF Kept, Accessed
  <1>b. ticked' \in BOOLEAN
    <2>1. CASE hc_frame BY <2>1 DEF hc_frame
    <2>2. CASE hc_fetch BY <2>2 DEF hc_fetch, IInv, Types
    <2> QED BY <2>1, <2>2
  <1>3. Types' BY <1>1, <1>b DEF IInv, Types
  <1>4. HeadsKept' /\ QueueKept' /\ Pairs' /\ CurTds'
    BY <1>1, <1>2 DEF hc_frame, hc_fetch, IInv, HeadsKept, QueueKept, Pairs, CurTds
  <1>5. CASE hc_frame
    <2>1. pc # "ready" => Nil # cur BY UsbAssumption DEF IInv, Types
    <2> QED BY <1>1, <1>3, <1>4, <1>5, <2>1 DEF hc_frame, IInv, CurSkipped
  <1>6. CASE hc_fetch
    BY <1>1, <1>3, <1>4, <1>6 DEF hc_fetch, IInv, CurSkipped
  <1> QED BY <1>5, <1>6

(* the controller is done with a TD of the ED at work *)
LEMMA RetireStep == IInv /\ (hc_stage \/ hc_halt) => IInv'
  <1> SUFFICES ASSUME IInv, hc_stage \/ hc_halt PROVE IInv' OBVIOUS
  <1> DEFINE td == qh[work].done + 1
  <1>1. /\ UNCHANGED <<mem, pc, cur, control_head, old_head, skip, work, hcca, retired, cle, ticked>>
        /\ done' = done \cup {<<work, td>>} /\ work # Nil /\ ~Finished(qh[work])
    BY DEF hc_stage, hc_halt, driver, heads, StageDone, StageFails, Retire
  <1>2. work \in Kept /\ work \in Bufs /\ Kept' = Kept BY <1>1 DEF IInv, HeadsKept, Kept
  <1>3. /\ qh[work].halted = FALSE /\ qh[work].done \in 0 .. qh[work].n - 1 /\ qh[work].n \in 1 .. 3
        /\ {"n", "done", "halted"} \subseteq DOMAIN qh[work] /\ DOMAIN qh = Bufs
    BY <1>1, <1>2 DEF IInv, Types, EdOK, Finished
  <1>4. /\ DOMAIN qh' = Bufs /\ \A b \in Bufs \ {work} : qh'[b] = qh[b]
        /\ EdOK(qh'[work]) /\ qh'[work].n = qh[work].n
        /\ \/ qh'[work].done = td /\ qh'[work].halted = FALSE
           \/ qh'[work].done = qh[work].done /\ qh'[work].halted = TRUE
    <2>1. CASE hc_stage
      <3>1. qh' = [qh EXCEPT ![work].done = @ + 1, ![work].flagged = @ \/ FALSE]
        BY <2>1 DEF hc_stage, StageDone
      <3> DEFINE q == [qh[work] EXCEPT !.done = @ + 1, !.flagged = @ \/ FALSE]
      <3>2. DOMAIN qh' = Bufs /\ qh'[work] = q /\ \A b \in Bufs \ {work} : qh'[b] = qh[b]
        BY <1>2, <1>3, <3>1
      <3>3. /\ DOMAIN q = DOMAIN qh[work] /\ q.n = qh[work].n /\ q.halted = qh[work].halted
            /\ q.done = qh[work].done + 1
        BY <1>3
      <3> HIDE DEF q
      <3>4. q.done \in 0 .. q.n /\ q.n \in 1 .. 3 BY <1>3, <3>3
      <3>5. EdOK(q) BY <1>3, <3>3, <3>4 DEF EdOK
      <3> QED BY <1>3, <3>2, <3>3, <3>5
    <2>2. CASE hc_halt
      <3>1. qh' = [qh EXCEPT ![work].halted = TRUE] BY <2>2 DEF hc_halt, StageFails
      <3> QED BY <1>2, <1>3, <3>1 DEF EdOK
    <2> QED BY <2>1, <2>2
  <1>5. Types' BY <1>1, <1>4 DEF IInv, Types
  <1>6. HeadsKept' /\ QueueKept' /\ Pairs' /\ CurSkipped'
    BY <1>1, <1>2 DEF IInv, HeadsKept, QueueKept, Pairs, CurSkipped
  <1>7. CurTds'
    <2> SUFFICES ASSUME pc # "ready" PROVE CurTds' BY <1>1 DEF CurTds
    <2>0. cur \in Bufs BY DEF IInv, Types
    <2>1. CASE work = cur
      <3>1. Accessed(cur) = 1 .. qh[work].done /\ Accessed(cur)' = 1 .. td
        BY <1>1, <1>3, <1>4, <2>1 DEF Accessed
      <3>2. td \notin Accessed(cur) /\ td \in Accessed(cur)' /\ Accessed(cur) \subseteq Accessed(cur)'
        BY <1>3, <3>1
      <3>3. <<cur, td>> \notin hcca /\ td \notin retired BY <3>2 DEF IInv, CurTds
      <3>4. pc # "restored" BY <2>1 DEF IInv, CurSkipped
      <3> QED BY <1>1, <2>1, <3>2, <3>3, <3>4 DEF IInv, CurTds
    <2>2. CASE work # cur
      <3>1. Accessed(cur)' = Accessed(cur) BY <1>1, <1>4, <2>0, <2>2 DEF Accessed
      <3> QED BY <1>1, <2>2, <3>1 DEF IInv, CurTds
    <2> QED BY <2>1, <2>2
  <1> QED BY <1>5, <1>6, <1>7 DEF IInv

(* the done queue is published *)
LEMMA PublishStep == IInv /\ hc_publish => IInv'
  <1> SUFFICES ASSUME IInv, hc_publish PROVE IInv' OBVIOUS
  <1>1. /\ UNCHANGED <<mem, qh, pc, cur, control_head, old_head, skip, work, retired, cle, ticked>>
        /\ hcca = {} /\ hcca' = done /\ done' = {}
    BY DEF hc_publish, driver, heads
  <1>2. Kept' = Kept /\ Accessed(cur)' = Accessed(cur) BY <1>1 DEF Kept, Accessed
  <1>3. Types' BY <1>1 DEF IInv, Types
  <1>4. HeadsKept' /\ QueueKept' /\ Pairs' /\ CurSkipped'
    BY <1>1, <1>2 DEF IInv, HeadsKept, QueueKept, Pairs, CurSkipped
  <1>5. CurTds' BY <1>1, <1>2 DEF IInv, CurTds
  <1> QED BY <1>3, <1>4, <1>5 DEF IInv

(* every step preserves the inductive invariant *)
LEMMA NextIInv == IInv /\ [Next]_vars => IInv'
  <1> SUFFICES ASSUME IInv, [Next]_vars PROVE IInv' OBVIOUS
  <1>1. CASE frame_timeout \/ reap_timeout
    BY <1>1, QuarantineStep DEF frame_timeout, reap_timeout
  <1>2. CASE \E p \in Ports : connect_change(p) /\ UNCHANGED bus
    BY <1>2, Elsewhere DEF connect_change
  <1>3. CASE UNCHANGED vars
    BY <1>3, Elsewhere DEF vars, coreVars
  <1> QED
    BY <1>1, <1>2, <1>3, ResetStep, AllocFailsStep, SubmitStep, PollStep, WaitSteps, ReapStep, FreeStep,
       ConfigureStep, FrameStep, RetireStep, PublishStep DEF Next

(* The control list, the done queue and the buffers agree in every state of restore_control_schedule, *)
(* usb_transfer and the controller, when the data stage has one TD.                                   *)
THEOREM Invariance == DataTds = 1 /\ Spec => []IInv
  BY InitIInv, NextIInv, PTL DEF Spec

(* kept buffers were not freed *)
LEMMA SafeLists == IInv => NoUseAfterFree
  BY DEF IInv, HeadsKept, QueueKept, CurSkipped, Kept, NoUseAfterFree, NoRetiredTdLeft

-----------------------------------------------------------------------------
(* the ED at work is a buffer, however many TDs a data stage has *)
Working == work \in Bufs \cup {Nil} /\ control_head \in Bufs \cup {Nil} /\ old_head \in Bufs \cup {Nil}

(* EDs come from buffers *)
LEMMA NextWorking == Working /\ [Next]_vars => Working'
  BY DEF Working, Next, vars, bus, heads, driver, Quarantine, reset_port, AllocFails, submit, poll_done_queue,
     wait_for_descriptor, skip_ed, stop_control_schedule, wait_for_next_frame, frame_timeout,
     wait_for_transfer_reap, reap_timeout, transfer_done, configure_endpoints, hc_frame, hc_fetch, hc_stage,
     hc_halt, hc_publish

(* a step of the OHCI driver or controller keeps the addresses in order *)
LEMMA NextAddress == DataTds \in Nat /\ Working /\ AddressInv /\ [Next]_vars => AddressInv'
  <1> SUFFICES ASSUME DataTds \in Nat, Working, AddressInv, [Next]_vars PROVE AddressInv' OBVIOUS
  <1> USE DEF scan, addresses
  <1>1. CASE reset_port BY <1>1, ResetKeeps DEF reset_port
  <1>2. CASE AllocFails \/ (NoAddressLeft /\ UNCHANGED bus) \/ configure_endpoints
    BY <1>2, QuietKeeps DEF AllocFails, NoAddressLeft, configure_endpoints, GiveUp, PortDone
  <1>3. ASSUME NEW b \in Bufs, submit(b) PROVE AddressInv'
    <2> DEFINE r == Request(step, address')
    <2>1. address' \in Nat BY <1>3 DEF submit, Take, allocate_usb_address, AddressInv, AddressTypes
    <2>2. TransferOK(r) /\ r.value = IF step = "address" THEN address' ELSE 0
      BY <2>1 DEF Request, IdentifyEd, SetAddressEd, DescriptorEd, PacketEd, Transfer, TransferOK
    <2>3. Take(b) /\ qh' = [qh EXCEPT ![b] = r] /\ pc' # "ready" /\ UNCHANGED <<dev, scan, mishap>>
      BY <1>3 DEF submit
    <2> QED BY <2>2, <2>3, TakeKeeps
  <1>4. CASE poll_done_queue \/ wait_for_descriptor \/ skip_ed \/ stop_control_schedule \/ wait_for_next_frame
             \/ frame_timeout \/ wait_for_transfer_reap \/ reap_timeout
    BY <1>4, QuietKeeps DEF poll_done_queue, wait_for_descriptor, skip_ed, stop_control_schedule,
       wait_for_next_frame, frame_timeout, wait_for_transfer_reap, reap_timeout, Quarantine, GiveUp
  <1>5. CASE transfer_done
    <2>1. pc # "ready" /\ Free(cur) BY <1>5 DEF transfer_done
    <2>2. CASE identify_done \/ packet_done BY <2>1, <2>2, PlainEnd
    <2>3. CASE address_done BY <2>1, <2>3, AddressEnd
    <2>4. CASE descriptor_done(ResetFails) BY <2>1, <2>4, DescriptorEnd
    <2> QED
      BY <1>5, <2>2, <2>3, <2>4
      DEF transfer_done, identify_ends, set_address_ends, get_descriptor_ends, packet_ends
  <1>6. CASE hc_stage \/ hc_halt
    <2>1. work \in Bufs BY <1>6 DEF hc_stage, hc_halt, Working
    <2> QED BY <1>6, <2>1, StageKeeps, FailKeeps DEF hc_stage, hc_halt, driver
  <1>7. CASE hc_frame \/ hc_fetch \/ hc_publish \/ UNCHANGED vars
    BY <1>7, QuietKeeps DEF hc_frame, hc_fetch, hc_publish, driver, vars, coreVars
  <1>8. CASE \E p \in Ports : connect_change(p) /\ UNCHANGED bus BY <1>8, ConnectKeeps
  <1> QED BY <1>1, <1>2, <1>3, <1>4, <1>5, <1>6, <1>7, <1>8 DEF Next
=============================================================================
