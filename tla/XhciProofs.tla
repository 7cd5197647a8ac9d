------------------------------ MODULE XhciProofs ------------------------------
(***************************************************************************)
(* The xHCI driver, for any number of ports and any length of the rings,   *)
(* as long as there are fewer ports than command TRBs.  The first part is  *)
(* about the rings and their answers (IInv), the second about the memory   *)
(* that commands, contexts and endpoints point to (MemInv).                *)
(***************************************************************************)
EXTENDS Xhci, FiniteSetTheorems, SequenceTheorems, TLAPS

(* of the constants: a port has at most one command that was given up, and the ring *)
(* has room for one of each port; a transfer that wraps finds its first half free   *)
Sizes ==
  /\ None \notin XPorts /\ IsFiniteSet(XPorts)
  /\ CmdLink \in Nat /\ CmdLink > 1 /\ Cardinality(XPorts) < CmdLink
  /\ Ep0Links \subseteq Nat /\ \A l \in Ep0Links : l >= 5
  /\ \A l \in Ep0Links : \A s \in XPorts, p \in XPorts, a \in 0 .. l, c \in 0 .. 1 :
       None # [slot |-> s, port |-> p, at |-> a, cycle |-> c]

-----------------------------------------------------------------------------
(* A ring: the driver's place enq, the controller's place deq. *)

(* the cycle bits in front of enq are those of its pass, the others of the pass before *)
RingOK(ring, link, enq) ==
  /\ DOMAIN ring = 0 .. link
  /\ enq.at \in 0 .. link - 1 /\ enq.cycle \in 0 .. 1 /\ enq = Place(enq.at, enq.cycle)
  /\ \A i \in 0 .. link - 1 : ring[i].cycle = IF i < enq.at THEN enq.cycle ELSE 1 - enq.cycle

(* the controller is on the same pass or on the one before *)
Behind(link, deq, enq) ==
  LET d == Ahead(link, deq, 0) IN
  /\ deq.at \in 0 .. link /\ deq.cycle \in 0 .. 1 /\ deq = Place(deq.at, deq.cycle)
  /\ IF d.cycle = enq.cycle THEN d.at <= enq.at ELSE enq.at <= d.at /\ deq.at < link

(* the link lets the controller pass if it is still to do so *)
LinkOK(ring, link, deq, enq) == deq.cycle # enq.cycle => ring[link].cycle = deq.cycle

(* how many TRBs are left for the controller *)
Left(link, deq, enq) ==
  LET d == Ahead(link, deq, 0) IN
  IF d.cycle = enq.cycle THEN enq.at - d.at ELSE enq.at + link - d.at

(* how many TRBs ago i was written *)
Back(link, enq, i) == IF i < enq.at THEN enq.at - i ELSE enq.at + link - i

(* where the next TRB of the controller is *)
LEMMA NextTrb ==
  ASSUME NEW link \in Nat \ {0}, NEW deq, deq.at \in 0 .. link, deq.cycle \in 0 .. 1
  PROVE  /\ Ahead(link, deq, 0).at = IF deq.at < link THEN deq.at ELSE 0
         /\ Ahead(link, deq, 0).cycle = IF deq.at < link THEN deq.cycle ELSE 1 - deq.cycle
BY DEF Ahead, Place

(* the controller has nothing to do when nothing is left *)
LEMMA NothingLeft ==
  ASSUME NEW ring, NEW link \in Nat \ {0}, NEW deq, NEW enq,
         RingOK(ring, link, enq), Behind(link, deq, enq), Left(link, deq, enq) = 0
  PROVE  ~Owned(ring, link, deq)
<1> DEFINE d == Ahead(link, deq, 0)
<1>1. d.at = enq.at /\ d.cycle = enq.cycle
  BY NextTrb DEF RingOK, Behind, Left
<1> QED
  BY <1>1 DEF RingOK, Owned

(* how much can be left *)
LEMMA LeftBounds ==
  ASSUME NEW ring, NEW link \in Nat \ {0}, NEW deq, NEW enq,
         RingOK(ring, link, enq), Behind(link, deq, enq)
  PROVE  Left(link, deq, enq) \in 0 .. link
BY DEF RingOK, Behind, Left, Ahead, Place

(* A TRB is fetched: the oldest of those that are left. *)
LEMMA Fetched ==
  ASSUME NEW ring, NEW link \in Nat \ {0}, NEW deq, NEW enq,
         RingOK(ring, link, enq), Behind(link, deq, enq), Left(link, deq, enq) > 0
  PROVE  /\ Behind(link, Consumed(link, deq), enq)
         /\ LinkOK(ring, link, deq, enq) => LinkOK(ring, link, Consumed(link, deq), enq)
         /\ Left(link, Consumed(link, deq), enq) = Left(link, deq, enq) - 1
         /\ Ahead(link, deq, 0).at \in 0 .. link - 1
         /\ Back(link, enq, Ahead(link, deq, 0).at) = Left(link, deq, enq)
<1> DEFINE d == Ahead(link, deq, 0)
           e == Consumed(link, deq)
<1>1. /\ d.at = (IF deq.at < link THEN deq.at ELSE 0)
      /\ d.cycle = (IF deq.at < link THEN deq.cycle ELSE 1 - deq.cycle)
      /\ deq.at \in 0 .. link /\ deq.cycle \in 0 .. 1 /\ enq.at \in 0 .. link - 1 /\ enq.cycle \in 0 .. 1
  BY NextTrb DEF RingOK, Behind
<1>2. e = Place(d.at + 1, d.cycle) /\ e.at = d.at + 1 /\ e.cycle = d.cycle
  BY DEF Consumed, Place
<1>3. /\ Ahead(link, e, 0).at = (IF e.at < link THEN e.at ELSE 0)
      /\ Ahead(link, e, 0).cycle = (IF e.at < link THEN e.cycle ELSE 1 - e.cycle)
  BY <1>1, <1>2, NextTrb
<1> HIDE DEF d, e
<1>4. CASE d.cycle = enq.cycle
  <2>1. d.at < enq.at
    BY <1>1, <1>4 DEF Left, d
  <2>2. deq.at = link => deq.cycle # enq.cycle
    BY <1>1, <1>4
  <2> QED
    BY <1>1, <1>2, <1>3, <1>4, <2>1, <2>2 DEF Behind, LinkOK, Left, Back, d, e
<1>5. CASE d.cycle # enq.cycle
  <2>1. enq.at <= d.at /\ deq.at < link /\ d.at = deq.at /\ enq.cycle = 1 - d.cycle
    BY <1>1, <1>5 DEF Behind, d
  <2>2. Behind(link, e, enq)
    BY <1>1, <1>2, <1>3, <1>5, <2>1 DEF Behind
  <2>3. Left(link, e, enq) = Left(link, deq, enq) - 1
    BY <1>1, <1>2, <1>3, <1>5, <2>1 DEF Left, d
  <2> QED
    BY <1>1, <1>2, <1>5, <2>1, <2>2, <2>3 DEF LinkOK, Left, Back, d, e
<1> QED
  BY <1>4, <1>5

(* the last TRB written, and how far back the others are *)
LEMMA Backs ==
  ASSUME NEW link \in Nat \ {0}, NEW enq, enq.at \in 0 .. link - 1, NEW i \in 0 .. link - 1
  PROVE  /\ Back(link, enq, i) \in 1 .. link
         /\ Back(link, enq, i) = 1 <=> i = IF enq.at = 0 THEN link - 1 ELSE enq.at - 1
         /\ Back(link, Ahead(link, enq, 1), i) = IF i = enq.at THEN 1 ELSE Back(link, enq, i) + 1
BY DEF Back, Ahead, Place

(* different TRBs were written at different times *)
LEMMA BackApart ==
  ASSUME NEW link \in Nat \ {0}, NEW enq, enq.at \in 0 .. link - 1, NEW i \in 0 .. link - 1, NEW j \in 0 .. link - 1,
         Back(link, enq, i) = Back(link, enq, j)
  PROVE  i = j
BY DEF Back

(* what the invariant says of a ring is that driver and controller are in step *)
LEMMA InOrder ==
  ASSUME NEW ring, NEW link \in Nat \ {0}, NEW deq, NEW enq,
         RingOK(ring, link, enq), Behind(link, deq, enq), LinkOK(ring, link, deq, enq)
  PROVE  InStep(ring, link, deq, enq)
<1> DEFINE n == Left(link, deq, enq)
<1>1. n \in 0 .. link
  BY LeftBounds
<1>2. Ahead(link, deq, n) = enq
  BY DEF RingOK, Behind, Left, Ahead, Place
<1>3. ring[enq.at].cycle # enq.cycle
  BY DEF RingOK
<1>4. ASSUME NEW k \in 0 .. n - 1
      PROVE  LET x == Ahead(link, deq, k) IN ring[x.at].cycle = x.cycle
  <2> DEFINE x == Ahead(link, deq, k)
  <2>1. /\ x.at = (IF deq.at + k < link THEN deq.at + k ELSE deq.at + k - link)
        /\ x.cycle = (IF deq.at + k < link THEN deq.cycle ELSE 1 - deq.cycle)
        /\ deq.at \in 0 .. link /\ deq.cycle \in 0 .. 1 /\ enq.at \in 0 .. link - 1 /\ enq.cycle \in 0 .. 1 /\ k \in Nat
    BY <1>1 DEF Ahead, Place, RingOK, Behind
  <2>2. /\ Ahead(link, deq, 0).at = (IF deq.at < link THEN deq.at ELSE 0)
        /\ Ahead(link, deq, 0).cycle = (IF deq.at < link THEN deq.cycle ELSE 1 - deq.cycle)
    BY <2>1, NextTrb
  <2> HIDE DEF x
  <2>3. x.at \in 0 .. link - 1 /\ IF x.at < enq.at THEN x.cycle = enq.cycle ELSE x.cycle = 1 - enq.cycle
    BY <2>1, <2>2 DEF Left, Behind
  <2>4. ring[x.at].cycle = x.cycle
    BY <2>3 DEF RingOK
  <2> QED
    BY <2>4 DEF x
<1>5. deq.at + n >= link => ring[link].cycle = deq.cycle
  BY DEF RingOK, Behind, LinkOK, Left, Ahead, Place
<1> QED
  BY <1>1, <1>2, <1>3, <1>4, <1>5 DEF InStep, Reachable

-----------------------------------------------------------------------------
(* Commands. *)
CommandTypes == {"no-op", "enable", "disable", "address", "evaluate", "configure"}
Commands ==
  {c \in [type : CommandTypes, slot : Slots \cup {None}, port : XPorts \cup {None}] :
     c.slot = None => c.type \in {"enable", "no-op"}}
CmdLeft == Left(CmdLink, command_deq, command_enq)
CmdBack(i) == Back(CmdLink, command_enq, i)
Last == IF command_enq.at = 0 THEN CmdLink - 1 ELSE command_enq.at - 1

IsCommand(i) == i \in DOMAIN events /\ events[i].of = "command"
NoCommandEvents == \A i \in DOMAIN events : events[i].of # "command"

(* at most b commands are under way: not fetched, or their completion not taken *)
Room(b) == CmdLeft <= b /\ \A i \in DOMAIN events : IsCommand(i) => CmdBack(events[i].at) <= b

(* how many commands can be under way: one of each port that was tried, none but *)
(* its own once a port has a slot                                                *)
Bound ==
  CASE slot # None -> IF pc = "command" THEN 1 ELSE 0
    [] slot = None /\ port # None -> IF pc = "command" THEN Cardinality(attempted) ELSE Cardinality(attempted) - 1
    [] slot = None /\ port = None ->
         CASE step = "scan" -> Cardinality(attempted)
           [] step = "off" \/ (step = "init" /\ pc = "command") -> 1
           [] OTHER -> 0

(* where the driver is *)
Identifying == {"identify", "address", "identified", "drop", "release"}
WithSlot == Identifying \cup {"evaluate", "endpoints"} \cup PacketSteps
WithPort == {"reset", "enable"}
WithoutPort == {"handoff", "halt", "scratchpad", "init", "ports", "off", "scan"}

Types ==
  /\ ep0_link \in Ep0Links
  /\ step \in WithSlot \cup WithPort \cup WithoutPort /\ pc \in {"ready", "command", "transfer"}
  /\ step \in WithSlot => slot \in Slots /\ port \in attempted
  /\ step \in WithPort => slot = None /\ port \in attempted
  /\ step \in WithoutPort => slot = None /\ port = None
  /\ attempted \subseteq XPorts
  /\ slots \in [XPorts -> Slots \cup {None}] /\ \A p \in XPorts \ attempted : slots[p] = None
  /\ step \in Identifying \cup WithPort => slots[port] = None
  /\ DOMAIN ep0 = XPorts /\ DOMAIN ep0_enq = XPorts /\ DOMAIN ep0_deq = XPorts /\ ep0_halted \in [XPorts -> BOOLEAN]
  /\ dcbaa \in [Slots -> XPorts \cup {None}]
  /\ hslots \in [Slots -> [state : {"off", "enabled", "addressed", "configured"}, port : XPorts \cup {None}]]
  /\ pc = "transfer" => step \in {"identified"} \cup PacketSteps

(* the command ring *)
RingInv ==
  /\ RingOK(commands, CmdLink, command_enq) /\ Behind(CmdLink, command_deq, command_enq)
  /\ LinkOK(commands, CmdLink, command_deq, command_enq)
  /\ \A i \in 0 .. CmdLink - 1 : CmdBack(i) <= CmdLeft =>
       /\ commands[i].what \in Commands
       /\ commands[i].what.slot # None => CmdBack(i) = CmdLeft /\ NoCommandEvents

(* the completions on their way are those of the last commands, in order *)
Completions ==
  \A i \in DOMAIN events : IsCommand(i) =>
    /\ events[i].at \in 0 .. CmdLink - 1 /\ CmdBack(events[i].at) > CmdLeft
    /\ events[i].at = Last => events[i].from = commands[Last].what
    /\ \A j \in DOMAIN events : IsCommand(j) /\ i < j => CmdBack(events[i].at) > CmdBack(events[j].at)
EventInv == events \in Seq({events[i] : i \in DOMAIN events}) /\ Completions

(* the completion taken was that of the last command, and the last to come *)
AnswerInv ==
  /\ waiting = None \/ waiting = [at |-> Last, command |-> commands[Last].what]
  /\ answer # None => answer.from = waiting.command /\ CmdLeft = 0 /\ NoCommandEvents

CommandInv == Sizes /\ RingInv /\ EventInv /\ AnswerInv

(* who has a slot *)
IsEnable(i) == IsCommand(i) /\ events[i].code = "ok" /\ events[i].from.type = "enable"
SlotInv ==
  /\ slot # None /\ CmdLeft > 0 =>
       /\ commands[Last].what.slot = slot /\ commands[Last].what.type \notin {"enable", "no-op"}
       /\ commands[Last].what.type = "address" => dcbaa[slot] = port
  /\ step = "enable" /\ pc = "command" => commands[Last].what.type = "enable"
  /\ slot # None /\ hslots[slot].state \in {"addressed", "configured"} => hslots[slot].port = port
  /\ \A i \in DOMAIN events : IsEnable(i) =>
       /\ events[i].slot \in Slots /\ hslots[events[i].slot].state = "enabled"
       /\ \A j \in DOMAIN events : i < j /\ events[j].of = "transfer" => events[j].slot # events[i].slot
  /\ step = "enable" /\ pc = "command" /\ answer # None /\ answer.code = "ok" =>
       /\ answer.slot \in Slots /\ hslots[answer.slot].state = "enabled"
       /\ \A i \in DOMAIN events : events[i].of = "transfer" => events[i].slot # answer.slot

-----------------------------------------------------------------------------
(* Transfers. *)
Enq(p) == IF pc = "transfer" /\ port = p THEN AfterTransfer ELSE ep0_enq[p]
Ep0Left(p) == Left(ep0_link, ep0_deq[p], Enq(p))
Ep0Back(p, i) == Back(ep0_link, Enq(p), i)

(* the ports whose ring is in order: not tried yet, being enumerated, or in use *)
Live(p) ==
  \/ p \notin attempted
  \/ p = port /\ (step = "release" => ~ep0_halted[p])
  \/ slots[p] # None /\ ~needs_reinit

(* the ring of p is in order, and what is left ends with the last status TRB *)
InOrderEp0(p) ==
  /\ RingOK(ep0[p], ep0_link, Enq(p)) /\ Behind(ep0_link, ep0_deq[p], Enq(p))
  /\ p \in unpublished \/ LinkOK(ep0[p], ep0_link, ep0_deq[p], Enq(p))
  /\ (pc = "transfer" /\ p = port) \/ Ep0Left(p) = 0
  /\ \A i \in 0 .. ep0_link - 1 :
       Ep0Back(p, i) <= Ep0Left(p) /\ ep0[p][i].what = "status" => Ep0Back(p, i) = 1

Ep0Inv == \A p \in XPorts : Live(p) => InOrderEp0(p)

(* a transfer event of the slot in use *)
IsMine(i) == i \in DOMAIN events /\ events[i].of = "transfer" /\ events[i].slot = slot

(* once it is done or has failed, there is nothing more to come *)
Over(code) == (code = "ok" => Ep0Left(port) = 0) /\ (code = "error" => ep0_halted[port])

TransferInv ==
  /\ pc = "transfer" =>
       /\ armed.slot = slot /\ armed.port = port /\ armed.at \in 0 .. ep0_link - 1 /\ armed.cycle \in 0 .. 1
       /\ armed = [slot |-> armed.slot, port |-> armed.port, at |-> armed.at, cycle |-> armed.cycle]
       /\ ep0[port][armed.at].what = "status"
  /\ pc # "transfer" => armed = None /\ got = None
  /\ got # None => got.from = port /\ got.code \in {"ok", "error"} /\ Over(got.code)
  /\ slot # None => \A i \in DOMAIN events : IsMine(i) =>
       /\ pc = "transfer" /\ got = None /\ events[i].from = port /\ events[i].code \in {"ok", "error", "short"}
       /\ events[i].code = "short" => events[i].at # armed.at
       /\ Over(events[i].code)
       /\ events[i].code # "short" => \A j \in DOMAIN events : i < j => ~IsMine(j)

IInv == CommandInv /\ Types /\ Room(Bound) /\ SlotInv /\ Ep0Inv /\ TransferInv

-----------------------------------------------------------------------------
(* an event is added to the event ring *)
LEMMA Added ==
  ASSUME NEW q, q \in Seq({q[i] : i \in DOMAIN q}), NEW e
  PROVE  LET r == Append(q, e) IN
         /\ r \in Seq({r[i] : i \in DOMAIN r})
         /\ Len(q) \in Nat /\ DOMAIN q = 1 .. Len(q) /\ DOMAIN r = 1 .. Len(q) + 1
         /\ \A i \in DOMAIN q : r[i] = q[i]
         /\ r[Len(q) + 1] = e
<1> DEFINE S == {q[i] : i \in DOMAIN q} \cup {e}
           r == Append(q, e)
           T == {r[i] : i \in DOMAIN r}
<1>1. q \in Seq(S)
  BY SeqMonotonic
<1>2. r \in Seq(S) /\ Len(r) = Len(q) + 1 /\ \A i \in 1 .. Len(r) : r[i] = IF i <= Len(q) THEN q[i] ELSE e
  BY <1>1, AppendProperties
<1>3. Len(q) \in Nat /\ DOMAIN q = 1 .. Len(q) /\ DOMAIN r = 1 .. Len(r)
  BY <1>1, <1>2, LenProperties
<1>4. r \in Seq(T)
  <2>1. r \in [1 .. Len(r) -> S] /\ Len(r) \in Nat
    BY <1>2, LenProperties
  <2>2. r \in [1 .. Len(r) -> T]
    BY <2>1
  <2>3. Seq(T) = UNION {[1 .. n -> T] : n \in Nat}
    BY SeqDef
  <2> HIDE DEF T, r
  <2> QED
    BY <2>1, <2>2, <2>3, Zenon
<1> QED
  BY <1>2, <1>3, <1>4

(* the first event is taken off *)
LEMMA Taken ==
  ASSUME NEW q, q \in Seq({q[i] : i \in DOMAIN q}), q # << >>
  PROVE  LET r == Tail(q) IN
         /\ r \in Seq({r[i] : i \in DOMAIN r})
         /\ Len(q) \in Nat \ {0} /\ DOMAIN q = 1 .. Len(q) /\ DOMAIN r = 1 .. Len(q) - 1
         /\ \A i \in DOMAIN r : r[i] = q[i + 1]
         /\ Head(q) = q[1]
<1> DEFINE S == {q[i] : i \in DOMAIN q}
           r == Tail(q)
           T == {r[i] : i \in DOMAIN r}
<1>1. r \in Seq(S) /\ Len(r) = Len(q) - 1 /\ Head(q) = q[1] /\ \A i \in 1 .. Len(r) : r[i] = q[i + 1]
  BY HeadTailProperties
<1>2. Len(q) \in Nat \ {0} /\ DOMAIN q = 1 .. Len(q) /\ DOMAIN r = 1 .. Len(r)
  BY <1>1, LenProperties, EmptySeq
<1>3. r \in Seq(T)
  <2>1. r \in [1 .. Len(r) -> S] /\ Len(r) \in Nat
    BY <1>1, LenProperties
  <2>2. r \in [1 .. Len(r) -> T]
    BY <2>1
  <2>3. Seq(T) = UNION {[1 .. n -> T] : n \in Nat}
    BY SeqDef
  <2> HIDE DEF T, r
  <2> QED
    BY <2>1, <2>2, <2>3, Zenon
<1> QED
  BY <1>1, <1>2, <1>3

-----------------------------------------------------------------------------
(* The command ring. *)

(* the sizes are numbers *)
LEMMA Numbers ==
  ASSUME Sizes
  PROVE  /\ CmdLink \in Nat \ {0} /\ CmdLink > 1
         /\ Cardinality(XPorts) \in Nat /\ Cardinality(XPorts) < CmdLink
         /\ \A l \in Ep0Links : l \in Nat \ {0} /\ l >= 5
<1>1. Cardinality(XPorts) \in Nat
  BY FS_CardinalityType DEF Sizes
<1> QED
  BY <1>1 DEF Sizes

(* submit_command puts one more TRB into the ring, if it has room *)
LEMMA OneMore ==
  ASSUME Sizes, RingInv, NEW c, submit_command(c), UNCHANGED command_deq, CmdLeft < CmdLink - 1
  PROVE  /\ RingOK(commands', CmdLink, command_enq') /\ Behind(CmdLink, command_deq', command_enq')
         /\ LinkOK(commands', CmdLink, command_deq', command_enq')
         /\ CmdLeft \in Nat /\ CmdLeft' = CmdLeft + 1 /\ Last' = command_enq.at
         /\ \A i \in 0 .. CmdLink - 1 :
              /\ commands'[i].what = IF i = Last' THEN c ELSE commands[i].what
              /\ CmdBack(i) \in 1 .. CmdLink
              /\ CmdBack(i)' = IF i = Last' THEN 1 ELSE CmdBack(i) + 1
<1>1. CmdLink \in Nat \ {0} /\ CmdLink > 1
  BY Numbers
<1> DEFINE l == CmdLink
           h == command_enq
           d == Ahead(l, command_deq, 0)
           g == Ahead(l, h, 1)
<1>2. /\ h.at \in 0 .. l - 1 /\ h.cycle \in 0 .. 1 /\ command_deq.at \in 0 .. l /\ command_deq.cycle \in 0 .. 1
      /\ d.at = (IF command_deq.at < l THEN command_deq.at ELSE 0)
      /\ d.cycle = (IF command_deq.at < l THEN command_deq.cycle ELSE 1 - command_deq.cycle)
  BY <1>1, NextTrb DEF RingInv, RingOK, Behind
<1>3. /\ g = command_enq'
      /\ g.at = (IF h.at + 1 < l THEN h.at + 1 ELSE 0)
      /\ g.cycle = (IF h.at + 1 < l THEN h.cycle ELSE 1 - h.cycle)
      /\ g = Place(g.at, g.cycle)
  BY <1>1, <1>2 DEF submit_command, Ahead, Place
<1>4. Last' = h.at
  BY <1>1, <1>2, <1>3 DEF Last
<1>5. /\ DOMAIN commands' = 0 .. l
      /\ \A i \in 0 .. l - 1 : commands'[i] = IF i = h.at THEN Trb(c, h.cycle) ELSE commands[i]
      /\ commands'[l] = IF h.at + 1 = l THEN Trb("link", h.cycle) ELSE commands[l]
  BY <1>1, <1>2 DEF submit_command
<1>6. RingOK(commands', l, g)
  BY <1>1, <1>2, <1>3, <1>5 DEF RingInv, RingOK, Trb
<1>7. Behind(l, command_deq', g) /\ CmdLeft \in Nat /\ Left(l, command_deq', g) = CmdLeft + 1
  <2>1. CASE d.cycle = h.cycle
    BY <1>1, <1>2, <1>3, <2>1 DEF RingInv, Behind, CmdLeft, Left
  <2>2. CASE d.cycle # h.cycle
    BY <1>1, <1>2, <1>3, <2>2 DEF RingInv, Behind, CmdLeft, Left
  <2> QED
    BY <2>1, <2>2
<1>8. LinkOK(commands', l, command_deq', g)
  <2>1. CASE h.at + 1 = l
    BY <1>1, <1>2, <1>3, <1>5, <2>1 DEF LinkOK, Trb
  <2>2. CASE h.at + 1 < l
    BY <1>1, <1>2, <1>3, <1>5, <2>2 DEF RingInv, LinkOK
  <2> QED
    BY <1>1, <1>2, <2>1, <2>2
<1>9. ASSUME NEW i \in 0 .. l - 1
      PROVE  /\ commands'[i].what = (IF i = Last' THEN c ELSE commands[i].what)
             /\ CmdBack(i) \in 1 .. l /\ CmdBack(i)' = IF i = Last' THEN 1 ELSE CmdBack(i) + 1
  BY <1>1, <1>2, <1>3, <1>4, <1>5, Backs DEF CmdBack, Trb
<1> QED
  BY <1>3, <1>4, <1>6, <1>7, <1>8, <1>9 DEF CmdLeft

(* A command is submitted: those under way are one more, and none is lost from sight. *)
LEMMA Submitted ==
  ASSUME CommandInv, NEW c \in Commands, submit_command(c), UNCHANGED <<command_deq, events>>,
         NEW b \in Nat, Room(b), b + 1 < CmdLink,
         c.slot # None => CmdLeft = 0 /\ NoCommandEvents
  PROVE  /\ CommandInv' /\ Room(b + 1)' /\ answer' = None
         /\ commands'[Last'].what = c
         /\ b = 0 => CmdLeft' = 1
<1>1. CmdLink \in Nat \ {0} /\ CmdLink > 1 /\ CmdLeft < CmdLink - 1
  <2>1. CmdLink \in Nat \ {0} /\ CmdLink > 1
    BY Numbers DEF CommandInv
  <2>2. CmdLeft \in 0 .. CmdLink
    BY <2>1, LeftBounds DEF CommandInv, RingInv, CmdLeft
  <2> QED
    BY <2>1, <2>2 DEF Room
<1>2. /\ RingOK(commands', CmdLink, command_enq') /\ Behind(CmdLink, command_deq', command_enq')
      /\ LinkOK(commands', CmdLink, command_deq', command_enq')
      /\ CmdLeft \in Nat /\ CmdLeft' = CmdLeft + 1 /\ Last' = command_enq.at
      /\ \A i \in 0 .. CmdLink - 1 :
           /\ commands'[i].what = IF i = Last' THEN c ELSE commands[i].what
           /\ CmdBack(i) \in 1 .. CmdLink
           /\ CmdBack(i)' = IF i = Last' THEN 1 ELSE CmdBack(i) + 1
  BY <1>1, OneMore DEF CommandInv
<1>3. Last' \in 0 .. CmdLink - 1
  BY <1>2 DEF CommandInv, RingInv, RingOK
<1>4. \A i \in DOMAIN events : IsCommand(i) =>
        events[i].at \in 0 .. CmdLink - 1 /\ events[i].at # Last' /\ CmdBack(events[i].at)' = CmdBack(events[i].at) + 1
  <2>1. CmdBack(Last') = CmdLink
    BY <1>1, <1>2, <1>3 DEF CmdBack, Back
  <2>2. ASSUME NEW i \in DOMAIN events, IsCommand(i)
        PROVE  events[i].at \in 0 .. CmdLink - 1 /\ CmdBack(events[i].at) <= b
    BY <2>2 DEF CommandInv, EventInv, Completions, Room
  <2> QED
    BY <1>1, <1>2, <2>1, <2>2
<1>5. RingInv'
  <2> SUFFICES ASSUME NEW i \in 0 .. CmdLink - 1, CmdBack(i)' <= CmdLeft'
               PROVE  /\ commands'[i].what \in Commands
                      /\ commands'[i].what.slot # None => CmdBack(i)' = CmdLeft' /\ NoCommandEvents'
    BY <1>2 DEF RingInv
  <2>1. CASE i = Last'
    BY <1>2, <2>1 DEF NoCommandEvents
  <2>2. CASE i # Last'
    BY <1>2, <2>2 DEF CommandInv, RingInv, NoCommandEvents
  <2> QED
    BY <2>1, <2>2
<1>6. EventInv'
  <2>1. \A i : IsCommand(i)' <=> IsCommand(i)
    BY DEF IsCommand
  <2>2. (events \in Seq({events[i] : i \in DOMAIN events}))'
    BY DEF CommandInv, EventInv
  <2>3. ASSUME NEW i \in DOMAIN events, IsCommand(i)
        PROVE  /\ events[i].at \in 0 .. CmdLink - 1 /\ CmdBack(events[i].at)' > CmdLeft' /\ events[i].at # Last'
               /\ \A j \in DOMAIN events : IsCommand(j) /\ i < j => CmdBack(events[i].at)' > CmdBack(events[j].at)'
    BY <1>2, <1>4, <2>3 DEF CommandInv, EventInv, Completions
  <2> QED
    BY <2>1, <2>2, <2>3 DEF EventInv, Completions
<1>7. AnswerInv'
  BY <1>2, <1>3 DEF AnswerInv, submit_command
<1>8. Room(b + 1)'
  <2>1. CmdLeft' <= b + 1
    BY <1>2 DEF Room
  <2>2. ASSUME NEW i \in DOMAIN events, IsCommand(i) PROVE CmdBack(events[i].at)' <= b + 1
    BY <1>2, <1>4, <2>2 DEF Room
  <2> QED
    BY <2>1, <2>2 DEF Room, IsCommand
<1>9. b = 0 => CmdLeft' = 1
  BY <1>2 DEF Room
<1>10. Sizes'
  BY DEF CommandInv, Sizes
<1> QED
  BY <1>2, <1>3, <1>5, <1>6, <1>7, <1>8, <1>9, <1>10 DEF CommandInv, submit_command

(* nothing happens to commands *)
LEMMA CommandsKept ==
  ASSUME CommandInv, UNCHANGED <<queues, command_deq, events>>
  PROVE  /\ CommandInv' /\ CmdLeft' = CmdLeft /\ Last' = Last /\ (NoCommandEvents <=> NoCommandEvents')
         /\ \A b : Room(b)' <=> Room(b)
<1>1. UNCHANGED <<CmdLeft, Last>> /\ (NoCommandEvents <=> NoCommandEvents')
  BY DEF queues, CmdLeft, Last, NoCommandEvents
<1>2. \A i : CmdBack(i)' = CmdBack(i) /\ (IsCommand(i)' <=> IsCommand(i))
  BY DEF queues, CmdBack, IsCommand
<1>3. RingInv' /\ AnswerInv' /\ Sizes'
  BY <1>1, <1>2 DEF CommandInv, RingInv, AnswerInv, queues, Sizes
<1>4. EventInv'
  BY <1>1, <1>2 DEF CommandInv, EventInv, Completions, queues
<1> QED
  BY <1>1, <1>2, <1>3, <1>4 DEF CommandInv, Room

(* The first event is taken.  If it is for the last command, no other command is under way. *)
LEMMA EventTaken ==
  ASSUME CommandInv, xhci_process_events
  PROVE  /\ CommandInv' /\ \A b : Room(b) => Room(b)'
         /\ answer' # answer => IsCommand(1) /\ answer' = events[1] /\ events[1].from = commands[Last].what
<1>1. CmdLink \in Nat \ {0}
  BY Numbers DEF CommandInv
<1>2. UNCHANGED <<commands, command_enq, command_deq, waiting, CmdLeft, Last>> /\ events' = Tail(events)
      /\ \A i : CmdBack(i)' = CmdBack(i)
  BY DEF xhci_process_events, controller, CmdLeft, Last, CmdBack
<1>3. /\ (events \in Seq({events[i] : i \in DOMAIN events}))'
      /\ Len(events) \in Nat \ {0} /\ DOMAIN events = 1 .. Len(events) /\ DOMAIN events' = 1 .. Len(events) - 1
      /\ \A i \in DOMAIN events' : events'[i] = events[i + 1]
      /\ Head(events) = events[1]
  BY <1>2, Taken DEF CommandInv, EventInv, xhci_process_events
<1>4. \A i \in DOMAIN events' : i + 1 \in DOMAIN events /\ (IsCommand(i)' <=> IsCommand(i + 1))
  BY <1>3 DEF IsCommand
<1> USE DEF Completions
<1>9. Completions
  BY DEF CommandInv, EventInv
<1>5. RingInv'
  <2>1. NoCommandEvents => NoCommandEvents'
    BY <1>3, <1>4 DEF NoCommandEvents
  <2> QED
    BY <1>2, <2>1 DEF CommandInv, RingInv
<1>6. EventInv'
  <2>1. ASSUME NEW i \in DOMAIN events', IsCommand(i)'
        PROVE  /\ events'[i].at \in 0 .. CmdLink - 1 /\ CmdBack(events'[i].at) > CmdLeft
               /\ events'[i].at = Last => events'[i].from = commands[Last].what
               /\ \A j \in DOMAIN events' : IsCommand(j)' /\ i < j => CmdBack(events'[i].at) > CmdBack(events'[j].at)
    <3>1. i + 1 \in DOMAIN events /\ IsCommand(i + 1) /\ events'[i] = events[i + 1]
      BY <1>3, <1>4, <2>1
    <3>2. ASSUME NEW j \in DOMAIN events', IsCommand(j)', i < j
          PROVE  CmdBack(events'[i].at) > CmdBack(events'[j].at)
      <4>1. j + 1 \in DOMAIN events /\ IsCommand(j + 1) /\ events'[j] = events[j + 1] /\ i + 1 < j + 1
        BY <1>3, <1>4, <3>2
      <4> QED
        BY <1>9, <3>1, <4>1
    <3> QED
      BY <1>9, <3>1, <3>2
  <2> QED
    BY <1>2, <1>3, <2>1 DEF EventInv
<1>7. AnswerInv' /\ (answer' # answer => IsCommand(1) /\ answer' = events[1] /\ events[1].from = commands[Last].what)
  <2>1. CASE answer' = answer
    BY <1>2, <1>3, <1>4, <2>1 DEF CommandInv, AnswerInv, NoCommandEvents, IsCommand
  <2>2. CASE answer' # answer
    <3>1. answer' = events[1] /\ IsCommand(1) /\ waiting # None /\ events[1].at = Last
      BY <1>3, <2>2 DEF CommandInv, AnswerInv, xhci_process_events, process_event, IsCommand
    <3>2. Last \in 0 .. CmdLink - 1 /\ CmdBack(Last) = 1
      BY <1>1, Backs DEF CommandInv, RingInv, RingOK, Last, CmdBack
    <3>3. events[1].from = commands[Last].what /\ CmdLeft = 0
      <4>1. events[1].from = commands[Last].what /\ 1 > CmdLeft
        BY <1>3, <1>9, <3>1, <3>2
      <4>2. CmdLeft \in 0 .. CmdLink
        BY <1>1, LeftBounds DEF CommandInv, RingInv, CmdLeft
      <4> QED
        BY <4>1, <4>2
    <3>4. ASSUME NEW i \in DOMAIN events', IsCommand(i)' PROVE FALSE
      <4>1. i + 1 \in DOMAIN events /\ IsCommand(i + 1) /\ 1 < i + 1
        BY <1>3, <1>4, <3>4
      <4>2. CmdBack(events[1].at) > CmdBack(events[i + 1].at) /\ events[i + 1].at \in 0 .. CmdLink - 1
        BY <1>3, <1>9, <3>1, <4>1
      <4>3. CmdBack(events[i + 1].at) \in 1 .. CmdLink
        BY <1>1, <4>2, Backs DEF CommandInv, RingInv, RingOK, CmdBack
      <4> QED
        BY <3>1, <3>2, <4>2, <4>3
    <3> QED
      BY <1>2, <3>1, <3>3, <3>4 DEF CommandInv, AnswerInv, NoCommandEvents, IsCommand
  <2> QED
    BY <2>1, <2>2
<1>8. Sizes'
  BY DEF CommandInv, Sizes
<1> QED
  BY <1>2, <1>3, <1>4, <1>5, <1>6, <1>7, <1>8 DEF CommandInv, Room

(* A command is fetched, the oldest one, and ends: its completion is behind those of older ones. *)
LEMMA CommandEnds ==
  ASSUME CommandInv, hc_command
  PROVE  LET at == Ahead(CmdLink, command_deq, 0).at IN
         /\ CommandInv' /\ \A b \in Nat : Room(b) => Room(b)'
         /\ UNCHANGED <<commands, Last>> /\ CmdLeft > 0 /\ CmdLeft' = CmdLeft - 1
         /\ at \in 0 .. CmdLink - 1 /\ CmdBack(at) = CmdLeft /\ commands[at].what \in Commands
         /\ commands[at].what.slot # None => NoCommandEvents
<1>1. CmdLink \in Nat \ {0}
  BY Numbers DEF CommandInv
<1> DEFINE at == Ahead(CmdLink, command_deq, 0).at
           n == Len(events) + 1
<1>2. UNCHANGED <<commands, command_enq, waiting, answer, Last>> /\ \A i : CmdBack(i)' = CmdBack(i)
  BY DEF hc_command, driver, queues, CmdBack, Last
<1>3. CmdLeft \in 0 .. CmdLink /\ CmdLeft > 0
  BY <1>1, LeftBounds, NothingLeft DEF CommandInv, RingInv, CmdLeft, hc_command
<1>4. /\ Behind(CmdLink, command_deq', command_enq) /\ LinkOK(commands, CmdLink, command_deq', command_enq)
      /\ CmdLeft' = CmdLeft - 1 /\ at \in 0 .. CmdLink - 1 /\ CmdBack(at) = CmdLeft
  BY <1>1, <1>2, <1>3, Fetched DEF CommandInv, RingInv, CmdLeft, CmdBack, hc_command
<1>5. PICK e : /\ events' = Append(events, e)
               /\ e.of = "command" /\ e.at = at /\ e.from = commands[at].what
  <2>1. \A s, x : LET e == Event("command", at, s, x, commands[at].what) IN
          e.of = "command" /\ e.at = at /\ e.from = commands[at].what
    BY DEF Event
  <2> QED
    BY <2>1 DEF hc_command
<1>6. /\ (events \in Seq({events[i] : i \in DOMAIN events}))'
      /\ Len(events) \in Nat /\ DOMAIN events = 1 .. Len(events) /\ DOMAIN events' = 1 .. n
      /\ \A i \in DOMAIN events : events'[i] = events[i]
      /\ events'[n] = e
  BY <1>5, Added DEF CommandInv, EventInv
<1> HIDE DEF at, n
<1>7. \A i \in DOMAIN events' : i # n => i \in DOMAIN events /\ i < n /\ (IsCommand(i)' <=> IsCommand(i))
  BY <1>6 DEF IsCommand, n
<1>8. commands[at].what \in Commands /\ (commands[at].what.slot # None => NoCommandEvents)
  BY <1>3, <1>4 DEF CommandInv, RingInv
<1>9. RingInv'
  <2>1. ASSUME NEW i \in 0 .. CmdLink - 1, CmdBack(i) <= CmdLeft'
        PROVE  commands[i].what \in Commands /\ commands[i].what.slot = None
    <3>1. CmdBack(i) \in 1 .. CmdLink
      BY <1>1, Backs DEF CommandInv, RingInv, RingOK, CmdBack
    <3> QED
      BY <1>3, <1>4, <2>1, <3>1 DEF CommandInv, RingInv
  <2> QED
    BY <1>2, <1>4, <2>1 DEF CommandInv, RingInv
<1>10. EventInv'
  <2>1. ASSUME NEW i \in DOMAIN events', IsCommand(i)'
        PROVE  /\ events'[i].at \in 0 .. CmdLink - 1 /\ CmdBack(events'[i].at) > CmdLeft'
               /\ events'[i].at = Last => events'[i].from = commands[Last].what
               /\ \A j \in DOMAIN events' : IsCommand(j)' /\ i < j => CmdBack(events'[i].at) > CmdBack(events'[j].at)
    <3>1. CASE i = n
      <4>1. \A j \in DOMAIN events' : ~(n < j)
        BY <1>6 DEF n
      <4> QED
        BY <1>3, <1>4, <1>5, <1>6, <3>1, <4>1
    <3>2. CASE i # n
      <4>1. i \in DOMAIN events /\ IsCommand(i) /\ events'[i] = events[i]
        BY <1>6, <1>7, <2>1, <3>2
      <4>2. /\ events[i].at \in 0 .. CmdLink - 1 /\ CmdBack(events[i].at) > CmdLeft
            /\ events[i].at = Last => events[i].from = commands[Last].what
            /\ \A j \in DOMAIN events : IsCommand(j) /\ i < j => CmdBack(events[i].at) > CmdBack(events[j].at)
        BY <4>1 DEF CommandInv, EventInv, Completions
      <4>3. CmdBack(events[i].at) \in 1 .. CmdLink
        BY <1>1, <4>2, Backs DEF CommandInv, RingInv, RingOK, CmdBack
      <4>4. ASSUME NEW j \in DOMAIN events', IsCommand(j)', i < j
            PROVE  CmdBack(events[i].at) > CmdBack(events'[j].at)
        <5>1. CASE j = n
          BY <1>4, <1>5, <1>6, <4>2, <5>1
        <5>2. CASE j # n
          BY <1>6, <1>7, <4>2, <4>4, <5>2
        <5> QED
          BY <5>1, <5>2
      <4> QED
        BY <1>3, <1>4, <4>1, <4>2, <4>3, <4>4
    <3> QED
      BY <3>1, <3>2
  <2> QED
    BY <1>2, <1>6, <2>1 DEF EventInv, Completions
<1>11. AnswerInv'
  BY <1>2, <1>3 DEF CommandInv, AnswerInv
<1>12. ASSUME NEW b \in Nat, Room(b) PROVE Room(b)'
  <2>1. CmdLeft' <= b /\ CmdLeft <= b
    BY <1>3, <1>4, <1>12 DEF Room
  <2>2. ASSUME NEW i \in DOMAIN events', IsCommand(i)' PROVE CmdBack(events'[i].at) <= b
    <3>1. CASE i = n
      BY <1>4, <1>5, <1>6, <2>1, <3>1
    <3>2. CASE i # n
      BY <1>6, <1>7, <1>12, <2>2, <3>2 DEF Room
    <3> QED
      BY <3>1, <3>2
  <2> QED
    BY <1>2, <2>1, <2>2 DEF Room
<1>13. Sizes'
  BY DEF CommandInv, Sizes
<1> QED
  BY <1>2, <1>3, <1>4, <1>8, <1>9, <1>10, <1>11, <1>12, <1>13 DEF CommandInv, at

(* An event of a transfer changes nothing for commands. *)
LEMMA CommandsPassed ==
  ASSUME CommandInv, UNCHANGED <<queues, command_deq>>, NEW e, events' = Append(events, e), e.of = "transfer"
  PROVE  /\ CommandInv' /\ \A b : Room(b) => Room(b)'
         /\ CmdLeft' = CmdLeft /\ Last' = Last
<1>1. UNCHANGED <<commands, command_enq, waiting, answer, CmdLeft, Last>> /\ \A i : CmdBack(i)' = CmdBack(i)
  BY DEF queues, CmdBack, CmdLeft, Last
<1>2. /\ (events \in Seq({events[i] : i \in DOMAIN events}))'
      /\ Len(events) \in Nat /\ DOMAIN events = 1 .. Len(events) /\ DOMAIN events' = 1 .. Len(events) + 1
      /\ \A i \in DOMAIN events : events'[i] = events[i]
      /\ events'[Len(events) + 1] = e
  BY Added DEF CommandInv, EventInv
<1>3. \A i \in DOMAIN events' : IsCommand(i)' => i \in DOMAIN events /\ IsCommand(i) /\ events'[i] = events[i]
  BY <1>2 DEF IsCommand
<1>4. NoCommandEvents => NoCommandEvents'
  BY <1>2 DEF NoCommandEvents
<1>5. RingInv' /\ AnswerInv' /\ Sizes'
  BY <1>1, <1>4 DEF CommandInv, RingInv, AnswerInv, Sizes
<1>6. EventInv'
  <2>1. ASSUME NEW i \in DOMAIN events', IsCommand(i)'
        PROVE  /\ events'[i].at \in 0 .. CmdLink - 1 /\ CmdBack(events'[i].at) > CmdLeft
               /\ events'[i].at = Last => events'[i].from = commands[Last].what
               /\ \A j \in DOMAIN events' : IsCommand(j)' /\ i < j => CmdBack(events'[i].at) > CmdBack(events'[j].at)
    BY <1>3, <2>1 DEF CommandInv, EventInv, Completions
  <2> QED
    BY <1>1, <1>2, <2>1 DEF EventInv, Completions
<1> QED
  BY <1>1, <1>3, <1>5, <1>6 DEF CommandInv, Room

-----------------------------------------------------------------------------
(* The rings of endpoint 0. *)

(* where Publish puts a transfer of n TRBs, where the next one will go, and what it makes of the ring *)
PutAt(l, h, n) == IF h.at + n > l THEN Place(0, 1 - h.cycle) ELSE h
PutEnd(l, h, n) == Ahead(l, Place(PutAt(l, h, n).at + n, PutAt(l, h, n).cycle), 0)
Put(ring, l, h, n, what) ==
  LET f == PutAt(l, h, n) IN
  [i \in 0 .. l |->
     CASE i \in f.at .. f.at + n - 1 -> Trb(what[i - f.at + 1], f.cycle)
       [] h.at + n > l /\ i \in h.at .. l - 1 -> Trb("no-op", 1 - f.cycle)
       [] h.at + n > l /\ i = l -> Trb("link", 1 - f.cycle)
       [] OTHER -> ring[i]]

(* the places are places of the ring *)
LEMMA PlaceOf ==
  ASSUME NEW l \in Nat, l >= 5, NEW n \in 2 .. 3, NEW h, h.at \in 0 .. l - 1, h.cycle \in 0 .. 1
  PROVE  LET f == PutAt(l, h, n)
             g == PutEnd(l, h, n)
         IN
         /\ f.at \in 0 .. l - 1 /\ f.cycle \in 0 .. 1 /\ f.at + n <= l
         /\ g.at \in 0 .. l - 1 /\ g.cycle \in 0 .. 1 /\ g = Place(g.at, g.cycle)
         /\ h.at + n > l => f.at = 0 /\ f.cycle = 1 - h.cycle /\ g.at = n /\ g.cycle = 1 - h.cycle /\ n <= h.at
         /\ h.at + n < l => f.at = h.at /\ f.cycle = h.cycle /\ g.at = h.at + n /\ g.cycle = h.cycle
         /\ h.at + n = l => f.at = h.at /\ f.cycle = h.cycle /\ g.at = 0 /\ g.cycle = 1 - h.cycle
<1> DEFINE f == PutAt(l, h, n)
           g == PutEnd(l, h, n)
<1>2. h.at + n > l => f.at = 0 /\ f.cycle = 1 - h.cycle
  BY DEF PutAt, Place
<1>3. ~(h.at + n > l) => f.at = h.at /\ f.cycle = h.cycle
  BY DEF PutAt
<1> HIDE DEF f, g
<1>1. /\ g.at = IF f.at + n < l THEN f.at + n ELSE f.at + n - l
      /\ g.cycle = IF f.at + n < l THEN f.cycle ELSE 1 - f.cycle
      /\ g = Place(g.at, g.cycle)
  <2>1. f.at \in Nat /\ f.cycle \in 0 .. 1
    BY <1>2, <1>3
  <2>2. g = Ahead(l, Place(f.at + n, f.cycle), 0)
    BY DEF PutEnd, f, g
  <2> QED
    BY <2>1, <2>2 DEF Ahead, Place
<1>4. h.at \in Nat /\ h.at < l /\ l >= 5
  OBVIOUS
<1>5. CASE h.at + n > l
  BY <1>1, <1>2, <1>4, <1>5 DEF f, g
<1>6. CASE h.at + n < l
  BY <1>1, <1>3, <1>4, <1>6 DEF f, g
<1>7. CASE h.at + n = l
  BY <1>1, <1>3, <1>4, <1>7 DEF f, g
<1> QED
  BY <1>4, <1>5, <1>6, <1>7

(* what is in the ring after it: the TRBs, no-ops in front of the link, and all else as before *)
Written(ring, l, h, n, what) ==
  LET f == PutAt(l, h, n)
      r == Put(ring, l, h, n, what)
  IN
  /\ DOMAIN r = 0 .. l
  /\ \A i \in f.at .. f.at + n - 1 : r[i].what = what[i - f.at + 1] /\ r[i].cycle = f.cycle
  /\ h.at + n > l => \A i \in h.at .. l - 1 : i >= f.at + n => r[i].what = "no-op" /\ r[i].cycle = 1 - f.cycle
  /\ \A i \in 0 .. l - 1 : i \notin f.at .. f.at + n - 1 /\ ~(h.at + n > l /\ i >= h.at) => r[i] = ring[i]
  /\ h.at + n > l => r[l].cycle = 1 - f.cycle
  /\ ~(h.at + n > l) => r[l] = ring[l]

(* what is in the ring after it *)
LEMMA PutTrbs ==
  ASSUME NEW l \in Nat, NEW n \in 2 .. 3, NEW ring, NEW h, NEW what,
         h.at \in 0 .. l - 1, PutAt(l, h, n).at \in 0 .. l - 1, PutAt(l, h, n).at + n <= l,
         h.at + n > l => PutAt(l, h, n).at + n <= h.at
  PROVE  Written(ring, l, h, n, what)
<1> DEFINE f == PutAt(l, h, n)
           r == Put(ring, l, h, n, what)
<1>1. \A x, c : Trb(x, c).what = x /\ Trb(x, c).cycle = c
  BY DEF Trb
<1>2. /\ DOMAIN r = 0 .. l
      /\ \A i \in 0 .. l : r[i] =
           CASE i \in f.at .. f.at + n - 1 -> Trb(what[i - f.at + 1], f.cycle)
             [] h.at + n > l /\ i \in h.at .. l - 1 -> Trb("no-op", 1 - f.cycle)
             [] h.at + n > l /\ i = l -> Trb("link", 1 - f.cycle)
             [] OTHER -> ring[i]
  BY DEF Put
<1> HIDE DEF f, r
<1>3. f.at \in Nat /\ f.at + n <= l /\ h.at \in Nat /\ h.at < l /\ (h.at + n > l => f.at + n <= h.at)
  BY DEF f
<1>4. ASSUME NEW i \in f.at .. f.at + n - 1 PROVE r[i].what = what[i - f.at + 1] /\ r[i].cycle = f.cycle
  <2>1. i \in 0 .. l
    BY <1>3
  <2>2. r[i] = Trb(what[i - f.at + 1], f.cycle)
    BY <1>2, <1>3, <2>1
  <2> QED
    BY <1>1, <2>2
<1>5. ASSUME h.at + n > l, NEW i \in h.at .. l - 1, i >= f.at + n
      PROVE  r[i].what = "no-op" /\ r[i].cycle = 1 - f.cycle
  BY <1>1, <1>2, <1>3, <1>5
<1>6. ASSUME NEW i \in 0 .. l - 1, i \notin f.at .. f.at + n - 1, ~(h.at + n > l /\ i >= h.at)
      PROVE  r[i] = ring[i]
  BY <1>2, <1>3, <1>6
<1>7. ASSUME h.at + n > l PROVE r[l].cycle = 1 - f.cycle
  <2>1. l \in 0 .. l /\ l \notin f.at .. f.at + n - 1 /\ l \notin h.at .. l - 1
    BY <1>3
  <2> QED
    BY <1>1, <1>2, <1>7, <2>1
<1>8. ASSUME ~(h.at + n > l) PROVE r[l] = ring[l]
  <2>1. l \in 0 .. l /\ l \notin f.at .. f.at + n - 1 /\ l \notin h.at .. l - 1
    BY <1>3
  <2> QED
    BY <1>2, <1>8, <2>1
<1> QED
  BY <1>2, <1>4, <1>5, <1>6, <1>7, <1>8 DEF Written, f, r

(* the ring after it is in order, and the last TRB that is left is the status *)
WellPut(ring, l, h, d, n, what) ==
  LET f == PutAt(l, h, n)
      g == PutEnd(l, h, n)
      r == Put(ring, l, h, n, what)
  IN
  /\ RingOK(r, l, g) /\ Behind(l, d, g)
  /\ LinkOK(ring, l, d, h) /\ (r[l].cycle = f.cycle \/ f.at + n < l \/ h.at + n > l) => LinkOK(r, l, d, g)
  /\ \A i \in 0 .. l - 1 : Back(l, g, i) <= Left(l, d, g) /\ r[i].what = "status" => Back(l, g, i) = 1
  /\ \A i \in 0 .. l - 1 : Back(l, g, i) <= Left(l, d, g) => r[i].what = "no-op" \/ \E k \in 1 .. n : r[i].what = what[k]
  /\ f.at \in Nat /\ f.at + n - 1 \in 0 .. l - 1 /\ f.cycle \in 0 .. 1 /\ r[f.at + n - 1].what = "status"

(* The ring stays in order if nothing was left in it. *)
LEMMA PutRing ==
  ASSUME NEW l \in Nat, l >= 5, NEW n \in 2 .. 3, NEW ring, NEW h, NEW d, NEW what,
         RingOK(ring, l, h), Behind(l, d, h), Left(l, d, h) = 0,
         what[n] = "status", \A k \in 1 .. n - 1 : what[k] # "status"
  PROVE  WellPut(ring, l, h, d, n, what)
<1> DEFINE f == PutAt(l, h, n)
           g == PutEnd(l, h, n)
           r == Put(ring, l, h, n, what)
<1>1. /\ h.at \in 0 .. l - 1 /\ h.cycle \in 0 .. 1 /\ d.at \in 0 .. l /\ d.cycle \in 0 .. 1 /\ d = Place(d.at, d.cycle)
      /\ \A i \in 0 .. l - 1 : ring[i].cycle = IF i < h.at THEN h.cycle ELSE 1 - h.cycle
  BY DEF RingOK, Behind
<1>2. Ahead(l, d, 0).at = h.at /\ Ahead(l, d, 0).cycle = h.cycle /\ l \in Nat \ {0}
  BY <1>1 DEF Left, Behind, Ahead, Place
<1>3. /\ h.at = IF d.at < l THEN d.at ELSE 0
      /\ h.cycle = IF d.at < l THEN d.cycle ELSE 1 - d.cycle
  BY <1>1, <1>2, NextTrb
<1>4. /\ f.at \in 0 .. l - 1 /\ f.cycle \in 0 .. 1 /\ f.at + n <= l
      /\ g.at \in 0 .. l - 1 /\ g.cycle \in 0 .. 1 /\ g = Place(g.at, g.cycle)
      /\ h.at + n > l => f.at = 0 /\ f.cycle = 1 - h.cycle /\ g.at = n /\ g.cycle = 1 - h.cycle /\ n <= h.at
      /\ h.at + n < l => f.at = h.at /\ f.cycle = h.cycle /\ g.at = h.at + n /\ g.cycle = h.cycle
      /\ h.at + n = l => f.at = h.at /\ f.cycle = h.cycle /\ g.at = 0 /\ g.cycle = 1 - h.cycle
  BY <1>1, PlaceOf
<1>5. /\ DOMAIN r = 0 .. l
      /\ \A i \in f.at .. f.at + n - 1 : r[i].what = what[i - f.at + 1] /\ r[i].cycle = f.cycle
      /\ h.at + n > l => \A i \in h.at .. l - 1 : i >= f.at + n => r[i].what = "no-op" /\ r[i].cycle = 1 - f.cycle
      /\ \A i \in 0 .. l - 1 : i \notin f.at .. f.at + n - 1 /\ ~(h.at + n > l /\ i >= h.at) => r[i] = ring[i]
      /\ h.at + n > l => r[l].cycle = 1 - f.cycle
      /\ ~(h.at + n > l) => r[l] = ring[l]
  <2>1. h.at + n > l => f.at + n <= h.at
    <3> HIDE DEF f
    <3> QED
      BY <1>1, <1>4
  <2>2. Written(ring, l, h, n, what)
    BY <1>1, <1>4, <2>1, PutTrbs
  <2> QED
    BY <2>2, Zenon DEF Written
<1> HIDE DEF f, g, r
<1>6. ASSUME NEW i \in 0 .. l - 1 PROVE r[i].cycle = IF i < g.at THEN g.cycle ELSE 1 - g.cycle
  <2>1. CASE i \in f.at .. f.at + n - 1
    <3>1. r[i].cycle = f.cycle
      BY <1>5, <2>1
    <3> QED
      BY <1>1, <1>4, <2>1, <3>1
  <2>2. CASE i \notin f.at .. f.at + n - 1 /\ h.at + n > l /\ i >= h.at
    <3>1. i >= f.at + n /\ i \in h.at .. l - 1
      BY <1>1, <1>4, <2>2
    <3>2. r[i].cycle = 1 - f.cycle
      BY <1>5, <2>2, <3>1
    <3> QED
      BY <1>1, <1>4, <2>2, <3>1, <3>2
  <2>3. CASE i \notin f.at .. f.at + n - 1 /\ ~(h.at + n > l /\ i >= h.at)
    <3>1. r[i].cycle = IF i < h.at THEN h.cycle ELSE 1 - h.cycle
      BY <1>1, <1>5, <2>3
    <3> QED
      BY <1>1, <1>4, <2>3, <3>1
  <2> QED
    BY <2>1, <2>2, <2>3
<1>7. RingOK(r, l, g)
  BY <1>4, <1>5, <1>6 DEF RingOK
<1>8. Behind(l, d, g) /\ Left(l, d, g) = IF h.at + n > l THEN n + l - h.at ELSE n
  <2>1. CASE h.at + n < l
    BY <1>1, <1>2, <1>4, <2>1 DEF Behind, Left
  <2>2. CASE h.at + n >= l
    <3>1. d.at < l
      BY <1>1, <1>3, <2>2
    <3> QED
      BY <1>1, <1>2, <1>4, <2>2, <3>1 DEF Behind, Left
  <2> QED
    BY <1>1, <2>1, <2>2
<1>9. LinkOK(ring, l, d, h) /\ (r[l].cycle = f.cycle \/ f.at + n < l \/ h.at + n > l) => LinkOK(r, l, d, g)
  <2>1. CASE h.at + n < l
    BY <1>1, <1>4, <1>5, <2>1 DEF LinkOK
  <2>2. CASE h.at + n >= l
    <3>1. d.at < l /\ d.cycle = h.cycle
      BY <1>1, <1>3, <2>2
    <3> QED
      BY <1>1, <1>4, <1>5, <2>2, <3>1 DEF LinkOK
  <2> QED
    BY <1>1, <2>1, <2>2
<1>10. ASSUME NEW i \in 0 .. l - 1, Back(l, g, i) <= Left(l, d, g), r[i].what = "status" PROVE Back(l, g, i) = 1
  <2>1. CASE i \in f.at .. f.at + n - 1
    <3>1. i - f.at + 1 \in 1 .. n
      BY <1>4, <2>1
    <3>2. r[i].what = what[i - f.at + 1]
      BY <1>5, <2>1
    <3>3. i - f.at + 1 = n
      <4>1. CASE i - f.at + 1 \in 1 .. n - 1
        BY <1>10, <3>2, <4>1
      <4> QED
        BY <3>1, <4>1
    <3>4. i = f.at + n - 1
      BY <1>4, <3>3
    <3> QED
      BY <1>1, <1>4, <3>4 DEF Back
  <2>2. CASE i \notin f.at .. f.at + n - 1
    <3>1. h.at + n > l => i < h.at
      <4> SUFFICES ASSUME h.at + n > l, i >= h.at PROVE FALSE
        BY <1>1
      <4>1. i >= f.at + n /\ i \in h.at .. l - 1
        BY <1>1, <1>4, <2>2
      <4> QED
        BY <1>5, <1>10, <4>1
    <3> QED
      BY <1>1, <1>4, <1>8, <1>10, <2>2, <3>1 DEF Back
  <2> QED
    BY <2>1, <2>2
<1>11. f.at \in Nat /\ f.at + n - 1 \in 0 .. l - 1 /\ r[f.at + n - 1].what = "status"
  <2>1. f.at + n - 1 \in 0 .. l - 1 /\ f.at + n - 1 \in f.at .. f.at + n - 1 /\ f.at + n - 1 - f.at + 1 = n
    BY <1>4
  <2>2. PICK i \in Int : i = f.at + n - 1
    BY <2>1
  <2>3. i \in f.at .. f.at + n - 1 /\ i - f.at + 1 = n
    BY <1>4, <2>2
  <2>4. r[i].what = what[n]
    BY <1>5, <2>3
  <2> QED
    BY <1>4, <2>1, <2>2, <2>4
<1>12. ASSUME NEW i \in 0 .. l - 1, Back(l, g, i) <= Left(l, d, g)
       PROVE  r[i].what = "no-op" \/ \E k \in 1 .. n : r[i].what = what[k]
  <2>1. CASE i \in f.at .. f.at + n - 1
    <3>1. i - f.at + 1 \in 1 .. n
      BY <1>4, <2>1
    <3> QED
      BY <1>5, <2>1, <3>1
  <2>2. CASE i \notin f.at .. f.at + n - 1
    <3>1. h.at + n > l /\ i >= h.at
      BY <1>1, <1>4, <1>8, <1>12, <2>2 DEF Back
    <3>2. i >= f.at + n /\ i \in h.at .. l - 1
      BY <1>1, <1>4, <2>2, <3>1
    <3> QED
      BY <1>5, <3>1, <3>2
  <2> QED
    BY <2>1, <2>2
<1> QED
  BY <1>4, <1>7, <1>8, <1>9, <1>10, <1>11, <1>12 DEF WellPut, f, g, r

(* A transfer of two or three TRBs is put into a ring in which nothing is left. *)
LEMMA Published ==
  ASSUME NEW p \in XPorts, NEW s, NEW what, NEW n \in 2 .. 3, Len(what) = n, what[n] = "status",
         \A k \in 1 .. n - 1 : what[k] # "status",
         ep0_link \in Nat, ep0_link >= 5, p \in DOMAIN ep0, Publish(p, s, what), UNCHANGED <<ep0_link, ep0_deq>>,
         pc # "transfer", port' = p, InOrderEp0(p)
  PROVE  /\ InOrderEp0(p)' /\ armed' = [slot |-> s, port |-> p, at |-> armed'.at, cycle |-> armed'.cycle]
         /\ armed'.slot = s /\ armed'.port = p
         /\ armed'.at \in 0 .. ep0_link - 1 /\ armed'.cycle \in 0 .. 1
         /\ ep0'[p][armed'.at].what = "status"
         /\ \A i \in 0 .. ep0_link - 1 : Ep0Back(p, i)' <= Ep0Left(p)' =>
              ep0'[p][i].what = "no-op" \/ \E k \in 1 .. n : ep0'[p][i].what = what[k]
         /\ \A q \in DOMAIN ep0 : q # p => ep0'[q] = ep0[q]
         /\ DOMAIN ep0' = DOMAIN ep0 /\ unpublished \subseteq unpublished' /\ got' = None /\ pc' = "transfer"
<1> DEFINE l == ep0_link
           h == ep0_enq[p]
           f == PutAt(l, h, n)
           g == PutEnd(l, h, n)
           r == Put(ep0[p], l, h, n, what)
<1>1. Enq(p) = h
  BY DEF Enq
<1>2. First(p, n) = f /\ (Wraps(p, n) <=> h.at + n > l)
  BY DEF First, Wraps, PutAt
<1>3. /\ ep0'[p] = r
      /\ \A q \in DOMAIN ep0 : q # p => ep0'[q] = ep0[q]
      /\ DOMAIN ep0' = DOMAIN ep0
  <2> HIDE DEF f, l
  <2> QED
    BY <1>2 DEF Publish, Put, f, l
<1> HIDE DEF f, r, g
<1>4. /\ armed' = [slot |-> s, port |-> p, at |-> f.at + n - 1, cycle |-> f.cycle]
      /\ unpublished' = (IF r[l].cycle = f.cycle \/ f.at + n < l \/ h.at + n > l
                         THEN unpublished ELSE unpublished \cup {p})
      /\ got' = None /\ pc' = "transfer"
  BY <1>2, <1>3 DEF Publish
<1>5. RingOK(ep0[p], l, h) /\ Behind(l, ep0_deq[p], h) /\ Left(l, ep0_deq[p], h) = 0
  BY <1>1 DEF InOrderEp0, Ep0Left
<1>6. /\ RingOK(r, l, g) /\ Behind(l, ep0_deq[p], g)
      /\ LinkOK(ep0[p], l, ep0_deq[p], h) /\ (r[l].cycle = f.cycle \/ f.at + n < l \/ h.at + n > l)
           => LinkOK(r, l, ep0_deq[p], g)
      /\ \A i \in 0 .. l - 1 : Back(l, g, i) <= Left(l, ep0_deq[p], g) /\ r[i].what = "status" => Back(l, g, i) = 1
      /\ \A i \in 0 .. l - 1 : Back(l, g, i) <= Left(l, ep0_deq[p], g) =>
           r[i].what = "no-op" \/ \E k \in 1 .. n : r[i].what = what[k]
      /\ f.at \in Nat /\ f.at + n - 1 \in 0 .. l - 1 /\ f.cycle \in 0 .. 1 /\ r[f.at + n - 1].what = "status"
  <2>1. l \in Nat /\ l >= 5
    OBVIOUS
  <2> HIDE DEF l, h
  <2>2. WellPut(ep0[p], l, h, ep0_deq[p], n, what)
    BY <1>5, <2>1, PutRing
  <2> QED
    BY <2>2, Zenon DEF WellPut, f, g, r
<1>7. Enq(p)' = g
  <2>1. armed'.at + 1 = f.at + n /\ armed'.cycle = f.cycle
    BY <1>4, <1>6
  <2> QED
    BY <1>4, <2>1 DEF Enq, AfterTransfer, PutEnd, f, g
<1>8. p \in unpublished' \/ LinkOK(r, l, ep0_deq[p], g)
  BY <1>1, <1>4, <1>6 DEF InOrderEp0
<1>9. InOrderEp0(p)'
  BY <1>3, <1>4, <1>6, <1>7, <1>8 DEF InOrderEp0, Ep0Left, Ep0Back
<1>10. \A i \in 0 .. ep0_link - 1 : Ep0Back(p, i)' <= Ep0Left(p)' =>
         ep0'[p][i].what = "no-op" \/ \E k \in 1 .. n : ep0'[p][i].what = what[k]
  BY <1>3, <1>6, <1>7 DEF Ep0Left, Ep0Back
<1> QED
  BY <1>3, <1>4, <1>6, <1>9, <1>10

(* The ring of a port stays in order when it is left alone. *)
LEMMA SameRing ==
  ASSUME NEW p \in XPorts, InOrderEp0(p), UNCHANGED ep0_link, ep0'[p] = ep0[p], ep0_deq'[p] = ep0_deq[p],
         Enq(p)' = Enq(p), unpublished \subseteq unpublished',
         (pc = "transfer" /\ p = port)' \/ Ep0Left(p) = 0
  PROVE  InOrderEp0(p)'
<1>1. Ep0Left(p)' = Ep0Left(p) /\ \A i : Ep0Back(p, i)' = Ep0Back(p, i)
  BY DEF Ep0Left, Ep0Back
<1> QED
  BY <1>1 DEF InOrderEp0

(* Outside of transfers, the driver leaves the rings of endpoint 0 and what is about them alone. *)
LEMMA QuietStep ==
  ASSUME IInv, pc # "transfer", pc' # "transfer", UNCHANGED <<ep0_link, endpoint0, events, controller, slots>>,
         needs_reinit => needs_reinit', attempted \subseteq attempted',
         (port' = port /\ step # "release") \/ port' = None \/ port' \notin attempted,
         \/ slot' = None
         \/ slot' = slot
         \/ \A i \in DOMAIN events : events[i].of = "transfer" => events[i].slot # slot'
  PROVE  Ep0Inv' /\ TransferInv'
<1>1. ASSUME NEW p \in XPorts, Live(p)' PROVE InOrderEp0(p)'
  <2>1. Live(p)
    BY <1>1 DEF Live, IInv, CommandInv, Sizes, controller
  <2>2. InOrderEp0(p) /\ Ep0Left(p) = 0
    BY <2>1 DEF IInv, Ep0Inv, InOrderEp0
  <2>3. Enq(p)' = Enq(p)
    BY DEF Enq, endpoint0
  <2> QED
    BY <2>2, <2>3, SameRing DEF endpoint0, controller
<1>2. TransferInv'
  BY DEF IInv, TransferInv, IsMine, endpoint0
<1> QED
  BY <1>1, <1>2 DEF Ep0Inv

-----------------------------------------------------------------------------
(* the ports tried so far, the one in hand among them, are fewer than the command TRBs *)
LEMMA Tried ==
  ASSUME Sizes, Types
  PROVE  /\ IsFiniteSet(attempted) /\ Cardinality(attempted) \in Nat /\ Cardinality(attempted) < CmdLink
         /\ port \in attempted => Cardinality(attempted) >= 1
         /\ \A p \in XPorts \ attempted : Cardinality(attempted \cup {p}) = Cardinality(attempted) + 1
<1>1. IsFiniteSet(XPorts) /\ attempted \subseteq XPorts
  BY DEF Sizes, Types
<1>2. IsFiniteSet(attempted) /\ Cardinality(attempted) <= Cardinality(XPorts)
  BY <1>1, FS_Subset
<1>3. Cardinality(attempted) \in Nat
  BY <1>2, FS_CardinalityType
<1>4. port \in attempted => Cardinality(attempted) # 0
  BY <1>2, FS_EmptySet
<1>5. \A p \in XPorts \ attempted : Cardinality(attempted \cup {p}) = Cardinality(attempted) + 1
  BY <1>2, FS_AddElement
<1> QED
  BY <1>2, <1>3, <1>4, <1>5, Numbers

(* room for more is room for fewer, and none needs no room *)
LEMMA RoomFor ==
  ASSUME CommandInv, NEW b \in Nat
  PROVE  /\ \A c \in Nat : Room(c) /\ c <= b => Room(b)
         /\ CmdLeft = 0 /\ NoCommandEvents => Room(b)
         /\ Room(0) => CmdLeft = 0 /\ NoCommandEvents
<1>1. CmdLink \in Nat \ {0} /\ CmdLeft \in 0 .. CmdLink
  BY Numbers, LeftBounds DEF CommandInv, RingInv, CmdLeft
<1>2. ASSUME NEW i \in DOMAIN events, IsCommand(i) PROVE CmdBack(events[i].at) \in 1 .. CmdLink
  <2>1. events[i].at \in 0 .. CmdLink - 1
    BY <1>2 DEF CommandInv, EventInv, Completions
  <2> QED
    BY <1>1, <2>1, Backs DEF CommandInv, RingInv, RingOK, CmdBack
<1>3. ASSUME NEW c \in Nat, Room(c), c <= b PROVE Room(b)
  BY <1>1, <1>2, <1>3 DEF Room
<1>4. CmdLeft = 0 /\ NoCommandEvents => Room(b)
  BY DEF Room, NoCommandEvents, IsCommand
<1>5. Room(0) => CmdLeft = 0 /\ NoCommandEvents
  BY <1>1, <1>2 DEF Room, NoCommandEvents, IsCommand
<1> QED
  BY <1>3, <1>4, <1>5

(* the bound is less than the length of the ring; with a slot, nothing is under way but in a wait *)
LEMMA Bounds == Sizes /\ Types => Bound \in Nat /\ Bound < CmdLink
<1> SUFFICES ASSUME Sizes, Types PROVE Bound \in Nat /\ Bound < CmdLink
  OBVIOUS
<1>1. CmdLink \in Nat /\ CmdLink > 1
  BY Numbers
<1>2. port # None => port \in attempted
  BY DEF Types
<1>3. Cardinality(attempted) \in Nat /\ Cardinality(attempted) < CmdLink /\ (port \in attempted => Cardinality(attempted) >= 1)
  BY Tried
<1> QED
  BY <1>1, <1>2, <1>3 DEF Bound

(* the step of a driver that submits nothing *)
LEMMA NoneSubmitted ==
  ASSUME IInv, Types', UNCHANGED <<queues, events, command_deq>>,
         Bound <= Bound' \/ answer # None \/ Bound = 0
  PROVE  CommandInv' /\ Room(Bound)'
<1>1. CommandInv' /\ \A b : Room(b)' <=> Room(b)
  BY CommandsKept DEF IInv
<1>2. Bound \in Nat /\ Bound' \in Nat
  <2>1. (Sizes /\ Types => Bound \in Nat /\ Bound < CmdLink)'
    BY Bounds, PTL
  <2> QED
    BY <1>1, <2>1, Bounds DEF IInv, CommandInv
<1>3. Room(Bound) /\ (Room(Bound') => Room(Bound)')
  BY <1>1 DEF IInv
<1>4. Room(Bound')
  BY <1>2, <1>3, RoomFor DEF IInv, CommandInv, AnswerInv
<1> QED
  BY <1>1, <1>3, <1>4

(* the step of a driver that submits a command: the only one under way, or one without a slot *)
LEMMA OneSubmitted ==
  ASSUME IInv, Types', NEW c \in Commands, submit_command(c), UNCHANGED <<command_deq, events>>,
         \/ Bound' = 1 /\ (answer # None \/ Bound = 0)
         \/ Bound' = Bound + 1 /\ c.slot = None
  PROVE  CommandInv' /\ Room(Bound)' /\ answer' = None /\ commands'[Last'].what = c
<1>1. CommandInv /\ Room(Bound) /\ Sizes /\ Sizes' /\ Types
  BY DEF IInv, CommandInv, Sizes
<1>2. Bound \in Nat /\ Bound' \in Nat /\ Bound' < CmdLink
  <2>1. (Sizes /\ Types => Bound \in Nat /\ Bound < CmdLink)'
    BY Bounds, PTL
  <2> QED
    BY <1>1, <2>1, Bounds
<1>3. CASE Bound' = 1 /\ (answer # None \/ Bound = 0)
  <2>1. CmdLeft = 0 /\ NoCommandEvents
    BY <1>1, <1>3, RoomFor DEF CommandInv, AnswerInv
  <2>2. Room(0)
    BY <1>1, <2>1, RoomFor
  <2>3. CommandInv' /\ Room(1)' /\ answer' = None /\ commands'[Last'].what = c
    <3>1. 0 \in Nat /\ 0 + 1 < CmdLink /\ 0 + 1 = 1
      BY <1>2, <1>3
    <3>2. Room(0 + 1)' <=> Room(1)'
      BY <3>1
    <3> QED
      BY <1>1, <2>1, <2>2, <3>1, <3>2, Submitted
  <2>4. Room(1)' => Room(Bound)'
    BY <1>3
  <2> QED
    BY <2>3, <2>4
<1>4. CASE Bound' = Bound + 1 /\ c.slot = None
  <2>1. PICK b \in Nat : b = Bound
    BY <1>2
  <2>2. CommandInv' /\ Room(b + 1)' /\ answer' = None /\ commands'[Last'].what = c
    <3>1. Room(b) /\ b + 1 < CmdLink
      BY <1>1, <1>2, <1>4, <2>1
    <3> QED
      BY <1>1, <1>4, <3>1, Submitted
  <2>3. Room(b + 1)' => Room(Bound)'
    BY <1>4, <2>1
  <2> QED
    BY <2>2, <2>3
<1> QED
  BY <1>3, <1>4

(* the slot is given up, or nothing happens that has to do with slots *)
LEMMA SlotQuiet ==
  ASSUME IInv, UNCHANGED <<queues, events, controller>>,
         slot' = None \/ (slot' = slot /\ UNCHANGED <<port, dcbaa>>),
         ~(step' = "enable" /\ pc' = "command")
  PROVE  SlotInv'
<1>1. CmdLeft' = CmdLeft /\ Last' = Last /\ commands' = commands
  BY CommandsKept DEF IInv, queues, controller
<1>2. hslots' = hslots /\ \A i : IsEnable(i)' <=> IsEnable(i)
  BY DEF controller, IsEnable, IsCommand
<1> QED
  BY <1>1, <1>2 DEF IInv, SlotInv

(* the command that is submitted is for the slot *)
LEMMA SlotSubmit ==
  ASSUME IInv, NEW c, answer' = None, commands'[Last'].what = c, UNCHANGED <<events, controller, slot, port>>,
         slot # None => c.slot = slot /\ c.type \notin {"enable", "no-op"} /\ (c.type = "address" => dcbaa'[slot] = port),
         step' = "enable" => c.type = "enable"
  PROVE  SlotInv'
<1>1. hslots' = hslots /\ \A i : IsEnable(i)' <=> IsEnable(i)
  BY DEF controller, IsEnable, IsCommand
<1> QED
  BY <1>1 DEF IInv, SlotInv

(* A step of the driver outside of transfers that submits nothing. *)
LEMMA NoneKeeps ==
  ASSUME IInv, Types', pc # "transfer", pc' # "transfer",
         UNCHANGED <<queues, ep0_link, endpoint0, events, controller, slots>>,
         needs_reinit => needs_reinit', attempted \subseteq attempted',
         (port' = port /\ step # "release") \/ port' = None \/ port' \notin attempted,
         Bound <= Bound' \/ answer # None \/ Bound = 0,
         slot' = None \/ (slot' = slot /\ UNCHANGED <<port, dcbaa>>),
         ~(step' = "enable" /\ pc' = "command")
  PROVE  IInv'
<1>1. Ep0Inv' /\ TransferInv'
  BY QuietStep
<1>2. CommandInv' /\ Room(Bound)'
  BY NoneSubmitted DEF controller
<1>3. SlotInv'
  BY SlotQuiet
<1> QED
  BY <1>1, <1>2, <1>3 DEF IInv

(* A step of the driver outside of transfers that submits a command. *)
LEMMA SubmitKeeps ==
  ASSUME IInv, Types', pc # "transfer", NEW c \in Commands, submit_command(c),
         UNCHANGED <<ep0_link, endpoint0, events, controller, slots, needs_reinit, attempted, port, slot>>,
         step # "release",
         \/ Bound' = 1 /\ (answer # None \/ Bound = 0)
         \/ Bound' = Bound + 1 /\ c.slot = None,
         slot # None => c.slot = slot /\ c.type \notin {"enable", "no-op"} /\ (c.type = "address" => dcbaa'[slot] = port),
         step' = "enable" => c.type = "enable"
  PROVE  IInv'
<1>1. pc' # "transfer"
  BY DEF submit_command
<1>2. Ep0Inv' /\ TransferInv'
  BY <1>1, QuietStep
<1>3. CommandInv' /\ Room(Bound)' /\ answer' = None /\ commands'[Last'].what = c
  BY OneSubmitted DEF controller
<1>4. SlotInv'
  BY <1>3, SlotSubmit
<1> QED
  BY <1>2, <1>3, <1>4 DEF IInv

-----------------------------------------------------------------------------
(* The actions.  The start of the controller: nothing was submitted yet. *)
LEMMA StartKeeps ==
  ASSUME IInv, xhci_take_ownership \/ xhci_reset \/ allocate_scracthpad \/ enumrate_ports
  PROVE  IInv'
<1> USE DEF WithSlot, WithPort, WithoutPort, Identifying, PacketSteps, AfterPacket
<1>1. Types /\ Sizes
  BY DEF IInv, CommandInv
<1>2. /\ pc = "ready" /\ pc' = "ready" /\ step \in {"handoff", "halt", "scratchpad", "ports"} /\ step' \in WithoutPort
      /\ slot' = None /\ port' = None /\ UNCHANGED <<port, slot, queues>> /\ Keep
  BY <1>1 DEF xhci_take_ownership, xhci_reset, allocate_scracthpad, enumrate_ports, At, Go, Leave, Types
<1>3. Types'
  BY <1>1, <1>2 DEF Types, Keep, controller, endpoint0
<1>4. Bound = 0
  BY <1>1, <1>2 DEF Types, Bound
<1> QED
  BY <1>2, <1>3, <1>4, NoneKeeps DEF Keep

(* The no-op command, and its end. *)
LEMMA NoOpKeeps ==
  ASSUME IInv, controller_init \/ no_op_done
  PROVE  IInv'
<1> USE DEF WithSlot, WithPort, WithoutPort, Identifying, PacketSteps, AfterPacket
<1>1. Types /\ Sizes
  BY DEF IInv, CommandInv
<1>2. CASE At("init") /\ Go("off") /\ UNCHANGED queues /\ Keep
  <2>1. /\ pc = "ready" /\ pc' = "ready" /\ step = "init" /\ step' = "off"
        /\ slot' = None /\ port' = None /\ UNCHANGED <<port, slot, queues>> /\ Keep
    BY <1>1, <1>2 DEF At, Go, Types
  <2>2. Types'
    BY <1>1, <2>1 DEF Types, Keep, controller, endpoint0
  <2>3. Bound = 0
    BY <1>1, <2>1 DEF Types, Bound
  <2> QED
    BY <2>1, <2>2, <2>3, NoneKeeps DEF Keep
<1>3. CASE At("init") /\ submit_command(Command("no-op", None, None)) /\ UNCHANGED <<step, port, slot>> /\ Keep
  <2> DEFINE c == Command("no-op", None, None)
  <2>1. /\ pc = "ready" /\ step = "init" /\ slot = None /\ port = None /\ Keep
        /\ submit_command(c) /\ UNCHANGED <<step, port, slot>>
    BY <1>1, <1>3 DEF At, Types
  <2>2. pc' = "command"
    BY <2>1 DEF submit_command
  <2>3. Types'
    BY <1>1, <2>1, <2>2 DEF Types, Keep, controller, endpoint0
  <2>4. c \in Commands /\ c.type = "no-op"
    BY DEF Command, Commands, CommandTypes
  <2>5. Bound = 0 /\ Bound' = 1
    BY <2>1, <2>2 DEF Bound
  <2> QED
    BY <2>1, <2>3, <2>4, <2>5, SubmitKeeps DEF Keep
<1>4. CASE no_op_done
  <2>1. /\ pc = "command" /\ pc' = "ready" /\ step = "init" /\ step' \in {"ports", "off"} /\ (step' = "ports" => answer # None)
        /\ slot' = None /\ port' = None /\ UNCHANGED <<port, slot, queues>> /\ Keep
    BY <1>1, <1>4 DEF no_op_done, Answered, TimedOut, Go, Types
  <2>2. Types'
    BY <1>1, <2>1 DEF Types, Keep, controller, endpoint0
  <2>3. Bound <= Bound' \/ answer # None
    BY <2>1 DEF Bound
  <2> QED
    BY <2>1, <2>2, <2>3, NoneKeeps DEF Keep
<1> QED
  BY <1>2, <1>3, <1>4 DEF controller_init

-----------------------------------------------------------------------------
(* scan_ports leaves a port: one more may have a command that was given up. *)
LEMMA LeaveKeeps ==
  ASSUME IInv, pc # "transfer", Leave, step \in WithSlot \cup WithPort,
         needs_reinit => needs_reinit', dcbaa' \in [Slots -> XPorts \cup {None}],
         UNCHANGED <<ep0_link, attempted, slots, queues, endpoint0, events, controller>>
  PROVE  IInv'
<1> USE DEF WithSlot, WithPort, WithoutPort, Identifying, PacketSteps, AfterPacket
<1>1. Types /\ Sizes
  BY DEF IInv, CommandInv
<1>2. step' = "scan" /\ pc' = "ready" /\ slot' = None /\ port' = None /\ port \in attempted
  BY <1>1 DEF Leave, Types
<1>3. Types'
  BY <1>1, <1>2 DEF Types, controller, endpoint0
<1>4. Cardinality(attempted) \in Nat /\ Cardinality(attempted) >= 1
  BY <1>1, <1>2, Tried
<1>5. Bound' = Cardinality(attempted) /\ Bound <= Cardinality(attempted)
  BY <1>2, <1>4 DEF Bound
<1> QED
  BY <1>2, <1>3, <1>5, NoneKeeps

(* get_device goes on with a port that has a slot. *)
LEMMA GoKeeps ==
  ASSUME IInv, pc # "transfer", NEW s \in WithSlot \ Identifying, Go(s), step \in WithSlot \ Identifying,
         pc = "command" => answer # None,
         UNCHANGED <<ep0_link, attempted, needs_reinit, slots, dcbaa, queues, endpoint0, events, controller>>
  PROVE  IInv'
<1> USE DEF WithSlot, WithPort, WithoutPort, Identifying, PacketSteps, AfterPacket
<1>1. Types /\ Sizes
  BY DEF IInv, CommandInv
<1>2. step' = s /\ pc' = "ready" /\ UNCHANGED <<port, slot>> /\ slot \in Slots /\ slot # None
  BY <1>1 DEF Go, Types, Slots, Sizes
<1>3. Types'
  BY <1>1, <1>2 DEF Types, controller, endpoint0
<1>4. pc # "command" => Bound = 0
  BY <1>2 DEF Bound
<1> QED
  BY <1>2, <1>3, <1>4, NoneKeeps

(* A command for the slot of the port is submitted: nothing else is under way. *)
LEMMA SlotCommandKeeps ==
  ASSUME IInv, pc # "transfer", NEW t \in CommandTypes \ {"enable", "no-op"}, submit_command(Command(t, slot, port)),
         step \in WithSlot \ {"release"}, step' \in WithSlot, step \in Identifying <=> step' \in Identifying,
         pc = "command" => answer # None,
         dcbaa' \in [Slots -> XPorts \cup {None}], t = "address" => dcbaa'[slot] = port,
         UNCHANGED <<ep0_link, attempted, needs_reinit, port, slot, slots, endpoint0, events, controller>>
  PROVE  IInv'
<1>1. Types /\ Sizes
  BY DEF IInv, CommandInv
<1>2. pc' = "command" /\ slot \in Slots /\ slot # None /\ port \in XPorts
  BY <1>1 DEF submit_command, Types, Slots, Sizes
<1>3. Types'
  <2> USE DEF WithSlot, WithPort, WithoutPort, Identifying, PacketSteps, AfterPacket
  <2> QED
    BY <1>1, <1>2 DEF Types, controller, endpoint0
<1>4. Bound' = 1 /\ (pc # "command" => Bound = 0)
  BY <1>2 DEF Bound
<1> DEFINE c == Command(t, slot, port)
<1>5. c \in Commands /\ c.slot = slot /\ c.type = t
  BY <1>2 DEF Command, Commands
<1>6. step' # "enable"
  BY DEF WithSlot, Identifying, PacketSteps, AfterPacket
<1> HIDE DEF c
<1>7. submit_command(c)
  BY DEF c
<1> QED
  BY <1>1, <1>2, <1>3, <1>4, <1>5, <1>6, <1>7, SubmitKeeps

(* A port is tried: scan_ports, reset_port, enable_device_slot. *)
LEMMA PortKeeps ==
  ASSUME IInv, scan_ports \/ reset_port \/ enable_device_slot \/ enable_slot_done
  PROVE  IInv'
<1> USE DEF WithSlot, WithPort, WithoutPort, Identifying, PacketSteps, AfterPacket
<1>1. Types /\ Sizes /\ Slots = XPorts
  BY DEF IInv, CommandInv, Slots
<1>2. CASE scan_ports
  <2>1. PICK p \in XPorts \ attempted : attempted' = attempted \cup {p} /\ port' = p
    BY <1>2 DEF scan_ports
  <2>2. /\ step = "scan" /\ step' = "reset" /\ pc = "ready" /\ pc' = "ready" /\ slot = None /\ slot' = None /\ port = None
        /\ UNCHANGED <<ep0_link, needs_reinit, slots, dcbaa, queues, endpoint0, events, controller>>
    BY <1>1, <1>2 DEF scan_ports, At, Types
  <2>3. Types'
    BY <1>1, <2>1, <2>2 DEF Types, controller, endpoint0
  <2>4. Bound <= Bound'
    <3>1. Cardinality(attempted) \in Nat /\ Cardinality(attempted') = Cardinality(attempted) + 1
      BY <1>1, <2>1, Tried
    <3>2. port' # None
      BY <1>1, <2>1 DEF Sizes
    <3> QED
      BY <2>2, <3>1, <3>2 DEF Bound
  <2> QED
    BY <2>1, <2>2, <2>3, <2>4, NoneKeeps
<1>3. CASE reset_port
  <2>1. CASE Leave
    BY <1>3, <1>1, <2>1, LeaveKeeps DEF reset_port, At, Types
  <2>2. CASE Go("enable")
    <3>1. /\ step = "reset" /\ step' = "enable" /\ pc = "ready" /\ pc' = "ready" /\ UNCHANGED <<port, slot>>
          /\ UNCHANGED <<ep0_link, attempted, needs_reinit, slots, dcbaa, queues, endpoint0, events, controller>>
      BY <1>3, <2>2 DEF reset_port, At, Go
    <3>2. Types'
      BY <1>1, <3>1 DEF Types, controller, endpoint0
    <3>3. Bound = Bound' /\ Bound \in Nat
      BY <1>1, <3>1, Bounds DEF Bound, Types
    <3> QED
      BY <3>1, <3>2, <3>3, NoneKeeps
  <2> QED
    BY <1>3, <2>1, <2>2 DEF reset_port
<1>4. CASE enable_device_slot
  <2>1. CASE Leave /\ UNCHANGED queues
    BY <1>4, <1>1, <2>1, LeaveKeeps DEF enable_device_slot, At, Types
  <2>2. CASE submit_command(Command("enable", None, port)) /\ UNCHANGED <<step, port, slot>>
    <3> DEFINE c == Command("enable", None, port)
    <3>1. /\ step = "enable" /\ pc = "ready" /\ slot = None /\ port \in attempted /\ port \in XPorts /\ port # None
          /\ UNCHANGED <<ep0_link, attempted, needs_reinit, slots, dcbaa, endpoint0, events, controller>>
      BY <1>1, <1>4 DEF enable_device_slot, At, Types, Sizes
    <3>2. pc' = "command"
      BY <2>2 DEF submit_command
    <3>3. Types'
      BY <1>1, <2>2, <3>1, <3>2 DEF Types, controller, endpoint0
    <3>4. Bound' = Bound + 1
      <4>1. Cardinality(attempted) \in Nat /\ Cardinality(attempted) >= 1
        BY <1>1, <3>1, Tried
      <4> QED
        BY <2>2, <3>1, <3>2, <4>1 DEF Bound
    <3>5. c \in Commands /\ c.type = "enable" /\ c.slot = None
      BY <3>1 DEF Command, Commands, CommandTypes
    <3> HIDE DEF c
    <3>6. submit_command(c)
      BY <2>2 DEF c
    <3> QED
      BY <2>2, <3>1, <3>3, <3>4, <3>5, <3>6, SubmitKeeps
  <2> QED
    BY <1>4, <2>1, <2>2 DEF enable_device_slot
<1>5. CASE enable_slot_done
  <2>1. CASE Leave
    BY <1>5, <1>1, <2>1, LeaveKeeps DEF enable_slot_done, Answered, TimedOut, Types
  <2>2. CASE Answered("enable", "ok") /\ step' = "identify" /\ pc' = "ready" /\ slot' = answer.slot /\ UNCHANGED port
    <3>1. /\ step = "enable" /\ pc = "command" /\ answer # None /\ answer.code = "ok" /\ port \in attempted
          /\ UNCHANGED <<ep0_link, attempted, needs_reinit, slots, dcbaa, queues, endpoint0, events, controller>>
      BY <1>1, <1>5, <2>2 DEF enable_slot_done, Answered, Types
    <3>2. /\ slot' \in Slots /\ slot' # None /\ hslots'[slot'].state = "enabled"
          /\ \A i \in DOMAIN events : events[i].of = "transfer" => events[i].slot # slot'
      BY <1>1, <2>2, <3>1 DEF IInv, SlotInv, Sizes, controller
    <3>3. slots[port] = None
      BY <1>1, <3>1 DEF Types
    <3>4. Types'
      BY <1>1, <2>2, <3>1, <3>2, <3>3 DEF Types, controller, endpoint0
    <3>5. Ep0Inv' /\ TransferInv'
      BY <2>2, <3>1, <3>2, QuietStep
    <3>6. CommandInv' /\ Room(Bound)'
      BY <3>1, <3>4, NoneSubmitted DEF controller
    <3>7. SlotInv'
      <4>1. CmdLeft' = 0 /\ Last' = Last /\ commands' = commands
        BY <3>1, CommandsKept DEF IInv, CommandInv, AnswerInv, queues, controller
      <4>2. hslots' = hslots /\ events' = events /\ \A i : IsEnable(i)' <=> IsEnable(i)
        BY <3>1 DEF controller, IsEnable, IsCommand
      <4> QED
        BY <2>2, <3>2, <4>1, <4>2 DEF IInv, SlotInv
    <3> QED
      BY <3>4, <3>5, <3>6, <3>7 DEF IInv
  <2> QED
    BY <1>5, <2>1, <2>2 DEF enable_slot_done
<1> QED
  BY <1>2, <1>3, <1>4, <1>5

(* The commands of identify_device, evaluate and configure, and what does not need one. *)
LEMMA DeviceKeeps ==
  ASSUME IInv,
         \/ identify_gives_up \/ address_device \/ address_timeout \/ address_failed \/ no_descriptor_buffer
         \/ disable_slot_done \/ evaluate_context \/ evaluate_done \/ packet_refused
         \/ configure_endpoints \/ configure_done
  PROVE  IInv'
<1> USE DEF WithSlot, Identifying, PacketSteps, AfterPacket, CommandTypes
<1>1. Types /\ Sizes /\ Slots = XPorts /\ dcbaa \in [Slots -> XPorts \cup {None}]
  BY DEF IInv, CommandInv, Slots, Types
<1>2. CASE identify_gives_up
  BY <1>1, <1>2, SlotCommandKeeps DEF identify_gives_up, At, disable_device_slot
<1>3. CASE address_device
  <2>1. slot \in Slots /\ port \in XPorts
    BY <1>1, <1>3 DEF address_device, At, Types
  <2>2. dcbaa' \in [Slots -> XPorts \cup {None}] /\ dcbaa'[slot] = port
    BY <1>1, <1>3, <2>1 DEF address_device
  <2> QED
    BY <1>1, <1>3, <2>2, SlotCommandKeeps DEF address_device, At
<1>4. CASE address_timeout
  BY <1>1, <1>4, LeaveKeeps DEF address_timeout, TimedOut
<1>5. CASE address_failed
  BY <1>1, <1>5, SlotCommandKeeps DEF address_failed, Answered, disable_device_slot
<1>6. CASE no_descriptor_buffer
  BY <1>1, <1>6, SlotCommandKeeps DEF no_descriptor_buffer, Answered, disable_device_slot
<1>7. CASE disable_slot_done
  <2>1. slot \in Slots
    BY <1>1, <1>7 DEF disable_slot_done, Types
  <2>2. dcbaa' \in [Slots -> XPorts \cup {None}]
    BY <1>1, <1>7, <2>1 DEF disable_slot_done
  <2> QED
    BY <1>1, <1>7, <2>2, LeaveKeeps DEF disable_slot_done
<1>8. CASE evaluate_context
  <2>1. CASE Go("descriptor") /\ UNCHANGED queues
    BY <1>1, <1>8, <2>1, GoKeeps DEF evaluate_context, At
  <2>2. CASE Leave /\ UNCHANGED queues
    BY <1>1, <1>8, <2>2, LeaveKeeps DEF evaluate_context, At
  <2>3. CASE submit_command(Command("evaluate", slot, port)) /\ UNCHANGED <<step, port, slot>>
    BY <1>1, <1>8, <2>3, SlotCommandKeeps DEF evaluate_context, At
  <2> QED
    BY <1>8, <2>1, <2>2, <2>3 DEF evaluate_context
<1>9. CASE evaluate_done
  <2>1. CASE Leave
    BY <1>1, <1>9, <2>1, LeaveKeeps DEF evaluate_done, TimedOut, Answered
  <2>2. CASE Answered("evaluate", "ok") /\ UNCHANGED needs_reinit /\ Go("descriptor")
    BY <1>1, <1>9, <2>2, GoKeeps DEF evaluate_done, Answered
  <2> QED
    BY <1>9, <2>1, <2>2 DEF evaluate_done
<1>10. CASE packet_refused
  BY <1>1, <1>10, LeaveKeeps DEF packet_refused
<1>11. CASE configure_endpoints
  <2>1. CASE Go("setconf") /\ UNCHANGED queues
    BY <1>1, <1>11, <2>1, GoKeeps DEF configure_endpoints, At
  <2>2. CASE Leave /\ UNCHANGED queues
    BY <1>1, <1>11, <2>2, LeaveKeeps DEF configure_endpoints, At
  <2>3. CASE submit_command(Command("configure", slot, port)) /\ UNCHANGED <<step, port, slot>>
    BY <1>1, <1>11, <2>3, SlotCommandKeeps DEF configure_endpoints, At
  <2> QED
    BY <1>11, <2>1, <2>2, <2>3 DEF configure_endpoints
<1>12. CASE configure_done
  <2>1. CASE Leave
    BY <1>1, <1>12, <2>1, LeaveKeeps DEF configure_done, TimedOut, Answered
  <2>2. CASE Answered("endpoints", "ok") /\ UNCHANGED needs_reinit /\ Go("setconf")
    BY <1>1, <1>12, <2>2, GoKeeps DEF configure_done, Answered
  <2> QED
    BY <1>12, <2>1, <2>2 DEF configure_done
<1> QED
  BY <1>2, <1>3, <1>4, <1>5, <1>6, <1>7, <1>8, <1>9, <1>10, <1>11, <1>12

(* the port of a transfer has its ring in order *)
LEMMA TransferLive ==
  ASSUME IInv, pc = "transfer"
  PROVE  /\ step \in {"identified"} \cup PacketSteps /\ port \in XPorts /\ port \in attempted /\ slot \in Slots /\ slot # None
         /\ Live(port) /\ InOrderEp0(port) /\ Enq(port) = AfterTransfer
<1> USE DEF WithSlot, Identifying
<1>1. step \in {"identified"} \cup PacketSteps /\ port \in XPorts /\ port \in attempted /\ slot \in Slots /\ slot # None
  BY DEF IInv, Types, CommandInv, Sizes, Slots
<1>2. Live(port)
  BY <1>1 DEF Live, PacketSteps, AfterPacket
<1> QED
  BY <1>1, <1>2 DEF IInv, Ep0Inv, Enq

(* A transfer ends or is given up: the ring is in order if it ended well, and is not used again otherwise. *)
LEMMA TransferLeft ==
  ASSUME IInv, pc = "transfer", pc' # "transfer", armed' = None, got' = None,
         UNCHANGED <<ep0_link, ep0, unpublished, events, controller, attempted>>, needs_reinit => needs_reinit',
         \A p \in XPorts : p # port => slots'[p] = slots[p] /\ ep0_enq'[p] = ep0_enq[p],
         port' = port \/ port' = None,
         slot' = None \/ (slot' = slot /\ got # None),
         \A p \in XPorts : p = port /\ Live(p)' => got # None /\ got.code = "ok" /\ ep0_enq'[p] = AfterTransfer
  PROVE  Ep0Inv' /\ TransferInv'
<1>1. /\ port \in XPorts /\ slot # None /\ InOrderEp0(port) /\ Enq(port) = AfterTransfer
      /\ None \notin XPorts
  BY TransferLive DEF IInv, CommandInv, Sizes
<1>2. ASSUME NEW p \in XPorts, Live(p)' PROVE InOrderEp0(p)'
  <2>1. CASE p = port
    <3>1. got # None /\ got.code = "ok" /\ ep0_enq'[p] = AfterTransfer
      BY <1>2, <2>1
    <3>2. Ep0Left(port) = 0
      BY <3>1 DEF IInv, TransferInv, Over
    <3>3. Enq(p)' = Enq(p)
      BY <1>1, <2>1, <3>1 DEF Enq
    <3> QED
      BY <1>1, <2>1, <3>2, <3>3, SameRing DEF controller
  <2>2. CASE p # port
    <3>1. Live(p)
      BY <1>2, <2>2, <1>1 DEF Live, controller
    <3>2. InOrderEp0(p) /\ Ep0Left(p) = 0
      BY <2>2, <3>1 DEF IInv, Ep0Inv, InOrderEp0
    <3>3. Enq(p)' = Enq(p)
      BY <2>2 DEF Enq
    <3> QED
      BY <3>2, <3>3, SameRing DEF controller
  <2> QED
    BY <2>1, <2>2
<1>3. TransferInv'
  <2>1. slot' # None => \A i \in DOMAIN events : ~IsMine(i)'
    BY <1>1 DEF IInv, TransferInv, IsMine
  <2> QED
    BY <2>1 DEF TransferInv, IsMine
<1> QED
  BY <1>2, <1>3 DEF Ep0Inv

(* get_descriptor and usb_send_packet end, one way or the other. *)
LEMMA EndKeeps ==
  ASSUME IInv,
         get_descriptor_timeout \/ get_descriptor_failed \/ get_descriptor_done \/ packet_failed \/ packet_done
  PROVE  IInv'
<1>1. Types /\ Sizes /\ Slots = XPorts
  BY DEF IInv, CommandInv, Slots
<1>2. pc = "transfer" /\ armed' = None /\ got' = None /\ UNCHANGED <<ep0_link, ep0, unpublished, events, controller, attempted, dcbaa>>
  BY DEF get_descriptor_timeout, get_descriptor_failed, get_descriptor_done, packet_failed, packet_done, Disarm
<1>3. step \in {"identified"} \cup PacketSteps /\ port \in XPorts /\ port \in attempted /\ slot \in Slots /\ slot # None
  BY <1>2, TransferLive
<1>4. Bound = 0 /\ DOMAIN ep0_enq = XPorts /\ slots \in [XPorts -> Slots \cup {None}]
  BY <1>1, <1>2, <1>3 DEF Bound, Types
<1>5. ASSUME Leave, UNCHANGED <<slots, queues>>, needs_reinit => needs_reinit', step = "identified" \/ needs_reinit' \/ (got # None /\ got.code = "ok"),
             ep0_enq' = ep0_enq \/ ep0_enq' = [ep0_enq EXCEPT ![port] = AfterTransfer],
             step # "identified" /\ ~needs_reinit' => ep0_enq' = [ep0_enq EXCEPT ![port] = AfterTransfer]
      PROVE  IInv'
  <2>1. step' = "scan" /\ pc' = "ready" /\ slot' = None /\ port' = None
    BY <1>5 DEF Leave
  <2>2. Types'
    <3> USE DEF WithSlot, WithPort, WithoutPort, Identifying, PacketSteps, AfterPacket
    <3> QED
      BY <1>1, <1>2, <1>5, <2>1 DEF Types, controller
  <2>3. CommandInv' /\ Room(Bound)'
    BY <1>2, <1>4, <1>5, <2>2, NoneSubmitted DEF controller
  <2>4. SlotInv'
    BY <1>2, <1>5, <2>1, SlotQuiet
  <2>5. ASSUME NEW p \in XPorts, p = port, Live(p)'
        PROVE  got # None /\ got.code = "ok" /\ ep0_enq'[p] = AfterTransfer
    <3>1. slots[p] # None /\ ~needs_reinit'
      BY <1>1, <1>2, <1>3, <1>5, <2>1, <2>5 DEF Live, Sizes
    <3>2. step # "identified"
      BY <1>1, <2>5, <3>1 DEF Types, Identifying
    <3> QED
      BY <1>3, <1>4, <1>5, <2>5, <3>1, <3>2
  <2>6. \A p \in XPorts : p # port => slots'[p] = slots[p] /\ ep0_enq'[p] = ep0_enq[p]
    BY <1>4, <1>5
  <2>7. Ep0Inv' /\ TransferInv'
    BY <1>2, <1>5, <2>1, <2>5, <2>6, TransferLeft
  <2> QED
    BY <2>2, <2>3, <2>4, <2>7 DEF IInv
<1>6. ASSUME NEW s \in {"evaluate", "endpoints"} \cup PacketSteps, Go(s), UNCHANGED <<queues, needs_reinit>>, got # None, got.code = "ok",
             slots' \in [XPorts -> Slots \cup {None}], \A p \in XPorts : p # port => slots'[p] = slots[p],
             ep0_enq' = [ep0_enq EXCEPT ![port] = AfterTransfer]
      PROVE  IInv'
  <2>1. step' = s /\ pc' = "ready" /\ UNCHANGED <<slot, port>>
    BY <1>6 DEF Go
  <2>2. Types'
    <3> USE DEF WithSlot, WithPort, WithoutPort, Identifying, PacketSteps, AfterPacket
    <3> QED
      BY <1>1, <1>2, <1>3, <1>6, <2>1 DEF Types, controller
  <2>3. CommandInv' /\ Room(Bound)'
    BY <1>2, <1>4, <1>6, <2>2, NoneSubmitted DEF controller
  <2>4. SlotInv'
    BY <1>2, <1>6, <2>1, SlotQuiet
  <2>5. ep0_enq'[port] = AfterTransfer /\ \A p \in XPorts : p # port => ep0_enq'[p] = ep0_enq[p]
    BY <1>3, <1>4, <1>6
  <2>6. Ep0Inv' /\ TransferInv'
    BY <1>2, <1>6, <2>1, <2>5, TransferLeft
  <2> QED
    BY <2>2, <2>3, <2>4, <2>6 DEF IInv
<1>7. CASE get_descriptor_timeout
  BY <1>5, <1>7 DEF get_descriptor_timeout
<1>8. CASE get_descriptor_failed
  <2> DEFINE c == Command("disable", slot, port)
  <2>1. /\ submit_command(c) /\ step = "identified" /\ step' = "release" /\ UNCHANGED <<port, slot, slots, needs_reinit, ep0_enq>>
        /\ got # None /\ got.code = "error"
    BY <1>8 DEF get_descriptor_failed, disable_device_slot
  <2>2. c \in Commands /\ c.slot = slot /\ c.type = "disable"
    BY <1>1, <1>3 DEF Command, Commands, CommandTypes
  <2> HIDE DEF c
  <2>3. pc' = "command"
    BY <2>1 DEF submit_command
  <2>4. Types'
    <3> USE DEF WithSlot, WithPort, WithoutPort, Identifying, PacketSteps, AfterPacket
    <3> QED
      BY <1>1, <1>2, <1>3, <2>1, <2>3 DEF Types, controller
  <2>5. Bound' = 1
    BY <1>3, <2>1, <2>3 DEF Bound
  <2>6. CommandInv' /\ Room(Bound)' /\ answer' = None /\ commands'[Last'].what = c
    BY <1>2, <1>4, <2>1, <2>2, <2>4, <2>5, OneSubmitted DEF controller
  <2>7. SlotInv'
    BY <1>2, <2>1, <2>2, <2>6, SlotSubmit
  <2>8. \A p \in XPorts : p = port => ~Live(p)'
    <3>1. ep0_halted[port] /\ slots[port] = None
      BY <1>1, <2>1 DEF IInv, TransferInv, Over, Types, Identifying
    <3> QED
      BY <1>2, <1>3, <2>1, <3>1 DEF Live, controller
  <2>9. Ep0Inv' /\ TransferInv'
    BY <1>2, <2>1, <2>3, <2>8, TransferLeft
  <2> QED
    BY <2>4, <2>6, <2>7, <2>9 DEF IInv
<1>9. CASE get_descriptor_done
  <2>1. CASE Leave /\ UNCHANGED <<slots, ep0_enq>>
    BY <1>5, <1>9, <2>1 DEF get_descriptor_done
  <2>2. CASE /\ slots' = [slots EXCEPT ![port] = slot]
             /\ ep0_enq' = [ep0_enq EXCEPT ![port] = AfterTransfer] /\ Go("evaluate")
    <3>1. slots' \in [XPorts -> Slots \cup {None}] /\ \A p \in XPorts : p # port => slots'[p] = slots[p]
      BY <1>3, <1>4, <2>2
    <3> QED
      BY <1>6, <1>9, <2>2, <3>1 DEF get_descriptor_done
  <2> QED
    BY <1>9, <2>1, <2>2 DEF get_descriptor_done
<1>10. CASE packet_failed
  BY <1>5, <1>10 DEF packet_failed
<1>11. CASE packet_done
  <2>1. CASE Leave
    BY <1>5, <1>11, <2>1 DEF packet_done
  <2>2. CASE step # "setconf" /\ Go(AfterPacket[step])
    <3>1. AfterPacket[step] \in {"evaluate", "endpoints"} \cup PacketSteps
      BY <1>11, <2>2 DEF packet_done, PacketSteps, AfterPacket
    <3> QED
      BY <1>4, <1>6, <1>11, <2>2, <3>1 DEF packet_done
  <2> QED
    BY <1>11, <2>1, <2>2 DEF packet_done
<1> QED
  BY <1>7, <1>8, <1>9, <1>10, <1>11

(* A transfer begins: get_descriptor and usb_send_packet. *)
LEMMA BeginKeeps ==
  ASSUME IInv, get_descriptor \/ usb_send_packet
  PROVE  IInv'
<1>1. Types /\ Sizes /\ Slots = XPorts
  BY DEF IInv, CommandInv, Slots
<1>2. /\ UNCHANGED <<ep0_link, attempted, needs_reinit, port, slot, slots, dcbaa, queues, ep0_enq, events, controller>>
      /\ pc # "transfer" /\ step \in {"address"} \cup PacketSteps /\ step' \in {"identified"} \cup PacketSteps
      /\ step' = "identified" <=> step = "address"
      /\ pc = "command" => answer # None
  BY DEF get_descriptor, usb_send_packet, Answered, PacketSteps, AfterPacket
<1>3. \E n \in 2 .. 3 : \E what :
        Publish(port, slot, what) /\ Len(what) = n /\ what[n] = "status" /\ \A k \in 1 .. n - 1 : what[k] # "status"
  <2>1. CASE Publish(port, slot, <<"setup", "status">>)
    <3> DEFINE w == <<"setup", "status">>
    <3>1. Len(w) = 2 /\ w[2] = "status" /\ \A k \in 1 .. 2 - 1 : w[k] # "status"
      OBVIOUS
    <3>2. 2 \in 2 .. 3 /\ Publish(port, slot, w)
      BY <2>1
    <3> HIDE DEF w
    <3> QED
      BY <3>1, <3>2
  <2>2. CASE \E x \in {"data", "packet"} : Publish(port, slot, <<"setup", x, "status">>)
    <3>1. PICK x \in {"data", "packet"} : Publish(port, slot, <<"setup", x, "status">>)
      BY <2>2
    <3> DEFINE w == <<"setup", x, "status">>
    <3>2. Len(w) = 3 /\ w[3] = "status" /\ \A k \in 1 .. 3 - 1 : w[k] # "status"
      OBVIOUS
    <3>3. 3 \in 2 .. 3 /\ Publish(port, slot, w)
      BY <3>1
    <3> HIDE DEF w
    <3> QED
      BY <3>2, <3>3
  <2> QED
    BY <2>1, <2>2 DEF get_descriptor, usb_send_packet
<1>a. PICK n \in 2 .. 3 : \E what :
        Publish(port, slot, what) /\ Len(what) = n /\ what[n] = "status" /\ \A k \in 1 .. n - 1 : what[k] # "status"
  BY <1>3
<1>b. PICK what :
        Publish(port, slot, what) /\ Len(what) = n /\ what[n] = "status" /\ \A k \in 1 .. n - 1 : what[k] # "status"
  BY <1>a
<1>4. port \in XPorts /\ slot \in Slots /\ slot # None /\ Live(port) /\ InOrderEp0(port) /\ port \in DOMAIN ep0
  BY <1>1, <1>2 DEF IInv, Ep0Inv, Types, Live, Sizes, WithSlot, Identifying, PacketSteps, AfterPacket
<1>5. ep0_link \in Nat /\ ep0_link >= 5
  BY <1>1, Numbers DEF Types
<1>6. /\ \A p \in XPorts : p = port => InOrderEp0(p)'
      /\ armed' = [slot |-> slot, port |-> port, at |-> armed'.at, cycle |-> armed'.cycle]
      /\ armed'.slot = slot /\ armed'.port = port
      /\ armed'.at \in 0 .. ep0_link - 1 /\ armed'.cycle \in 0 .. 1
      /\ ep0'[port][armed'.at].what = "status"
      /\ \A q \in DOMAIN ep0 : q # port => ep0'[q] = ep0[q]
      /\ DOMAIN ep0' = DOMAIN ep0 /\ unpublished \subseteq unpublished' /\ got' = None /\ pc' = "transfer"
  <2>1. PICK p \in XPorts : p = port
    BY <1>4
  <2>2. port' = p /\ Publish(p, slot, what) /\ InOrderEp0(p) /\ p \in DOMAIN ep0 /\ UNCHANGED <<ep0_link, ep0_deq>>
    BY <1>2, <1>b, <1>4, <2>1 DEF controller
  <2>3. /\ InOrderEp0(p)' /\ armed' = [slot |-> slot, port |-> p, at |-> armed'.at, cycle |-> armed'.cycle]
        /\ armed'.slot = slot /\ armed'.port = p
        /\ armed'.at \in 0 .. ep0_link - 1 /\ armed'.cycle \in 0 .. 1
        /\ ep0'[p][armed'.at].what = "status"
        /\ \A q \in DOMAIN ep0 : q # p => ep0'[q] = ep0[q]
        /\ DOMAIN ep0' = DOMAIN ep0 /\ unpublished \subseteq unpublished' /\ got' = None /\ pc' = "transfer"
    BY <1>2, <1>b, <1>5, <2>2, Published
  <2> QED
    BY <2>1, <2>3
<1>7. Types'
  <2> USE DEF WithSlot, WithPort, WithoutPort, Identifying, PacketSteps, AfterPacket
  <2> QED
    BY <1>1, <1>2, <1>6 DEF Types, controller
<1>8. CommandInv' /\ Room(Bound)'
  <2>1. pc # "command" => Bound = 0
    BY <1>4 DEF Bound
  <2> QED
    BY <1>2, <1>7, <2>1, NoneSubmitted DEF controller, Types
<1>9. SlotInv'
  BY <1>2, <1>6, SlotQuiet
<1>10. ASSUME NEW p \in XPorts, Live(p)', p # port PROVE InOrderEp0(p)'
  <2>1. Live(p)
    BY <1>2, <1>10 DEF Live, controller
  <2>2. InOrderEp0(p) /\ Ep0Left(p) = 0
    BY <1>10, <2>1 DEF IInv, Ep0Inv, InOrderEp0
  <2>3. Enq(p)' = Enq(p) /\ ep0'[p] = ep0[p]
    BY <1>1, <1>2, <1>6, <1>10 DEF Enq, Types
  <2> QED
    BY <1>2, <1>6, <2>2, <2>3, SameRing DEF controller
<1>11. TransferInv'
  <2>1. \A i \in DOMAIN events : ~IsMine(i)'
    BY <1>2, <1>4 DEF IInv, TransferInv, IsMine
  <2>2. events' = events /\ port' = port /\ slot' = slot /\ ep0_link' = ep0_link
    BY <1>2
  <2> QED
    BY <1>6, <2>1, <2>2 DEF TransferInv
<1> QED
  BY <1>6, <1>7, <1>8, <1>9, <1>10, <1>11 DEF IInv, Ep0Inv

-----------------------------------------------------------------------------
(* The driver takes an event. *)
LEMMA ProcessKeeps ==
  ASSUME IInv, xhci_process_events
  PROVE  IInv'
<1>1. /\ UNCHANGED <<ep0_link, step, pc, port, attempted, needs_reinit, slot, slots, dcbaa, commands, command_enq, waiting,
                     ep0, ep0_enq, unpublished, armed, controller>>
      /\ events' = Tail(events) /\ events # << >> /\ process_event
  BY DEF xhci_process_events
<1>2. /\ Len(events) \in Nat \ {0} /\ DOMAIN events = 1 .. Len(events) /\ DOMAIN events' = 1 .. Len(events) - 1
      /\ \A i \in DOMAIN events' : events'[i] = events[i + 1]
      /\ Head(events) = events[1]
  BY <1>1, Taken DEF IInv, CommandInv, EventInv
<1>3. \A i \in DOMAIN events' :
        /\ i + 1 \in DOMAIN events /\ i + 1 > 1 /\ (IsCommand(i)' <=> IsCommand(i + 1)) /\ (IsMine(i)' <=> IsMine(i + 1))
        /\ IsEnable(i)' <=> IsEnable(i + 1)
        /\ \A j \in DOMAIN events' : i < j => i + 1 < j + 1
  BY <1>1, <1>2 DEF IsCommand, IsMine, IsEnable
<1>4. /\ CommandInv' /\ \A b : Room(b) => Room(b)'
      /\ answer' # answer => IsCommand(1) /\ answer' = events[1] /\ events[1].from = commands[Last].what
  BY EventTaken DEF IInv
<1>5. Types' /\ Bound' = Bound
  BY <1>1 DEF IInv, Types, Bound, controller
<1>6. Room(Bound)'
  BY <1>4, <1>5 DEF IInv
<1>7. SlotInv'
  <2>1. UNCHANGED <<commands, CmdLeft, Last, hslots>>
    BY <1>1 DEF CmdLeft, Last, controller
  <2>2. ASSUME NEW i \in DOMAIN events', IsEnable(i)'
        PROVE  /\ events'[i].slot \in Slots /\ hslots[events'[i].slot].state = "enabled"
               /\ \A j \in DOMAIN events' : i < j /\ events'[j].of = "transfer" => events'[j].slot # events'[i].slot
    <3>1. i + 1 \in DOMAIN events /\ IsEnable(i + 1) /\ events'[i] = events[i + 1]
      BY <1>2, <1>3, <2>2
    <3>2. /\ events[i + 1].slot \in Slots /\ hslots[events[i + 1].slot].state = "enabled"
          /\ \A j \in DOMAIN events : i + 1 < j /\ events[j].of = "transfer" => events[j].slot # events[i + 1].slot
      BY <3>1 DEF IInv, SlotInv
    <3> QED
      BY <1>2, <1>3, <3>1, <3>2
  <2>3. ASSUME step = "enable", pc = "command", answer' # None, answer'.code = "ok"
        PROVE  /\ answer'.slot \in Slots /\ hslots[answer'.slot].state = "enabled"
               /\ \A i \in DOMAIN events' : events'[i].of = "transfer" => events'[i].slot # answer'.slot
    <3>1. CASE answer' = answer
      <4>1. /\ answer.slot \in Slots /\ hslots[answer.slot].state = "enabled"
            /\ \A i \in DOMAIN events : events[i].of = "transfer" => events[i].slot # answer.slot
        BY <2>3, <3>1 DEF IInv, SlotInv
      <4> QED
        BY <1>2, <1>3, <3>1, <4>1
    <3>2. CASE answer' # answer
      <4>1. 1 \in DOMAIN events /\ IsEnable(1) /\ answer' = events[1]
        BY <1>2, <1>4, <2>3, <3>2 DEF IsEnable, IInv, SlotInv
      <4>2. /\ events[1].slot \in Slots /\ hslots[events[1].slot].state = "enabled"
            /\ \A j \in DOMAIN events : 1 < j /\ events[j].of = "transfer" => events[j].slot # events[1].slot
        BY <4>1 DEF IInv, SlotInv
      <4> QED
        BY <1>2, <1>3, <4>1, <4>2
    <3> QED
      BY <3>1, <3>2
  <2> QED
    BY <1>1, <2>1, <2>2, <2>3 DEF IInv, SlotInv
<1>8. Ep0Inv'
  <2>1. UNCHANGED <<ep0_deq, ep0_halted>>
    BY <1>1 DEF controller
  <2>2. \A p \in XPorts : (Live(p)' <=> Live(p)) /\ (InOrderEp0(p)' <=> InOrderEp0(p))
    BY <1>1, <2>1 DEF Live, InOrderEp0, Ep0Left, Ep0Back, Enq, AfterTransfer
  <2> QED
    BY <2>2 DEF IInv, Ep0Inv
<1>9. TransferInv'
  <2>1. \A c : Over(c)' <=> Over(c)
    BY <1>1 DEF Over, Ep0Left, Enq, AfterTransfer, controller
  <2>2. got' # got => IsMine(1) /\ got' = events[1] /\ got = None /\ slot # None /\ events[1].code \in {"ok", "error"}
    <3> SUFFICES ASSUME got' # got
                 PROVE  IsMine(1) /\ got' = events[1] /\ got = None /\ slot # None /\ events[1].code \in {"ok", "error"}
      OBVIOUS
    <3>1. /\ got' = events[1] /\ got = None /\ armed # None /\ events[1].of = "transfer" /\ events[1].slot = armed.slot
          /\ events[1].at = armed.at \/ events[1].code = "error"
      BY <1>1, <1>2 DEF process_event
    <3>2. pc = "transfer" /\ armed.slot = slot
      BY <3>1 DEF IInv, TransferInv
    <3>3. slot # None
      BY <3>2, TransferLive
    <3>4. IsMine(1)
      BY <1>2, <3>1, <3>2 DEF IsMine
    <3> QED
      BY <1>2, <3>1, <3>3, <3>4 DEF IInv, TransferInv
  <2>3. got' # None => pc = "transfer" /\ got'.from = port /\ got'.code \in {"ok", "error"} /\ Over(got'.code)
    BY <1>2, <2>2 DEF IInv, TransferInv
  <2>4. ASSUME slot # None, NEW i \in DOMAIN events', IsMine(i)'
        PROVE  /\ pc = "transfer" /\ got' = None /\ events'[i].from = port /\ events'[i].code \in {"ok", "error", "short"}
               /\ events'[i].code = "short" => events'[i].at # armed.at
               /\ Over(events'[i].code)
               /\ events'[i].code # "short" => \A j \in DOMAIN events' : i < j => ~IsMine(j)'
    <3>1. i + 1 \in DOMAIN events /\ IsMine(i + 1) /\ events'[i] = events[i + 1] /\ 1 < i + 1
      BY <1>2, <1>3, <2>4
    <3>2. /\ pc = "transfer" /\ got = None /\ events[i + 1].from = port /\ events[i + 1].code \in {"ok", "error", "short"}
          /\ events[i + 1].code = "short" => events[i + 1].at # armed.at
          /\ Over(events[i + 1].code)
          /\ events[i + 1].code # "short" => \A j \in DOMAIN events : i + 1 < j => ~IsMine(j)
      BY <2>4, <3>1 DEF IInv, TransferInv
    <3>3. got' = None
      <4> SUFFICES ASSUME got' # got PROVE FALSE
        BY <3>2
      <4>1. IsMine(1) /\ events[1].code # "short" /\ 1 \in DOMAIN events
        BY <1>2, <2>2
      <4> QED
        BY <2>4, <3>1, <4>1 DEF IInv, TransferInv
    <3> QED
      BY <1>3, <3>1, <3>2, <3>3
  <2>5. /\ pc = "transfer" =>
             /\ armed.slot = slot /\ armed.port = port /\ armed.at \in 0 .. ep0_link - 1 /\ armed.cycle \in 0 .. 1
             /\ armed = [slot |-> armed.slot, port |-> armed.port, at |-> armed.at, cycle |-> armed.cycle]
             /\ ep0[port][armed.at].what = "status"
        /\ pc # "transfer" => armed = None
    BY DEF IInv, TransferInv
  <2> QED
    BY <1>1, <2>1, <2>3, <2>4, <2>5 DEF TransferInv
<1> QED
  BY <1>4, <1>5, <1>6, <1>7, <1>8, <1>9 DEF IInv

-----------------------------------------------------------------------------
(* The controller executes a command: the slot of the device keeps its port, and a *)
(* slot that was promised to a later answer stays enabled.                         *)
LEMMA CommandKeeps ==
  ASSUME IInv, hc_command
  PROVE  IInv'
<1> DEFINE at == Ahead(CmdLink, command_deq, 0).at
           c == commands[at].what
<1>1. /\ CommandInv' /\ \A b \in Nat : Room(b) => Room(b)'
      /\ UNCHANGED <<commands, Last>> /\ CmdLeft > 0 /\ CmdLeft' = CmdLeft - 1
      /\ at \in 0 .. CmdLink - 1 /\ CmdBack(at) = CmdLeft /\ c \in Commands
      /\ c.slot # None => NoCommandEvents
  BY CommandEnds DEF IInv
<1>2. /\ UNCHANGED <<ep0_link, step, pc, port, attempted, needs_reinit, slot, slots, dcbaa, answer, ep0_deq, ep0_halted>>
      /\ UNCHANGED endpoint0
  BY DEF hc_command, driver, queues
<1>3. PICK e :
        /\ events' = Append(events, e) /\ e.of = "command" /\ e.from = c
        /\ \/ e.slot \in Slots /\ e.code = "ok" /\ c.slot \in {None, e.slot} /\ Executed(c, e.slot)
           \/ e.code = "error" /\ UNCHANGED hslots
  <2>1. \A s, x : LET e == Event("command", at, s, x, c) IN e.of = "command" /\ e.from = c /\ e.slot = s /\ e.code = x
    BY DEF Event
  <2>2. CASE \E s \in Slots : c.slot \in {None, s} /\ Executed(c, s) /\ events' = Append(events, Event("command", at, s, "ok", c))
    BY <2>1, <2>2
  <2>3. CASE events' = Append(events, Event("command", at, c.slot, "error", c)) /\ UNCHANGED hslots
    BY <2>1, <2>3
  <2> QED
    BY <2>2, <2>3 DEF hc_command
<1> HIDE DEF at, c
<1>n. PICK n : n = Len(events) + 1
  OBVIOUS
<1>4. /\ Len(events) \in Nat /\ DOMAIN events = 1 .. Len(events) /\ DOMAIN events' = 1 .. n
      /\ \A i \in DOMAIN events : events'[i] = events[i]
      /\ events'[n] = e
  BY <1>3, <1>n, Added DEF IInv, CommandInv, EventInv
<1>5. \A i \in DOMAIN events' : i # n => i \in DOMAIN events /\ i < n /\ (IsEnable(i)' <=> IsEnable(i)) /\ (IsMine(i)' <=> IsMine(i))
  BY <1>2, <1>4, <1>n DEF IsEnable, IsCommand, IsMine
<1>6. c.type \in CommandTypes /\ (c.slot = None => c.type \in {"enable", "no-op"})
  BY <1>1 DEF Commands
<1>7. dcbaa \in [Slots -> XPorts \cup {None}] /\ hslots \in [Slots -> [state : {"off", "enabled", "addressed", "configured"}, port : XPorts \cup {None}]]
  BY DEF IInv, Types
<1>8. ASSUME NEW s \in Slots, Executed(c, s)
      PROVE  /\ hslots' \in [Slots -> [state : {"off", "enabled", "addressed", "configured"}, port : XPorts \cup {None}]]
             /\ \A t \in Slots : t # s => hslots'[t] = hslots[t]
             /\ c.type = "enable" => hslots[s].state = "off" /\ hslots'[s].state = "enabled"
             /\ c.type = "no-op" => hslots' = hslots
             /\ c.type = "disable" => hslots'[s].state = "off"
             /\ c.type = "address" => hslots'[s].port = dcbaa[s]
             /\ c.type = "evaluate" => hslots' = hslots
             /\ c.type = "configure" => hslots[s].state = "addressed" /\ hslots'[s].port = hslots[s].port
  <2>1. CASE c.type = "enable"
    BY <1>7, <1>8, <2>1 DEF Executed
  <2>2. CASE c.type = "no-op"
    BY <1>7, <1>8, <2>2 DEF Executed
  <2>3. CASE c.type = "disable"
    BY <1>7, <1>8, <2>3 DEF Executed
  <2>4. CASE c.type = "address"
    BY <1>7, <1>8, <2>4 DEF Executed
  <2>5. CASE c.type = "evaluate"
    BY <1>7, <1>8, <2>5 DEF Executed
  <2>6. CASE c.type = "configure"
    BY <1>7, <1>8, <2>6 DEF Executed
  <2> QED
    BY <1>6, <2>1, <2>2, <2>3, <2>4, <2>5, <2>6 DEF CommandTypes
<1>9. hslots' \in [Slots -> [state : {"off", "enabled", "addressed", "configured"}, port : XPorts \cup {None}]]
  BY <1>3, <1>7, <1>8
<1>10. Types' /\ Bound' = Bound
  BY <1>2, <1>9 DEF IInv, Types, Bound, endpoint0
<1>11. Room(Bound)'
  BY <1>1, <1>10, Bounds DEF IInv, CommandInv
<1>12. Ep0Inv'
  <2>1. \A p \in XPorts : (Live(p)' <=> Live(p)) /\ (InOrderEp0(p)' <=> InOrderEp0(p))
    BY <1>2 DEF Live, InOrderEp0, Ep0Left, Ep0Back, Enq, AfterTransfer, endpoint0
  <2> QED
    BY <2>1 DEF IInv, Ep0Inv
<1>13. TransferInv'
  <2>1. \A x : Over(x)' <=> Over(x)
    BY <1>2 DEF Over, Ep0Left, Enq, AfterTransfer, endpoint0
  <2>2. ~IsMine(n)'
    BY <1>3, <1>4 DEF IsMine
  <2>3. ASSUME slot # None, NEW i \in DOMAIN events', IsMine(i)'
        PROVE  /\ pc = "transfer" /\ got = None /\ events'[i].from = port /\ events'[i].code \in {"ok", "error", "short"}
               /\ events'[i].code = "short" => events'[i].at # armed.at
               /\ Over(events'[i].code)
               /\ events'[i].code # "short" => \A j \in DOMAIN events' : i < j => ~IsMine(j)'
    <3>1. i \in DOMAIN events /\ IsMine(i) /\ events'[i] = events[i]
      BY <1>4, <1>5, <2>2, <2>3
    <3>2. /\ pc = "transfer" /\ got = None /\ events[i].from = port /\ events[i].code \in {"ok", "error", "short"}
          /\ events[i].code = "short" => events[i].at # armed.at
          /\ Over(events[i].code)
          /\ events[i].code # "short" => \A j \in DOMAIN events : i < j => ~IsMine(j)
      BY <2>3, <3>1 DEF IInv, TransferInv
    <3> QED
      BY <1>5, <2>2, <3>1, <3>2
  <2>4. UNCHANGED <<armed, got, ep0>>
    BY <1>2 DEF endpoint0
  <2> QED
    BY <1>2, <2>1, <2>3, <2>4 DEF IInv, TransferInv
<1>14. SlotInv'
  <2>1. slot # None => c.slot = slot /\ c.type \notin {"enable", "no-op"} /\ (c.type = "address" => dcbaa[slot] = port)
    <3> SUFFICES ASSUME slot # None
                 PROVE  c.slot = slot /\ c.type \notin {"enable", "no-op"} /\ (c.type = "address" => dcbaa[slot] = port)
      OBVIOUS
    <3>1. CmdLink \in Nat \ {0} /\ CmdLeft \in 0 .. CmdLink
      BY Numbers, LeftBounds DEF IInv, CommandInv, RingInv, CmdLeft
    <3>2. CmdLeft <= 1
      BY <3>1 DEF IInv, Room, Bound
    <3>3. at = Last
      BY <1>1, <3>1, <3>2, Backs DEF IInv, CommandInv, RingInv, RingOK, CmdBack, Last
    <3> QED
      BY <1>1, <3>3 DEF IInv, SlotInv, c
  <2>2. ASSUME slot # None, hslots'[slot].state \in {"addressed", "configured"}
        PROVE  hslots'[slot].port = port
    <3>1. CASE UNCHANGED hslots
      BY <2>2, <3>1 DEF IInv, SlotInv
    <3>2. CASE e.slot \in Slots /\ c.slot \in {None, e.slot} /\ Executed(c, e.slot)
      <4>1. e.slot = slot
        BY <2>1, <2>2, <3>2
      <4> QED
        BY <1>6, <1>8, <2>1, <2>2, <3>2, <4>1 DEF IInv, SlotInv, CommandTypes
    <3> QED
      BY <1>3, <3>1, <3>2
  <2>3. ASSUME NEW i \in DOMAIN events', IsEnable(i)'
        PROVE  /\ events'[i].slot \in Slots /\ hslots'[events'[i].slot].state = "enabled"
               /\ \A j \in DOMAIN events' : i < j /\ events'[j].of = "transfer" => events'[j].slot # events'[i].slot
    <3>1. CASE i = n
      <4>1. e.code = "ok" /\ c.type = "enable"
        BY <1>3, <1>4, <2>3, <3>1 DEF IsEnable
      <4>2. e.slot \in Slots /\ hslots'[e.slot].state = "enabled"
        BY <1>3, <1>8, <4>1
      <4>3. \A j \in DOMAIN events' : ~(n < j)
        BY <1>4, <1>n
      <4> QED
        BY <1>4, <3>1, <4>2, <4>3
    <3>2. CASE i # n
      <4>1. i \in DOMAIN events /\ IsEnable(i) /\ events'[i] = events[i]
        BY <1>4, <1>5, <2>3, <3>2
      <4>2. /\ events[i].slot \in Slots /\ hslots[events[i].slot].state = "enabled"
            /\ \A j \in DOMAIN events : i < j /\ events[j].of = "transfer" => events[j].slot # events[i].slot
        BY <4>1 DEF IInv, SlotInv
      <4>3. c.slot = None
        BY <1>1, <4>1 DEF NoCommandEvents, IsEnable, IsCommand
      <4>4. hslots'[events[i].slot].state = "enabled"
        <5>1. CASE UNCHANGED hslots
          BY <4>2, <5>1
        <5>2. CASE e.slot \in Slots /\ Executed(c, e.slot)
          BY <1>6, <1>8, <4>2, <4>3, <5>2
        <5> QED
          BY <1>3, <5>1, <5>2
      <4>5. ASSUME NEW j \in DOMAIN events', i < j, events'[j].of = "transfer" PROVE events'[j].slot # events[i].slot
        BY <1>3, <1>4, <1>5, <4>2, <4>5
      <4> QED
        BY <4>1, <4>2, <4>4, <4>5
    <3> QED
      BY <3>1, <3>2
  <2>4. answer = None
    BY <1>1 DEF IInv, CommandInv, AnswerInv
  <2>5. CmdLeft' > 0 => CmdLeft > 0
    BY <1>1
  <2>6. /\ slot # None /\ CmdLeft > 0 =>
             /\ commands[Last].what.slot = slot /\ commands[Last].what.type \notin {"enable", "no-op"}
             /\ commands[Last].what.type = "address" => dcbaa[slot] = port
        /\ step = "enable" /\ pc = "command" => commands[Last].what.type = "enable"
    BY DEF IInv, SlotInv
  <2> QED
    BY <1>1, <1>2, <2>2, <2>3, <2>4, <2>5, <2>6 DEF SlotInv
<1> QED
  BY <1>1, <1>10, <1>11, <1>12, <1>13, <1>14 DEF IInv

-----------------------------------------------------------------------------
(* The controller goes on with an endpoint 0: of the ports whose rings are in order, *)
(* only the one whose transfer the driver waits for has a TRB left.                  *)
LEMMA TransferKeeps ==
  ASSUME IInv, hc_transfer
  PROVE  IInv'
<1>1. PICK s \in Slots :
        LET p == hslots[s].port
            at == Ahead(ep0_link, ep0_deq[p], 0).at
            what == ep0[p][at].what
            code == {"error"} \cup (CASE what = "status" -> {"ok"} [] what = "packet" -> {"none", "short"} [] OTHER -> {"none"})
        IN
        /\ hslots[s].state \in {"addressed", "configured"} /\ ~ep0_halted[p]
        /\ Owned(ep0[p], ep0_link, ep0_deq[p])
        /\ \E x \in code :
             /\ events' = IF x = "none" THEN events ELSE Append(events, Event("transfer", at, s, x, p))
             /\ ep0_halted' = [ep0_halted EXCEPT ![p] = (x = "error")]
             /\ ep0_deq' = IF x = "error" THEN ep0_deq ELSE [ep0_deq EXCEPT ![p] = Consumed(ep0_link, @)]
        /\ UNCHANGED <<driver, hslots, command_deq>>
  BY DEF hc_transfer
<1>2. PICK p, at : p = hslots[s].port /\ at = Ahead(ep0_link, ep0_deq[p], 0).at
  OBVIOUS
<1>3. PICK x \in {"error", "ok", "none", "short"} :
        /\ x = "ok" => ep0[p][at].what = "status"
        /\ x = "short" => ep0[p][at].what = "packet"
        /\ events' = IF x = "none" THEN events ELSE Append(events, Event("transfer", at, s, x, p))
        /\ ep0_halted' = [ep0_halted EXCEPT ![p] = (x = "error")]
        /\ ep0_deq' = IF x = "error" THEN ep0_deq ELSE [ep0_deq EXCEPT ![p] = Consumed(ep0_link, @)]
  BY <1>1, <1>2
<1>4. /\ hslots[s].state \in {"addressed", "configured"} /\ ~ep0_halted[p] /\ Owned(ep0[p], ep0_link, ep0_deq[p])
      /\ UNCHANGED <<driver, hslots, command_deq>>
  BY <1>1, <1>2
<1>5. UNCHANGED <<ep0_link, step, pc, port, attempted, needs_reinit, slot, slots, dcbaa, queues, ep0, ep0_enq, unpublished, armed, got>>
  BY <1>4 DEF driver, endpoint0
<1>6. /\ Types /\ Sizes /\ Slots = XPorts
      /\ ep0_link \in Nat \ {0} /\ p \in XPorts \cup {None} /\ None \notin XPorts
  <2>1. Types /\ Sizes /\ Slots = XPorts
    BY DEF IInv, CommandInv, Slots
  <2>2. hslots[s] \in [state : {"off", "enabled", "addressed", "configured"}, port : XPorts \cup {None}]
    BY <2>1 DEF Types
  <2> QED
    BY <1>2, <2>1, <2>2, Numbers DEF Types, Sizes
<1>7. /\ ep0_halted' \in [XPorts -> BOOLEAN] /\ DOMAIN ep0_deq' = XPorts
      /\ \A q \in XPorts : q # p => ep0_halted'[q] = ep0_halted[q] /\ ep0_deq'[q] = ep0_deq[q]
      /\ p \in XPorts /\ x = "error" => ep0_halted'[p] /\ ep0_deq'[p] = ep0_deq[p]
      /\ p \in XPorts /\ x # "error" => ep0_deq'[p] = Consumed(ep0_link, ep0_deq[p])
  BY <1>3, <1>6 DEF Types
<1>8. Types' /\ Bound' = Bound
  BY <1>4, <1>5, <1>6, <1>7 DEF Types, Bound
<1>9. \A q \in XPorts : Live(q)' => Live(q)
  BY <1>4, <1>5, <1>7 DEF Live
(* a ring that is in order *)
<1>10. ASSUME p \in XPorts, Live(p)
       PROVE  /\ pc = "transfer" /\ p = port /\ InOrderEp0(p)
              /\ Behind(ep0_link, Consumed(ep0_link, ep0_deq[p]), Enq(p))
              /\ LinkOK(ep0[p], ep0_link, ep0_deq[p], Enq(p)) => LinkOK(ep0[p], ep0_link, Consumed(ep0_link, ep0_deq[p]), Enq(p))
              /\ Left(ep0_link, Consumed(ep0_link, ep0_deq[p]), Enq(p)) = Ep0Left(p) - 1
              /\ Ep0Left(p) \in Nat \ {0} /\ at \in 0 .. ep0_link - 1 /\ Ep0Back(p, at) = Ep0Left(p)
              /\ got = None /\ (slot # None => \A i \in DOMAIN events : IsMine(i) => events[i].code = "short")
  <2>1. InOrderEp0(p) /\ RingOK(ep0[p], ep0_link, Enq(p)) /\ Behind(ep0_link, ep0_deq[p], Enq(p))
    BY <1>10 DEF IInv, Ep0Inv, InOrderEp0
  <2>2. Ep0Left(p) \in Nat \ {0}
    BY <1>4, <1>6, <2>1, NothingLeft, LeftBounds DEF Ep0Left
  <2>3. pc = "transfer" /\ p = port
    BY <2>1, <2>2 DEF InOrderEp0
  <2>4. ~Over("ok") /\ ~Over("error")
    BY <1>4, <2>2, <2>3 DEF Over
  <2>5. got = None /\ (slot # None => \A i \in DOMAIN events : IsMine(i) => events[i].code = "short")
    BY <2>4 DEF IInv, TransferInv
  <2>6. /\ Behind(ep0_link, Consumed(ep0_link, ep0_deq[p]), Enq(p))
        /\ LinkOK(ep0[p], ep0_link, ep0_deq[p], Enq(p)) => LinkOK(ep0[p], ep0_link, Consumed(ep0_link, ep0_deq[p]), Enq(p))
        /\ Left(ep0_link, Consumed(ep0_link, ep0_deq[p]), Enq(p)) = Ep0Left(p) - 1
        /\ at \in 0 .. ep0_link - 1 /\ Ep0Back(p, at) = Ep0Left(p)
    BY <1>2, <1>6, <2>1, <2>2, Fetched DEF Ep0Left, Ep0Back
  <2> QED
    BY <2>1, <2>2, <2>3, <2>5, <2>6
<1>11. \A q \in XPorts : Enq(q)' = Enq(q)
  BY <1>5 DEF Enq, AfterTransfer
<1>12. Ep0Inv'
  <2> SUFFICES ASSUME NEW q \in XPorts, Live(q)' PROVE InOrderEp0(q)'
    BY DEF Ep0Inv
  <2>1. Live(q) /\ InOrderEp0(q)
    BY <1>9 DEF IInv, Ep0Inv
  <2>2. CASE q # p \/ x = "error"
    <3>1. ep0_deq'[q] = ep0_deq[q] /\ ((pc = "transfer" /\ q = port)' \/ Ep0Left(q) = 0)
      BY <1>5, <1>7, <2>1, <2>2 DEF InOrderEp0
    <3> QED
      BY <1>5, <1>11, <2>1, <3>1, SameRing
  <2>3. CASE q = p /\ x # "error"
    <3>1. ep0_deq'[q] = Consumed(ep0_link, ep0_deq[q]) /\ Enq(q)' = Enq(q) /\ ep0'[q] = ep0[q] /\ ep0_link' = ep0_link
      BY <1>5, <1>7, <1>11, <2>3
    <3>2. Ep0Left(q)' = Ep0Left(q) - 1 /\ Ep0Left(q) \in Nat /\ \A i : Ep0Back(q, i)' = Ep0Back(q, i)
      BY <1>10, <2>1, <2>3, <3>1 DEF Ep0Left, Ep0Back
    <3>3. /\ RingOK(ep0[q], ep0_link, Enq(q)) /\ (q \in unpublished \/ LinkOK(ep0[q], ep0_link, ep0_deq[q], Enq(q)))
          /\ \A i \in 0 .. ep0_link - 1 : Ep0Back(q, i) <= Ep0Left(q) /\ ep0[q][i].what = "status" => Ep0Back(q, i) = 1
          /\ Enq(q).at \in 0 .. ep0_link - 1
      BY <2>1 DEF InOrderEp0, RingOK
    <3>4. \A i \in 0 .. ep0_link - 1 : Ep0Back(q, i) \in Nat
      BY <1>6, <3>3, Backs DEF Ep0Back
    <3>5. \A i \in 0 .. ep0_link - 1 : Ep0Back(q, i)' <= Ep0Left(q)' /\ ep0'[q][i].what = "status" => Ep0Back(q, i)' = 1
      BY <3>1, <3>2, <3>3, <3>4
    <3>6. Behind(ep0_link, ep0_deq[q], Enq(q))'
      BY <1>10, <2>1, <2>3, <3>1
    <3>7. (q \in unpublished \/ LinkOK(ep0[q], ep0_link, ep0_deq[q], Enq(q)))'
      BY <1>5, <1>10, <2>1, <2>3, <3>1, <3>3
    <3> QED
      BY <1>5, <1>10, <2>1, <2>3, <3>1, <3>3, <3>5, <3>6, <3>7 DEF InOrderEp0
  <2> QED
    BY <2>2, <2>3
(* the event *)
<1>13. slot # None /\ s = slot => p \in XPorts /\ p = port /\ Live(p)
  <2> SUFFICES ASSUME slot # None, s = slot PROVE p \in XPorts /\ p = port /\ Live(p)
    OBVIOUS
  <2>1. p = port
    BY <1>2, <1>4 DEF IInv, SlotInv
  <2>2. port \in XPorts
    BY <1>6 DEF Types
  <2> QED
    BY <1>4, <2>1, <2>2 DEF Live
<1>14. /\ CommandInv' /\ \A b : Room(b) => Room(b)'
       /\ CmdLeft' = CmdLeft /\ Last' = Last
  <2>1. CASE x = "none"
    BY <1>3, <1>4, <1>5, <2>1, CommandsKept DEF IInv
  <2>2. CASE x # "none"
    <3>1. Event("transfer", at, s, x, p).of = "transfer"
      BY DEF Event
    <3> QED
      BY <1>3, <1>4, <1>5, <2>2, <3>1, CommandsPassed DEF IInv
  <2> QED
    BY <2>1, <2>2
<1>15. PICK n : n = Len(events) + 1
  OBVIOUS
<1>16. /\ Len(events) \in Nat /\ DOMAIN events = 1 .. Len(events)
       /\ DOMAIN events' \subseteq 1 .. n
       /\ x = "none" => events' = events
       /\ \A i \in DOMAIN events : events'[i] = events[i]
       /\ n \in DOMAIN events' => x # "none" /\ events'[n] = Event("transfer", at, s, x, p)
  <2>1. /\ Len(events) \in Nat /\ DOMAIN events = 1 .. Len(events)
        /\ \A e : /\ DOMAIN Append(events, e) = 1 .. n /\ Append(events, e)[n] = e
                  /\ \A i \in DOMAIN events : Append(events, e)[i] = events[i]
    BY <1>15, Added DEF IInv, CommandInv, EventInv
  <2>2. CASE x = "none"
    BY <1>3, <1>15, <2>1, <2>2
  <2>3. CASE x # "none"
    BY <1>3, <2>1, <2>3
  <2> QED
    BY <2>2, <2>3
<1>17. ASSUME NEW i \in DOMAIN events', i # n
       PROVE  /\ i \in DOMAIN events /\ i < n /\ events'[i] = events[i]
              /\ (IsEnable(i)' <=> IsEnable(i)) /\ (IsMine(i)' <=> IsMine(i))
  <2>1. i \in DOMAIN events /\ i < n /\ events'[i] = events[i]
    BY <1>15, <1>16, <1>17
  <2> QED
    BY <1>5, <2>1 DEF IsEnable, IsCommand, IsMine
<1>18. n \in DOMAIN events' =>
         /\ events'[n].of = "transfer" /\ events'[n].slot = s /\ events'[n].code = x /\ events'[n].at = at
         /\ events'[n].from = p /\ x # "none"
  BY <1>16 DEF Event
<1>19. SlotInv'
  <2>1. UNCHANGED <<commands, answer>>
    BY <1>5 DEF queues
  <2>2. ASSUME NEW i \in DOMAIN events', IsEnable(i)'
        PROVE  /\ events'[i].slot \in Slots /\ hslots[events'[i].slot].state = "enabled"
               /\ \A j \in DOMAIN events' : i < j /\ events'[j].of = "transfer" => events'[j].slot # events'[i].slot
    <3>1. i # n
      BY <1>18, <2>2 DEF IsEnable, IsCommand
    <3>2. i \in DOMAIN events /\ IsEnable(i) /\ events'[i] = events[i]
      BY <1>17, <2>2, <3>1
    <3>3. /\ events[i].slot \in Slots /\ hslots[events[i].slot].state = "enabled"
          /\ \A j \in DOMAIN events : i < j /\ events[j].of = "transfer" => events[j].slot # events[i].slot
      BY <3>2 DEF IInv, SlotInv
    <3>4. events[i].slot # s
      BY <1>4, <3>3
    <3>5. ASSUME NEW j \in DOMAIN events', i < j, events'[j].of = "transfer" PROVE events'[j].slot # events'[i].slot
      BY <1>17, <1>18, <3>2, <3>3, <3>4, <3>5
    <3> QED
      BY <3>2, <3>3, <3>5
  <2>3. ASSUME step = "enable", pc = "command", answer # None, answer.code = "ok"
        PROVE  /\ answer.slot \in Slots /\ hslots[answer.slot].state = "enabled"
               /\ \A i \in DOMAIN events' : events'[i].of = "transfer" => events'[i].slot # answer.slot
    <3>1. /\ answer.slot \in Slots /\ hslots[answer.slot].state = "enabled"
          /\ \A i \in DOMAIN events : events[i].of = "transfer" => events[i].slot # answer.slot
      BY <2>3 DEF IInv, SlotInv
    <3>2. answer.slot # s
      BY <1>4, <3>1
    <3> QED
      BY <1>17, <1>18, <3>1, <3>2
  <2>4. /\ slot # None /\ CmdLeft > 0 =>
             /\ commands[Last].what.slot = slot /\ commands[Last].what.type \notin {"enable", "no-op"}
             /\ commands[Last].what.type = "address" => dcbaa[slot] = port
        /\ step = "enable" /\ pc = "command" => commands[Last].what.type = "enable"
        /\ slot # None /\ hslots[slot].state \in {"addressed", "configured"} => hslots[slot].port = port
    BY DEF IInv, SlotInv
  <2> QED
    BY <1>4, <1>5, <1>14, <2>1, <2>2, <2>3, <2>4 DEF SlotInv

<1>20. TransferInv'
  <2>1. pc = "transfer" => port \in XPorts /\ Live(port) /\ slot # None
    BY TransferLive
  <2>2. ASSUME pc = "transfer", p # port PROVE \A c : Over(c)' <=> Over(c)
    <3>1. ep0_halted'[port] = ep0_halted[port] /\ ep0_deq'[port] = ep0_deq[port] /\ port \in XPorts
      BY <1>7, <2>1, <2>2
    <3> QED
      BY <1>5, <3>1 DEF Over, Ep0Left, Enq, AfterTransfer
  <2>3. pc = "transfer" /\ p = port => got = None /\ (\A i \in DOMAIN events : IsMine(i) => events[i].code = "short")
    BY <1>10, <2>1
  <2>4. got # None => got.from = port /\ got.code \in {"ok", "error"} /\ Over(got.code)'
    <3> SUFFICES ASSUME got # None PROVE got.from = port /\ got.code \in {"ok", "error"} /\ Over(got.code)'
      OBVIOUS
    <3>1. pc = "transfer" /\ got.from = port /\ got.code \in {"ok", "error"} /\ Over(got.code)
      BY DEF IInv, TransferInv
    <3>2. p # port
      BY <2>3, <3>1
    <3>3. \A c : Over(c)' <=> Over(c)
      BY <2>2, <3>1, <3>2
    <3>4. got' = got
      BY <1>5
    <3> QED
      BY <3>1, <3>3, <3>4
  <2>5. ASSUME slot # None, NEW i \in DOMAIN events', IsMine(i)'
        PROVE  /\ pc = "transfer" /\ got = None /\ events'[i].from = port /\ events'[i].code \in {"ok", "error", "short"}
               /\ events'[i].code = "short" => events'[i].at # armed.at
               /\ \A c : c = events'[i].code => Over(c)'
               /\ events'[i].code # "short" => \A j \in DOMAIN events' : i < j => ~IsMine(j)'
    <3>1. CASE i = n
      <4>1. /\ s = slot /\ n \in DOMAIN events'
            /\ events'[n].of = "transfer" /\ events'[n].slot = s /\ events'[n].code = x /\ events'[n].at = at
            /\ events'[n].from = p /\ x # "none"
        BY <1>5, <1>18, <2>5, <3>1 DEF IsMine
      <4>2. p \in XPorts /\ p = port /\ Live(p)
        BY <1>13, <2>5, <4>1
      <4>3. /\ pc = "transfer" /\ got = None /\ Ep0Left(p) \in Nat \ {0} /\ at \in 0 .. ep0_link - 1 /\ Ep0Back(p, at) = Ep0Left(p)
            /\ Left(ep0_link, Consumed(ep0_link, ep0_deq[p]), Enq(p)) = Ep0Left(p) - 1 /\ InOrderEp0(p)
        BY <1>10, <4>2
      <4>4. x = "short" => at # armed.at
        BY <1>3, <4>2, <4>3 DEF IInv, TransferInv
      <4>5. x = "error" => ep0_halted'[port']
        BY <1>5, <1>7, <4>2
      <4>6. x = "ok" => Ep0Left(port)' = 0
        <5> SUFFICES ASSUME x = "ok" PROVE Ep0Left(port)' = 0
          OBVIOUS
        <5>1. Ep0Back(p, at) = 1
          BY <1>3, <4>3 DEF InOrderEp0
        <5>2. Enq(p)' = Enq(p) /\ ep0_deq'[p] = Consumed(ep0_link, ep0_deq[p]) /\ ep0_link' = ep0_link /\ port' = p
          BY <1>5, <1>7, <1>11, <4>2
        <5>3. Ep0Left(p)' = 0
          BY <4>3, <5>1, <5>2 DEF Ep0Left
        <5> QED
          BY <5>2, <5>3
      <4>7. Over(x)'
        BY <4>5, <4>6 DEF Over
      <4>8. \A j \in DOMAIN events' : ~(n < j)
        BY <1>15, <1>16
      <4> QED
        BY <3>1, <4>1, <4>2, <4>3, <4>4, <4>7, <4>8
    <3>2. CASE i # n
      <4>1. i \in DOMAIN events /\ IsMine(i) /\ events'[i] = events[i]
        BY <1>17, <2>5, <3>2
      <4>2. /\ pc = "transfer" /\ got = None /\ events[i].from = port /\ events[i].code \in {"ok", "error", "short"}
            /\ events[i].code = "short" => events[i].at # armed.at
            /\ Over(events[i].code)
            /\ events[i].code # "short" => \A j \in DOMAIN events : i < j => ~IsMine(j)
        BY <2>5, <4>1 DEF IInv, TransferInv
      <4>3. CASE p = port
        <5>1. events[i].code = "short"
          BY <2>3, <4>1, <4>2, <4>3
        <5> QED
          BY <4>1, <4>2, <5>1 DEF Over
      <4>4. CASE p # port
        <5>1. \A c : c = events'[i].code => Over(c)'
          BY <2>2, <4>1, <4>2, <4>4
        <5>2. s # slot
          BY <1>13, <2>5, <4>4
        <5>3. n \in DOMAIN events' => ~IsMine(n)'
          BY <1>5, <1>18, <5>2 DEF IsMine
        <5>4. ASSUME events[i].code # "short", NEW j \in DOMAIN events', i < j PROVE ~IsMine(j)'
          BY <1>17, <4>2, <5>3, <5>4
        <5> QED
          BY <4>1, <4>2, <5>1, <5>4
      <4> QED
        BY <4>3, <4>4
    <3> QED
      BY <3>1, <3>2
  <2>6. /\ pc = "transfer" =>
             /\ armed.slot = slot /\ armed.port = port /\ armed.at \in 0 .. ep0_link - 1 /\ armed.cycle \in 0 .. 1
             /\ armed = [slot |-> armed.slot, port |-> armed.port, at |-> armed.at, cycle |-> armed.cycle]
             /\ ep0[port][armed.at].what = "status"
        /\ pc # "transfer" => armed = None /\ got = None
    BY DEF IInv, TransferInv
  <2> QED
    BY <1>5, <2>4, <2>5, <2>6 DEF TransferInv
<1> QED
  BY <1>8, <1>12, <1>14, <1>19, <1>20 DEF IInv

-----------------------------------------------------------------------------
(* the rings as setup_rings leaves them *)
LEMMA NewRings ==
  ASSUME NEW link \in Nat \ {0}
  PROVE  LET r == NewRing(link)
             h == Place(0, 1)
         IN RingOK(r, link, h) /\ Behind(link, h, h) /\ LinkOK(r, link, h, h) /\ Left(link, h, h) = 0
            /\ \A i \in 0 .. link - 1 : Back(link, h, i) \in 1 .. link /\ r[i].what = "empty"
<1> DEFINE r == NewRing(link)
           h == Place(0, 1)
<1>1. DOMAIN r = 0 .. link /\ \A i \in 0 .. link - 1 : r[i].cycle = 0 /\ r[i].what = "empty"
  BY DEF NewRing, Trb
<1>2. h.at = 0 /\ h.cycle = 1 /\ h = Place(h.at, h.cycle)
  BY DEF Place
<1>3. Ahead(link, h, 0).at = 0 /\ Ahead(link, h, 0).cycle = 1
  BY <1>2, NextTrb
<1> HIDE DEF r, h
<1>4. RingOK(r, link, h) /\ Behind(link, h, h) /\ LinkOK(r, link, h, h) /\ Left(link, h, h) = 0
  BY <1>1, <1>2, <1>3 DEF RingOK, Behind, LinkOK, Left
<1>5. \A i \in 0 .. link - 1 : Back(link, h, i) \in 1 .. link /\ r[i].what = "empty"
  BY <1>1, <1>2 DEF Back
<1> QED
  BY <1>4, <1>5 DEF r, h

(* the invariant holds when the driver starts *)
LEMMA InitIInv == Sizes /\ Init => IInv
<1> SUFFICES ASSUME Sizes, Init PROVE IInv
  OBVIOUS
<1>1. CmdLink \in Nat \ {0} /\ ep0_link \in Nat \ {0}
  BY Numbers DEF Init
<1>2. events = << >> /\ DOMAIN events = {} /\ events \in Seq({events[i] : i \in DOMAIN events})
  <2>1. events = << >> /\ DOMAIN events = 1 .. 0
    BY DEF Init
  <2>2. events \in Seq({events[i] : i \in DOMAIN events})
    BY <2>1
  <2> QED
    BY <2>1, <2>2
<1>3. \A i : ~IsCommand(i) /\ ~IsEnable(i) /\ ~IsMine(i)
  BY <1>2 DEF IsCommand, IsEnable, IsMine
<1>4. /\ RingOK(commands, CmdLink, command_enq) /\ Behind(CmdLink, command_deq, command_enq)
      /\ LinkOK(commands, CmdLink, command_deq, command_enq) /\ CmdLeft = 0
      /\ \A i \in 0 .. CmdLink - 1 : CmdBack(i) \in 1 .. CmdLink
  BY <1>1, NewRings DEF Init, CmdLeft, CmdBack
<1>5. RingInv /\ EventInv /\ AnswerInv
  BY <1>2, <1>3, <1>4 DEF RingInv, EventInv, Completions, AnswerInv, Init
<1>6. Types
  BY DEF Types, Init, WithSlot, WithPort, WithoutPort, Identifying, PacketSteps, AfterPacket, Slots
<1>7. Room(Bound)
  <2>1. Bound = 0
    BY DEF Bound, Init
  <2> QED
    BY <1>2, <1>4, <2>1 DEF Room
<1>8. SlotInv
  BY <1>2 DEF SlotInv, Init
<1>9. ASSUME NEW p \in XPorts PROVE InOrderEp0(p)
  <2>1. Enq(p) = Place(0, 1) /\ ep0_deq[p] = Place(0, 1) /\ ep0[p] = NewRing(ep0_link)
    BY DEF Enq, Init
  <2>2. /\ RingOK(ep0[p], ep0_link, Enq(p)) /\ Behind(ep0_link, ep0_deq[p], Enq(p))
        /\ LinkOK(ep0[p], ep0_link, ep0_deq[p], Enq(p)) /\ Ep0Left(p) = 0
        /\ \A i \in 0 .. ep0_link - 1 : ep0[p][i].what # "status"
    BY <1>1, <2>1, NewRings DEF Ep0Left
  <2> QED
    BY <2>2 DEF InOrderEp0
<1>10. TransferInv
  BY <1>2 DEF TransferInv, Init
<1> QED
  BY <1>5, <1>6, <1>7, <1>8, <1>9, <1>10 DEF IInv, CommandInv, Ep0Inv

(* the firmware gives the controller up, or nothing happens *)
LEMMA StutterKeeps ==
  ASSUME IInv, firmware \/ UNCHANGED vars
  PROVE  IInv'
<1>1. UNCHANGED <<ep0_link, step, pc, port, attempted, needs_reinit, slot, slots, dcbaa, queues, endpoint0, events, controller>>
  BY DEF firmware, vars
<1>2. UNCHANGED <<commands, command_enq, waiting, answer, ep0, ep0_enq, unpublished, armed, got, hslots, command_deq, ep0_deq, ep0_halted>>
  BY <1>1 DEF queues, endpoint0, controller
<1>3. Types' /\ Bound' = Bound
  BY <1>1, <1>2 DEF IInv, Types, Bound
<1>4. CommandInv' /\ Room(Bound)' /\ CmdLeft' = CmdLeft /\ Last' = Last
  BY <1>1, <1>2, <1>3, CommandsKept DEF IInv
<1>5. \A i : (IsEnable(i)' <=> IsEnable(i)) /\ (IsMine(i)' <=> IsMine(i))
  BY <1>1, <1>2 DEF IsEnable, IsCommand, IsMine
<1>6. SlotInv'
  BY <1>1, <1>2, <1>4, <1>5 DEF IInv, SlotInv
<1>7. \A p \in XPorts : (Live(p)' <=> Live(p)) /\ (InOrderEp0(p)' <=> InOrderEp0(p))
  BY <1>1, <1>2 DEF Live, InOrderEp0, Ep0Left, Ep0Back, Enq, AfterTransfer
<1>8. Ep0Inv'
  BY <1>7 DEF IInv, Ep0Inv
<1>9. \A c : Over(c)' <=> Over(c)
  BY <1>1, <1>2 DEF Over, Ep0Left, Enq, AfterTransfer
<1>10. TransferInv'
  BY <1>1, <1>2, <1>5, <1>9 DEF IInv, TransferInv
<1> QED
  BY <1>3, <1>4, <1>6, <1>8, <1>10 DEF IInv

(* every step of the driver and of the controller keeps the invariant *)
LEMMA NextIInv == IInv /\ [Next]_vars => IInv'
<1> SUFFICES ASSUME IInv, [Next]_vars PROVE IInv'
  OBVIOUS
<1>1. CASE xhci_take_ownership \/ xhci_reset \/ allocate_scracthpad \/ enumrate_ports
  BY <1>1, StartKeeps
<1>2. CASE controller_init \/ no_op_done
  BY <1>2, NoOpKeeps
<1>3. CASE scan_ports \/ reset_port \/ enable_device_slot \/ enable_slot_done
  BY <1>3, PortKeeps
<1>4. CASE \/ identify_gives_up \/ address_device \/ address_timeout \/ address_failed \/ no_descriptor_buffer
           \/ disable_slot_done \/ evaluate_context \/ evaluate_done \/ packet_refused
           \/ configure_endpoints \/ configure_done
  BY <1>4, DeviceKeeps
<1>5. CASE get_descriptor \/ usb_send_packet
  BY <1>5, BeginKeeps
<1>6. CASE get_descriptor_timeout \/ get_descriptor_failed \/ get_descriptor_done \/ packet_failed \/ packet_done
  BY <1>6, EndKeeps
<1>7. CASE xhci_process_events
  BY <1>7, ProcessKeeps
<1>8. CASE hc_command
  BY <1>8, CommandKeeps
<1>9. CASE hc_transfer
  BY <1>9, TransferKeeps
<1>10. CASE firmware \/ UNCHANGED vars
  BY <1>10, StutterKeeps
<1> QED
  BY <1>1, <1>2, <1>3, <1>4, <1>5, <1>6, <1>7, <1>8, <1>9, <1>10 DEF Next

(* What the driver and the controller believe of the rings stays true on every pass over   *)
(* them, whatever timed out before: of submit_command, usb_send_packet, process_events and *)
(* scan_ports, for any number of ports and any length of the rings.                        *)
THEOREM Invariance == Sizes /\ Spec => []IInv
<1>1. Sizes /\ Init => IInv
  BY InitIInv
<1>2. IInv /\ [Next]_vars => IInv'
  BY NextIInv
<1> QED
  BY <1>1, <1>2, PTL DEF Spec

(* an answer that was taken is that of the command or of the transfer *)
LEMMA Answers == IInv => AnswersMatch
<1> SUFFICES ASSUME IInv PROVE AnswersMatch
  OBVIOUS
<1>1. answer # None => answer.from = waiting.command
  BY DEF IInv, CommandInv, AnswerInv
<1>2. got # None => pc = "transfer" /\ got.from = port /\ got.code \in {"ok", "error"} /\ armed.port = port
  BY DEF IInv, TransferInv
<1> QED
  BY <1>1, <1>2 DEF AnswersMatch

(* the rings are in step where the driver still uses them *)
LEMMA Rings == IInv => RingsInStep
<1> SUFFICES ASSUME IInv PROVE RingsInStep
  OBVIOUS
<1>1. CmdLink \in Nat \ {0} /\ ep0_link \in Nat \ {0} /\ Types /\ Sizes
  BY Numbers DEF IInv, CommandInv, Types
<1>2. InStep(commands, CmdLink, command_deq, command_enq)
  BY <1>1, InOrder DEF IInv, CommandInv, RingInv
<1>3. ASSUME NEW p \in XPorts, slots[p] # None, ~needs_reinit, p \notin unpublished
      PROVE  InStep(ep0[p], ep0_link, ep0_deq[p], IF armed # None /\ armed.port = p THEN AfterTransfer ELSE ep0_enq[p])
  <2>1. InOrderEp0(p)
    BY <1>3 DEF IInv, Ep0Inv, Live
  <2>2. InStep(ep0[p], ep0_link, ep0_deq[p], Enq(p))
    BY <1>1, <1>3, <2>1, InOrder DEF InOrderEp0
  <2>3. pc = "transfer" => armed # None /\ armed.port = port
    <3> SUFFICES ASSUME pc = "transfer" PROVE armed # None /\ armed.port = port
      OBVIOUS
    <3>1. /\ armed.slot = slot /\ armed.port = port /\ armed.at \in 0 .. ep0_link - 1 /\ armed.cycle \in 0 .. 1
          /\ armed = [slot |-> armed.slot, port |-> armed.port, at |-> armed.at, cycle |-> armed.cycle]
      BY DEF IInv, TransferInv
    <3>2. slot \in XPorts /\ port \in XPorts /\ armed.at \in 0 .. ep0_link
      BY <1>1, <3>1, TransferLive DEF Slots
    <3> QED
      BY <1>1, <3>1, <3>2 DEF Types, Sizes
  <2>4. pc # "transfer" => armed = None
    BY DEF IInv, TransferInv
  <2> QED
    BY <2>2, <2>3, <2>4 DEF Enq
<1> QED
  BY <1>2, <1>3 DEF RingsInStep

-----------------------------------------------------------------------------
(* Memory: what the controller uses or may come to use was not freed. *)

Safe(p, o) == mem[p][o] \in {"held", "kept"}
MemTypes == mem \in [XPorts -> [Objects -> {"none", "held", "free", "kept"}]]

(* the memory a command refers to *)
Uses(c) ==
  CASE c.type = "address" -> {"in", "out", "ring"}
    [] c.type = "evaluate" -> {"in", "out"}
    [] c.type = "configure" -> {"in", "out", "rings"}
    [] OTHER -> {}

(* A command for a slot that was not fetched: of the port in hand if it is for its slot. *)
GoodCommand(c) ==
  /\ c.port \in attempted /\ (c.port = port => c.slot = slot)
  /\ \A o \in Uses(c) : Safe(c.port, o)
  /\ c.type = "address" => dcbaa[c.slot] = c.port /\ \A t \in Slots : hslots[t].port # c.port
  /\ c.type = "configure" /\ hslots[c.slot].state = "addressed" => hslots[c.slot].port = c.port
PendingInv ==
  \A i \in 0 .. CmdLink - 1 : CmdBack(i) <= CmdLeft /\ commands[i].what.slot # None => GoodCommand(commands[i].what)

(* A slot of the controller: its memory is safe, and no other slot has the port in hand. *)
GoodSlot(t) ==
  /\ hslots[t].state \in {"off", "enabled"} => hslots[t].port = None
  /\ hslots[t].state \in {"addressed", "configured"} =>
       hslots[t].port \in attempted /\ Safe(hslots[t].port, "out") /\ Safe(hslots[t].port, "ring")
  /\ hslots[t].state = "configured" => Safe(hslots[t].port, "rings")
  /\ hslots[t].port = port /\ port # None => t = slot /\ step # "identify"
SlotsInv == \A t \in Slots : GoodSlot(t)

(* The command of each step, and what its completion tells of the slot.               *)
CommandOf == [address |-> "address", drop |-> "disable", release |-> "disable", evaluate |-> "evaluate", endpoints |-> "configure"]
Ends(code) ==
  \/ \E i \in DOMAIN events : IsCommand(i) /\ events[i].code = code
  \/ answer # None /\ answer.code = code
EndsInv ==
  /\ slot # None /\ CmdLeft > 0 => step \in DOMAIN CommandOf /\ commands[Last].what.type = CommandOf[step]
  /\ step = "release" /\ pc = "command" /\ Ends("ok") => hslots[slot].state = "off"
  /\ step \in WithSlot \ {"setconf"} /\ hslots[slot].state = "configured" =>
       step = "endpoints" /\ pc = "command" /\ CmdLeft = 0 /\ ~Ends("error")
  /\ step \in WithSlot \ {"identify", "drop"} => Safe(port, "out")

(* the data stage of a transfer that can still be fetched has its buffer *)
DataInv ==
  \A p \in XPorts :
    /\ ep0_deq[p].at \in 0 .. ep0_link /\ ep0_deq[p].cycle \in 0 .. 1
    /\ Safe(p, "data") \/ ep0_halted[p] \/ PendingTrbs(p) \cap {"data", "packet"} = {}

MemInv == MemTypes /\ PendingInv /\ SlotsInv /\ EndsInv /\ DataInv

(* what the controller can fetch from a ring in order are the TRBs that are left *)
LEMMA Reached ==
  ASSUME NEW ring, NEW link \in Nat \ {0}, NEW deq, NEW enq,
         RingOK(ring, link, enq), Behind(link, deq, enq),
         NEW k \in 0 .. link - 1, Reachable(ring, link, deq, k + 1)
  PROVE  /\ Ahead(link, deq, k).at \in 0 .. link - 1
         /\ Back(link, enq, Ahead(link, deq, k).at) <= Left(link, deq, enq)
         /\ Left(link, deq, enq) > 0
<1> DEFINE n == Left(link, deq, enq)
<1>1. n \in 0 .. link
  BY LeftBounds
<1>2. Ahead(link, deq, n) = enq
  BY DEF RingOK, Behind, Left, Ahead, Place
<1>3. enq.at \in 0 .. link - 1 /\ enq.cycle \in 0 .. 1 /\ ring[enq.at].cycle # enq.cycle
  BY DEF RingOK
<1> HIDE DEF n
<1>4. k < n
  <2> SUFFICES ASSUME n <= k PROVE FALSE
    BY <1>1
  <2>1. n \in 0 .. (k + 1) - 1
    BY <1>1
  <2> QED
    BY <1>2, <1>3, <2>1 DEF Reachable
<1>5. Ahead(link, deq, k).at = IF deq.at + k < link THEN deq.at + k ELSE deq.at + k - link
  BY DEF Ahead, Place
<1>6. /\ Ahead(link, deq, 0).at = (IF deq.at < link THEN deq.at ELSE 0)
      /\ Ahead(link, deq, 0).cycle = (IF deq.at < link THEN deq.cycle ELSE 1 - deq.cycle)
      /\ deq.at \in 0 .. link /\ deq.cycle \in 0 .. 1
  BY NextTrb DEF Behind
<1>7. Ahead(link, deq, k).at \in 0 .. link - 1 /\ Back(link, enq, Ahead(link, deq, k).at) <= n
  BY <1>1, <1>3, <1>4, <1>5, <1>6 DEF Left, Back, Behind, n
<1> QED
  BY <1>1, <1>4, <1>7 DEF n

(* where a place further on is *)
LEMMA AheadIs ==
  ASSUME NEW link \in Nat, NEW x, x.at \in Nat, NEW j \in Nat
  PROVE  /\ Ahead(link, x, j).at = IF x.at + j < link THEN x.at + j ELSE x.at + j - link
         /\ Ahead(link, x, j).cycle = IF x.at + j < link THEN x.cycle ELSE 1 - x.cycle
BY DEF Ahead, Place

(* once a TRB was fetched, there is nothing new to fetch *)
LEMMA FetchedLess ==
  ASSUME NEW ring, NEW link \in Nat \ {0}, NEW h, h.at \in 0 .. link, h.cycle \in 0 .. 1, Owned(ring, link, h),
         NEW k \in 0 .. link - 1, Reachable(ring, link, Consumed(link, h), k + 1)
  PROVE  /\ k + 1 \in 0 .. link - 1 /\ Reachable(ring, link, h, k + 2)
         /\ Ahead(link, h, k + 1).at = Ahead(link, Consumed(link, h), k).at
<1> DEFINE e == Consumed(link, h)
           d == Ahead(link, h, 0)
<1>1. /\ d.at = (IF h.at < link THEN h.at ELSE 0)
      /\ d.cycle = (IF h.at < link THEN h.cycle ELSE 1 - h.cycle)
  BY NextTrb
<1>2. e.at = d.at + 1 /\ e.cycle = d.cycle
  BY DEF Consumed, Place
<1>3. /\ h.at = link => ring[link].cycle = h.cycle
      /\ ring[d.at].cycle = d.cycle
  BY DEF Owned
<1>4. /\ \A j \in 0 .. k : ring[Ahead(link, e, j).at].cycle = Ahead(link, e, j).cycle
      /\ e.at + (k + 1) >= link => ring[link].cycle = e.cycle
  <2>1. \A j \in 0 .. (k + 1) - 1 : ring[Ahead(link, e, j).at].cycle = Ahead(link, e, j).cycle
    BY DEF Reachable
  <2>2. (k + 1) - 1 = k
    OBVIOUS
  <2>3. e.at + (k + 1) >= link => ring[link].cycle = e.cycle
    BY DEF Reachable
  <2> QED
    BY <2>1, <2>2, <2>3
<1> HIDE DEF e, d
<1>5. /\ \A j \in Nat : /\ Ahead(link, e, j).at = IF e.at + j < link THEN e.at + j ELSE e.at + j - link
                       /\ Ahead(link, e, j).cycle = IF e.at + j < link THEN e.cycle ELSE 1 - e.cycle
      /\ \A j \in Nat : /\ Ahead(link, h, j).at = IF h.at + j < link THEN h.at + j ELSE h.at + j - link
                       /\ Ahead(link, h, j).cycle = IF h.at + j < link THEN h.cycle ELSE 1 - h.cycle
      /\ e.at \in Nat /\ h.at \in Nat
  <2>1. e.at \in Nat /\ h.at \in Nat /\ link \in Nat
    BY <1>1, <1>2
  <2> QED
    BY <2>1, AheadIs
<1>6. k + 1 < link
  <2> SUFFICES ASSUME k = link - 1 PROVE FALSE
    OBVIOUS
  <2>1. Ahead(link, e, k).at = d.at /\ Ahead(link, e, k).cycle = 1 - d.cycle
    BY <1>1, <1>2, <1>5
  <2>2. ring[Ahead(link, e, k).at].cycle = Ahead(link, e, k).cycle
    BY <1>4
  <2> QED
    BY <1>1, <1>3, <2>1, <2>2
<1>7. ASSUME NEW j \in 0 .. k PROVE Ahead(link, h, j + 1).at = Ahead(link, e, j).at /\ Ahead(link, h, j + 1).cycle = Ahead(link, e, j).cycle
  BY <1>1, <1>2, <1>5, <1>6
<1>8. ASSUME NEW j \in 0 .. (k + 2) - 1 PROVE ring[Ahead(link, h, j).at].cycle = Ahead(link, h, j).cycle
  <2>1. CASE j = 0
    BY <1>3, <2>1 DEF d
  <2>2. CASE j # 0
    <3>1. j - 1 \in 0 .. k /\ (j - 1) + 1 = j
      BY <2>2
    <3> QED
      BY <1>4, <1>7, <3>1
  <2> QED
    BY <2>1, <2>2
<1>9. h.at + (k + 2) >= link => ring[link].cycle = h.cycle
  BY <1>1, <1>2, <1>3, <1>4
<1>10. Reachable(ring, link, h, k + 2)
  BY <1>8, <1>9 DEF Reachable
<1> QED
  BY <1>6, <1>7, <1>10 DEF e

-----------------------------------------------------------------------------
(* A step of the driver changes the memory of the port in hand: the objects F may be *)
(* freed, the objects H are held or kept.                                            *)
Changed(F, H) ==
  /\ MemTypes'
  /\ \A q \in XPorts, o \in Objects :
       /\ q # port \/ o \notin F \cup H => mem'[q][o] = mem[q][o]
       /\ q = port /\ o \in H => mem'[q][o] \in {"held", "kept"}

(* what is not freed stays safe *)
LEMMA StaysSafe ==
  ASSUME NEW F, NEW H, Changed(F, H), NEW p \in XPorts, NEW o \in Objects, Safe(p, o), p # port \/ o \notin F \/ o \in H
  PROVE  Safe(p, o)'
BY DEF Changed, Safe

(* nothing is done to the memory *)
LEMMA NotMarked ==
  ASSUME MemTypes, UNCHANGED mem
  PROVE  Changed({}, {})
BY DEF Changed, MemTypes

(* Mark(S, "free") frees these objects of the port in hand and no others *)
LEMMA MarkedFree ==
  ASSUME MemTypes, port \in XPorts, NEW S, mem' = Mark(S, "free")
  PROVE  Changed(S, {})
<1>1. MemTypes' /\ \A q \in XPorts, o \in Objects : mem'[q][o] = IF q = port /\ o \in S THEN "free" ELSE mem[q][o]
  BY DEF MemTypes, Mark
<1> QED
  BY <1>1 DEF Changed

(* Mark with anything else frees none *)
LEMMA MarkedKept ==
  ASSUME MemTypes, port \in XPorts, NEW S, NEW v \in {"held", "kept"}, mem' = Mark(S, v)
  PROVE  Changed({}, S)
<1>1. MemTypes' /\ \A q \in XPorts, o \in Objects : mem'[q][o] = IF q = port /\ o \in S THEN v ELSE mem[q][o]
  BY DEF MemTypes, Mark
<1> QED
  BY <1>1 DEF Changed

(* where the driver goes on: with the same port and slot, with a slot for the port, with *)
(* another port, or with none                                                            *)
GoesOn ==
  \/ port' = None
  \/ port' \notin attempted
  \/ port' = port /\ (slot = None \/ (slot' = slot /\ step' # "identify"))

(* the memory of commands that were not fetched stays safe when none is submitted *)
LEMMA PendingKept ==
  ASSUME IInv, MemInv, UNCHANGED <<queues, command_deq, hslots>>, attempted \subseteq attempted', GoesOn,
         NEW F, NEW H, Changed(F, H), CmdLeft > 0 => F \subseteq {"data"} /\ dcbaa' = dcbaa
  PROVE  PendingInv'
<1> SUFFICES ASSUME NEW i \in 0 .. CmdLink - 1, CmdBack(i)' <= CmdLeft', commands'[i].what.slot # None,
                    NEW g, g = commands'[i].what
             PROVE  GoodCommand(g)'
  BY DEF PendingInv, GoodCommand
<1>1. UNCHANGED <<commands, command_enq, CmdLeft>> /\ CmdBack(i)' = CmdBack(i)
  BY DEF queues, CmdLeft, CmdBack
<1>2. CmdLink \in Nat \ {0} /\ command_enq.at \in 0 .. CmdLink - 1 /\ CmdLeft \in 0 .. CmdLink /\ None \notin XPorts /\ attempted \subseteq XPorts
  BY Numbers, LeftBounds DEF IInv, CommandInv, RingInv, RingOK, CmdLeft, Types, Sizes
<1>3. CmdBack(i) \in 1 .. CmdLink
  BY <1>2, Backs DEF CmdBack
<1>4. F \subseteq {"data"} /\ dcbaa' = dcbaa
  BY <1>1, <1>2, <1>3
<1>5. PICK c : c = g /\ c = commands[i].what
  BY <1>1
<1>6. GoodCommand(c) /\ c.slot # None /\ commands'[i].what = c
  BY <1>1, <1>5 DEF MemInv, PendingInv
<1>7. \A o \in Uses(c) : Safe(c.port, o)'
  <2> SUFFICES ASSUME NEW o \in Uses(c) PROVE Safe(c.port, o)'
    OBVIOUS
  <2>1. o \in Objects /\ o # "data"
    BY DEF Uses, Objects
  <2>2. c.port \in XPorts /\ Safe(c.port, o)
    BY <1>2, <1>6 DEF GoodCommand
  <2> QED
    BY <1>4, <2>1, <2>2, StaysSafe
<1>8. c.port \in attempted' /\ (c.port = port' => c.slot = slot')
  BY <1>2, <1>6 DEF GoodCommand, GoesOn
<1>9. GoodCommand(c)'
  BY <1>4, <1>6, <1>7, <1>8 DEF GoodCommand
<1> QED
  BY <1>5, <1>9

(* the memory of commands that were not fetched when one is submitted *)
LEMMA PendingMore ==
  ASSUME IInv, MemInv, NEW c, submit_command(c), CmdLeft < CmdLink - 1,
         UNCHANGED <<command_deq, hslots, attempted, port, slot>>,
         c.slot # None => GoodCommand(c)',
         NEW F, NEW H, Changed(F, H), CmdLeft > 0 => F \subseteq {"data"} /\ dcbaa' = dcbaa
  PROVE  PendingInv'
<1> SUFFICES ASSUME NEW i \in 0 .. CmdLink - 1, CmdBack(i)' <= CmdLeft', commands'[i].what.slot # None,
                    NEW g, g = commands'[i].what
             PROVE  GoodCommand(g)'
  BY DEF PendingInv, GoodCommand
<1>1. /\ CmdLeft \in Nat /\ CmdLeft' = CmdLeft + 1
      /\ commands'[i].what = IF i = Last' THEN c ELSE commands[i].what
      /\ CmdBack(i) \in 1 .. CmdLink
      /\ CmdBack(i)' = IF i = Last' THEN 1 ELSE CmdBack(i) + 1
  BY OneMore DEF IInv, CommandInv
<1>2. CASE i = Last'
  <2>1. g = c
    BY <1>1, <1>2
  <2> QED
    BY <2>1
<1>3. CASE i # Last'
  <2>1. PICK d : d = g /\ d = commands[i].what
    BY <1>1, <1>3
  <2>2. CmdBack(i) <= CmdLeft /\ CmdLeft > 0 /\ d.slot # None
    BY <1>1, <1>3, <2>1, Numbers DEF IInv, CommandInv
  <2>3. GoodCommand(d) /\ F \subseteq {"data"} /\ dcbaa' = dcbaa
    BY <2>1, <2>2 DEF MemInv, PendingInv
  <2>4. \A o \in Uses(d) : Safe(d.port, o)'
    <3> SUFFICES ASSUME NEW o \in Uses(d) PROVE Safe(d.port, o)'
      OBVIOUS
    <3>1. o \in Objects /\ o # "data"
      BY DEF Uses, Objects
    <3>2. d.port \in XPorts /\ Safe(d.port, o)
      BY <2>3 DEF GoodCommand, IInv, Types
    <3> QED
      BY <2>3, <3>1, <3>2, StaysSafe
  <2>5. GoodCommand(d)'
    BY <2>3, <2>4 DEF GoodCommand
  <2> QED
    BY <2>1, <2>5
<1> QED
  BY <1>2, <1>3

(* the slots of the controller keep their memory *)
LEMMA SlotsKept ==
  ASSUME IInv, MemInv, UNCHANGED hslots, attempted \subseteq attempted', GoesOn, NEW F, NEW H, Changed(F, H),
         {"out", "ring"} \cap F # {} => \A t \in Slots : hslots[t].port # port,
         "rings" \in F => \A t \in Slots : hslots[t].port = port => hslots[t].state # "configured"
  PROVE  SlotsInv'
<1> SUFFICES ASSUME NEW t \in Slots PROVE GoodSlot(t)'
  BY DEF SlotsInv
<1>1. GoodSlot(t) /\ None \notin XPorts /\ attempted \subseteq XPorts /\ Slots = XPorts
  BY DEF MemInv, SlotsInv, IInv, CommandInv, Sizes, Types, Slots
<1>2. PICK p : p = hslots[t].port
  OBVIOUS
<1>3. ASSUME hslots[t].state \in {"addressed", "configured"}
      PROVE  /\ p \in attempted /\ Safe(p, "out")' /\ Safe(p, "ring")'
             /\ hslots[t].state = "configured" => Safe(p, "rings")'
  <2>1. /\ p \in XPorts /\ p \in attempted /\ Safe(p, "out") /\ Safe(p, "ring")
        /\ hslots[t].state = "configured" => Safe(p, "rings")
    BY <1>1, <1>2, <1>3 DEF GoodSlot
  <2>2. {"out", "ring", "rings"} \subseteq Objects
    BY DEF Objects
  <2> QED
    BY <1>2, <2>1, <2>2, StaysSafe
<1>4. hslots[t].port = port' /\ port' # None => t = slot' /\ step' # "identify"
  <2> SUFFICES ASSUME hslots[t].port = port', port' # None PROVE t = slot' /\ step' # "identify"
    OBVIOUS
  <2>1. hslots[t].state \in {"off", "enabled", "addressed", "configured"}
    BY DEF IInv, Types
  <2>2. p \in attempted /\ p = port'
    BY <1>1, <1>2, <2>1 DEF GoodSlot
  <2>3. port' = port /\ t = slot
    BY <1>1, <2>2 DEF GoesOn, GoodSlot
  <2> QED
    BY <1>1, <2>2, <2>3 DEF GoesOn
<1>5. hslots'[t].port = p /\ hslots'[t].state = hslots[t].state
  BY <1>2
<1> QED
  BY <1>1, <1>2, <1>3, <1>4, <1>5 DEF GoodSlot

(* a buffer is freed when its transfer is over, or its endpoint halted *)
LEMMA DataKept ==
  ASSUME MemInv, UNCHANGED <<ep0_link, ep0, ep0_deq, ep0_halted>>, NEW F, NEW H, Changed(F, H),
         "data" \in F => ep0_halted[port] \/ PendingTrbs(port) \cap {"data", "packet"} = {}
  PROVE  DataInv'
<1> SUFFICES ASSUME NEW p \in XPorts
             PROVE  /\ ep0_deq[p].at \in 0 .. ep0_link /\ ep0_deq[p].cycle \in 0 .. 1
                    /\ Safe(p, "data")' \/ ep0_halted[p] \/ PendingTrbs(p)' \cap {"data", "packet"} = {}
  BY DEF DataInv
<1>1. PendingTrbs(p)' = PendingTrbs(p)
  BY DEF PendingTrbs
<1>2. /\ ep0_deq[p].at \in 0 .. ep0_link /\ ep0_deq[p].cycle \in 0 .. 1
      /\ Safe(p, "data") \/ ep0_halted[p] \/ PendingTrbs(p) \cap {"data", "packet"} = {}
  BY DEF MemInv, DataInv
<1>3. CASE p = port /\ "data" \in F
  BY <1>1, <1>2, <1>3
<1>4. CASE p # port \/ "data" \notin F
  <2>1. Safe(p, "data") => Safe(p, "data")'
    BY <1>4, StaysSafe DEF Objects
  <2> QED
    BY <1>1, <1>2, <2>1
<1> QED
  BY <1>3, <1>4

(* no command is under way when a slot is in hand and none is waited for, or it was answered *)
LEMMA NoneUnderWay ==
  ASSUME IInv, slot # None, pc # "command" \/ answer # None
  PROVE  CmdLeft = 0 /\ NoCommandEvents
<1>1. CASE pc # "command"
  <2>1. Bound = 0
    BY <1>1 DEF Bound
  <2>2. CommandInv /\ Room(0) /\ 0 \in Nat
    BY <2>1 DEF IInv
  <2> QED
    BY <2>2, RoomFor
<1>2. CASE answer # None
  BY <1>2 DEF IInv, CommandInv, AnswerInv
<1> QED
  BY <1>1, <1>2

(* a step of the driver that does not submit a command *)
LEMMA QuietMem ==
  ASSUME IInv, IInv', MemInv, UNCHANGED <<ep0_link, queues, events, controller>>, attempted \subseteq attempted', GoesOn,
         NEW F, NEW H, Changed(F, H), CmdLeft > 0 => F \subseteq {"data"} /\ dcbaa' = dcbaa,
         {"out", "ring"} \cap F # {} => \A t \in Slots : hslots[t].port # port,
         "rings" \in F => \A t \in Slots : hslots[t].port = port => hslots[t].state # "configured",
         pc' # "command", step' \in WithSlot \ {"setconf"} => hslots[slot'].state # "configured", DataInv',
         step' \in WithSlot \ {"identify"} => step \in WithSlot \ {"identify", "drop"} /\ port' = port /\ "out" \notin F
  PROVE  MemInv'
<1>1. UNCHANGED <<hslots, command_deq>>
  BY DEF controller
<1>2. PendingInv' /\ SlotsInv'
  BY <1>1, PendingKept, SlotsKept
<1>3. slot' # None => CmdLeft' = 0
  <2>1. Bound' = 0 \/ slot' = None
    BY DEF Bound
  <2>2. CmdLeft' = CmdLeft /\ CommandInv /\ (Room(0)' => Room(0))
    BY <1>1, CommandsKept DEF IInv
  <2>3. Bound' = 0 => Room(0)'
    <3>1. Room(Bound)'
      BY DEF IInv
    <3> QED
      BY <3>1 DEF Room
  <2>4. Room(0) => CmdLeft = 0
    BY <2>2, RoomFor
  <2> QED
    BY <2>1, <2>2, <2>3, <2>4
<1>4. step' \in WithSlot \ {"identify", "drop"} => Safe(port, "out")'
  <2> SUFFICES ASSUME step' \in WithSlot \ {"identify", "drop"} PROVE Safe(port, "out")'
    OBVIOUS
  <2>1. PICK p \in XPorts : p = port
    BY DEF IInv, Types
  <2>2. Safe(p, "out") /\ port' = p /\ "out" \notin F
    BY <2>1 DEF MemInv, EndsInv
  <2>3. Safe(p, "out")'
    BY <2>2, StaysSafe DEF Objects
  <2> QED
    BY <2>2, <2>3
<1>5. EndsInv'
  BY <1>1, <1>3, <1>4 DEF EndsInv
<1> QED
  BY <1>2, <1>5 DEF MemInv, Changed

(* a command for the slot in hand is submitted *)
LEMMA SubmitMem ==
  ASSUME IInv, MemInv, UNCHANGED <<ep0_link, ep0, events, controller, attempted, port, slot>>,
         step \in WithSlot \ {"setconf"}, step' \in DOMAIN CommandOf,
         pc # "command" \/ (answer # None /\ step # "endpoints"),
         submit_command(Command(CommandOf[step'], slot, port)),
         NEW F, NEW H, Changed(F, H), \A c : c.type = CommandOf[step'] => Uses(c) \subseteq H \cup {"out"},
         step' # "drop" => "out" \in H \/ ("out" \notin F /\ step \notin {"identify", "drop"}),
         {"out", "ring"} \cap F # {} => \A t \in Slots : hslots[t].port # port,
         "rings" \notin F,
         step' = "address" => step = "identify" /\ dcbaa'[slot] = port,
         "data" \in F => ep0_halted[port]
  PROVE  MemInv'
<1>1. slot \in Slots /\ slot # None /\ port \in XPorts /\ port \in attempted /\ None \notin XPorts /\ Slots = XPorts
  BY DEF IInv, Types, CommandInv, Sizes, Slots
<1>2. CmdLeft = 0 /\ NoCommandEvents /\ CmdLink > 1 /\ CmdLink \in Nat
  BY <1>1, NoneUnderWay, Numbers DEF IInv, CommandInv
<1>3. UNCHANGED <<hslots, command_deq, ep0_deq, ep0_halted>>
  BY DEF controller
<1>4. PICK c : c = Command(CommandOf[step'], slot, port)
  OBVIOUS
<1>5. submit_command(c) /\ c.type = CommandOf[step'] /\ c.slot = slot /\ c.port = port
  BY <1>4 DEF Command
<1>6. hslots[slot].state # "configured"
  BY DEF MemInv, EndsInv
<1>a. step' # "drop" => Safe(c.port, "out")'
  <2>1. CASE "out" \in H
    BY <1>1, <1>5, <2>1 DEF Changed, Safe, Objects
  <2>2. CASE "out" \notin F /\ step \notin {"identify", "drop"}
    <3>1. Safe(c.port, "out") /\ c.port \in XPorts
      BY <1>1, <1>5, <2>2 DEF MemInv, EndsInv
    <3> QED
      BY <2>2, <3>1, StaysSafe DEF Objects
  <2> QED
    BY <2>1, <2>2
<1>7. GoodCommand(c)'
  <2>1. \A o \in Uses(c) : Safe(c.port, o)'
    <3> SUFFICES ASSUME NEW o \in Uses(c) PROVE Safe(c.port, o)'
      OBVIOUS
    <3>1. o \in Objects /\ o \in H \cup {"out"} /\ step' # "drop"
      BY <1>5 DEF Uses, Objects, CommandOf
    <3> QED
      BY <1>1, <1>5, <1>a, <3>1 DEF Changed, Safe
  <2>2. c.type = "address" => dcbaa'[c.slot] = c.port /\ \A t \in Slots : hslots[t].port # c.port
    <3> SUFFICES ASSUME c.type = "address" PROVE dcbaa'[c.slot] = c.port /\ \A t \in Slots : hslots[t].port # c.port
      OBVIOUS
    <3>1. step' = "address"
      BY <1>5 DEF CommandOf
    <3> QED
      BY <1>1, <1>5, <3>1 DEF MemInv, SlotsInv, GoodSlot
  <2>3. hslots[c.slot].state = "addressed" => hslots[c.slot].port = c.port
    BY <1>1, <1>5 DEF IInv, SlotInv
  <2> QED
    BY <1>1, <1>3, <1>5, <2>1, <2>2, <2>3 DEF GoodCommand
<1>8. GoesOn
  BY DEF GoesOn, CommandOf
<1>9. PendingInv'
  BY <1>2, <1>3, <1>5, <1>7, PendingMore
<1>10. SlotsInv'
  BY <1>3, <1>8, SlotsKept
<1>11. DataInv'
  BY <1>3, DataKept
<1>12. commands'[Last'].what = c /\ answer' = None
  <2>1. Sizes /\ RingInv /\ CmdLeft < CmdLink - 1
    BY <1>2 DEF IInv, CommandInv
  <2>2. Last' \in 0 .. CmdLink - 1
    BY <1>3, <1>5, <2>1, OneMore DEF RingInv, RingOK
  <2> QED
    BY <1>3, <1>5, <2>1, <2>2, OneMore DEF submit_command
<1>13. EndsInv'
  <2>1. \A x : ~Ends(x)'
    BY <1>2, <1>12 DEF Ends, IsCommand, NoCommandEvents
  <2>2. step' # "drop" => Safe(port, "out")'
    BY <1>5, <1>a DEF Safe
  <2> QED
    BY <1>3, <1>5, <1>6, <1>12, <2>1, <2>2 DEF EndsInv
<1> QED
  BY <1>9, <1>10, <1>11, <1>13 DEF MemInv, Changed

(* a command without a slot is submitted: controller_init, enable_device_slot *)
LEMMA SubmitNone ==
  ASSUME IInv, IInv', MemInv, NEW c, c.slot = None, submit_command(c), CmdLeft < CmdLink - 1,
         UNCHANGED <<ep0_link, ep0, events, controller, attempted, port, slot, step, mem, dcbaa>>, step \notin WithSlot
  PROVE  MemInv'
<1>1. UNCHANGED <<hslots, command_deq, ep0_deq, ep0_halted>> /\ slot = None
  BY DEF controller, IInv, Types
<1>2. Changed({}, {}) /\ GoesOn
  BY <1>1, NotMarked DEF MemInv, GoesOn
<1>3. PendingInv' /\ SlotsInv' /\ DataInv'
  BY <1>1, <1>2, PendingMore, SlotsKept, DataKept
<1>4. EndsInv'
  BY <1>1 DEF EndsInv, WithSlot, Identifying
<1> QED
  BY <1>2, <1>3, <1>4 DEF MemInv, Changed

(* a step that does nothing to the memory, the rings or dcbaa *)
LEMMA SameMem ==
  ASSUME IInv, IInv', MemInv, UNCHANGED <<ep0_link, mem, dcbaa, ep0, queues, events, controller>>,
         attempted \subseteq attempted', GoesOn, pc' # "command",
         step' \in WithSlot \ {"setconf"} => hslots[slot'].state # "configured",
         step' \in WithSlot \ {"identify"} => step \in WithSlot \ {"identify", "drop"} /\ port' = port
  PROVE  MemInv'
<1>1. Changed({}, {})
  BY NotMarked DEF MemInv
<1>2. DataInv'
  BY <1>1, DataKept DEF controller
<1> QED
  BY <1>1, <1>2, QuietMem

(* the start of the controller *)
LEMMA StartMem ==
  ASSUME IInv, IInv', MemInv,
         xhci_take_ownership \/ xhci_reset \/ allocate_scracthpad \/ enumrate_ports \/ controller_init \/ no_op_done
  PROVE  MemInv'
<1> USE DEF WithSlot, Identifying, PacketSteps, AfterPacket
<1>1. Types
  BY DEF IInv
<1>2. ASSUME UNCHANGED queues, Keep, pc' = "ready", step' \in WithoutPort \ {"handoff"}, step \in WithoutPort PROVE MemInv'
  <2>1. GoesOn
    BY <1>2 DEF GoesOn, WithoutPort, IInv, Types
  <2> QED
    BY <1>2, <2>1, SameMem DEF Keep, WithoutPort, endpoint0
<1>3. CASE controller_init /\ submit_command(Command("no-op", None, None)) /\ UNCHANGED <<step, port, slot>>
  <2>1. step \notin WithSlot /\ UNCHANGED <<ep0_link, ep0, events, controller, attempted, mem, dcbaa>> /\ Bound = 0
    BY <1>1, <1>3 DEF controller_init, At, Keep, endpoint0, Bound, WithoutPort, Types
  <2>2. CmdLeft < CmdLink - 1
    <3>1. CmdLink \in Nat /\ CmdLink > 1
      BY Numbers DEF IInv, CommandInv
    <3>2. Room(0) /\ CommandInv /\ 0 \in Nat
      BY <2>1 DEF IInv
    <3> QED
      BY <3>1, <3>2, RoomFor
  <2>3. Command("no-op", None, None).slot = None
    BY DEF Command
  <2> QED
    BY <1>3, <2>1, <2>2, <2>3, SubmitNone
<1>4. CASE xhci_take_ownership \/ xhci_reset \/ allocate_scracthpad \/ enumrate_ports \/ no_op_done
  BY <1>2, <1>4 DEF xhci_take_ownership, xhci_reset, allocate_scracthpad, enumrate_ports, no_op_done, At, Answered, TimedOut,
     Go, Leave, WithoutPort
<1>5. CASE controller_init /\ Go("off") /\ UNCHANGED queues
  BY <1>2, <1>5 DEF controller_init, At, Go, WithoutPort
<1> QED
  BY <1>3, <1>4, <1>5 DEF controller_init

(* a port is tried, up to a slot for its device *)
LEMMA PortMem ==
  ASSUME IInv, IInv', MemInv, scan_ports \/ reset_port \/ enable_device_slot \/ enable_slot_done
  PROVE  MemInv'
<1> USE DEF WithSlot, Identifying, PacketSteps, AfterPacket
<1>1. Types /\ Sizes
  BY DEF IInv, CommandInv
<1>2. CASE scan_ports
  <2>1. GoesOn /\ pc' # "command" /\ attempted \subseteq attempted' /\ step' = "reset"
    BY <1>2 DEF scan_ports, GoesOn, At
  <2> QED
    BY <1>2, <2>1, SameMem DEF scan_ports, endpoint0
<1>3. ASSUME step \in {"reset", "enable"}, step' \in {"enable", "scan"}, pc' # "command", port' = None \/ UNCHANGED <<port, slot>>,
             UNCHANGED <<ep0_link, mem, dcbaa, attempted, queues, endpoint0, events, controller>>
      PROVE  MemInv'
  <2>1. GoesOn
    BY <1>3 DEF GoesOn
  <2> QED
    BY <1>3, <2>1, SameMem DEF endpoint0
<1>4. CASE reset_port
  BY <1>3, <1>4 DEF reset_port, At, Go, Leave
<1>5. CASE enable_device_slot
  <2>1. CASE Leave /\ UNCHANGED queues
    BY <1>3, <1>5, <2>1 DEF enable_device_slot, At, Leave
  <2>2. CASE submit_command(Command("enable", None, port)) /\ UNCHANGED <<step, port, slot>>
    <3>1. step \notin WithSlot /\ UNCHANGED <<ep0_link, ep0, events, controller, attempted, mem, dcbaa>>
      BY <1>5 DEF enable_device_slot, At, endpoint0
    <3>2. slot = None /\ port # None /\ port \in attempted /\ pc = "ready"
      BY <1>1, <1>5 DEF enable_device_slot, At, Types, WithPort, Sizes
    <3>3. Bound = Cardinality(attempted) - 1
      BY <3>2 DEF Bound
    <3>4. CmdLeft < CmdLink - 1
      <4>1. Cardinality(attempted) \in Nat /\ Cardinality(attempted) < CmdLink /\ CmdLink \in Nat \ {0}
        BY <1>1, Tried, Numbers
      <4>2. CmdLeft <= Bound /\ CmdLeft \in 0 .. CmdLink
        BY <4>1, LeftBounds DEF IInv, Room, CommandInv, RingInv, CmdLeft
      <4> QED
        BY <3>3, <4>1, <4>2
    <3>5. Command("enable", None, port).slot = None
      BY DEF Command
    <3> QED
      BY <2>2, <3>1, <3>4, <3>5, SubmitNone
  <2> QED
    BY <1>5, <2>1, <2>2 DEF enable_device_slot
<1>6. CASE enable_slot_done
  <2>1. CASE Leave
    BY <1>3, <1>6, <2>1 DEF enable_slot_done, Answered, TimedOut, Leave
  <2>2. CASE Answered("enable", "ok") /\ step' = "identify" /\ pc' = "ready" /\ slot' = answer.slot /\ UNCHANGED port
    <3>1. slot = None /\ hslots[slot'].state = "enabled"
      BY <1>1, <2>2 DEF Answered, Types, WithPort, IInv, SlotInv
    <3>2. GoesOn
      BY <2>2, <3>1 DEF GoesOn
    <3> QED
      BY <1>6, <2>2, <3>1, <3>2, SameMem DEF enable_slot_done, endpoint0
  <2> QED
    BY <1>6, <2>1, <2>2 DEF enable_slot_done
<1> QED
  BY <1>2, <1>4, <1>5, <1>6

(* the driver gives the port up *)
LEMMA LeaveMem ==
  ASSUME IInv, IInv', MemInv, Leave, NEW F, NEW H, Changed(F, H),
         UNCHANGED <<ep0_link, ep0, attempted, queues, events, controller>>,
         CmdLeft > 0 => F \subseteq {"data"} /\ dcbaa' = dcbaa,
         {"out", "ring"} \cap F # {} => \A t \in Slots : hslots[t].port # port,
         "rings" \in F => \A t \in Slots : hslots[t].port = port => hslots[t].state # "configured",
         "data" \in F => ep0_halted[port] \/ PendingTrbs(port) \cap {"data", "packet"} = {}
  PROVE  MemInv'
<1>1. DataInv' /\ GoesOn
  BY DataKept DEF controller, GoesOn, Leave
<1>2. pc' # "command" /\ step' \notin WithSlot
  BY DEF Leave, WithSlot, Identifying, PacketSteps, AfterPacket
<1> QED
  BY <1>1, <1>2, QuietMem

(* the driver goes on with the device *)
LEMMA GoMem ==
  ASSUME IInv, IInv', MemInv, NEW s, Go(s), s # "identify", step \in WithSlot \ {"identify", "drop", "setconf"},
         NEW F, NEW H, Changed(F, H), F \cap {"out", "ring"} = {},
         UNCHANGED <<ep0_link, ep0, attempted, queues, events, controller>>,
         pc = "command" => answer # None /\ (step = "endpoints" => s = "setconf"),
         "rings" \in F => \A t \in Slots : hslots[t].port = port => hslots[t].state # "configured",
         "data" \in F => ep0_halted[port] \/ PendingTrbs(port) \cap {"data", "packet"} = {}
  PROVE  MemInv'
<1>1. DataInv' /\ GoesOn /\ pc' # "command" /\ step' # "identify" /\ port' = port
  BY DataKept DEF controller, GoesOn, Go
<1>2. slot # None
  BY DEF IInv, Types, CommandInv, Sizes, Slots
<1>3. CmdLeft = 0
  BY <1>2, NoneUnderWay
<1>4. step' \in WithSlot \ {"setconf"} => hslots[slot'].state # "configured"
  BY DEF Go, MemInv, EndsInv
<1> QED
  BY <1>1, <1>3, <1>4, QuietMem

(* where the driver has a slot in hand, no other is of its port *)
LEMMA OwnSlot ==
  ASSUME IInv, MemInv, step \in WithSlot
  PROVE  /\ slot \in Slots /\ slot # None /\ port \in XPorts /\ port # None
         /\ \A t \in Slots : hslots[t].port = port => t = slot /\ step # "identify"
BY DEF IInv, Types, CommandInv, Sizes, Slots, MemInv, SlotsInv, GoodSlot

(* identify_device up to its first transfer *)
LEMMA IdentifyMem ==
  ASSUME IInv, IInv', MemInv,
         identify_gives_up \/ address_device \/ address_timeout \/ address_failed \/ no_descriptor_buffer \/ disable_slot_done
  PROVE  MemInv'
<1> USE DEF WithSlot, Identifying, PacketSteps, AfterPacket
<1>1. step \in WithSlot \ {"setconf"}
  BY DEF identify_gives_up, address_device, address_timeout, address_failed, no_descriptor_buffer, disable_slot_done,
     At, Answered, TimedOut
<1>2. /\ slot \in Slots /\ slot # None /\ port \in XPorts /\ port # None
      /\ \A t \in Slots : hslots[t].port = port => t = slot /\ step # "identify"
  BY <1>1, OwnSlot
<1>3. MemTypes /\ dcbaa \in [Slots -> XPorts \cup {None}]
  BY DEF MemInv, IInv, Types
<1>4. \A c : /\ c.type = "disable" => Uses(c) = {}
             /\ c.type = "address" => Uses(c) = {"in", "out", "ring"}
  BY DEF Uses
<1>5. /\ {"address", "drop", "release"} \subseteq DOMAIN CommandOf /\ CommandOf["address"] = "address"
      /\ CommandOf["drop"] = "disable" /\ CommandOf["release"] = "disable"
  BY DEF CommandOf
<1>6. CASE identify_gives_up
  <2>1. /\ step = "identify" /\ pc = "ready" /\ step' = "drop" /\ submit_command(Command("disable", slot, port))
        /\ UNCHANGED <<ep0_link, ep0, events, controller, attempted, port, slot>>
    BY <1>6 DEF identify_gives_up, At, disable_device_slot, endpoint0
  <2>2. \E F \in {{}, {"in"}, {"in", "out"}} : \E H : Changed(F, H)
    <3>1. CASE UNCHANGED mem
      BY <1>3, <3>1, NotMarked
    <3>2. CASE mem' = Mark({"out"}, "kept")
      BY <1>2, <1>3, <3>2, MarkedKept
    <3>3. CASE mem' = [mem EXCEPT ![port].in = "free", ![port].out = "kept"]
      <4>1. Changed({"in"}, {"out"})
        BY <1>2, <1>3, <3>3 DEF Changed, MemTypes, Objects
      <4> QED
        BY <4>1
    <3>4. CASE mem' = Mark({"in"}, "free") \/ mem' = Mark({"in", "out"}, "free")
      BY <1>2, <1>3, <3>4, MarkedFree
    <3> QED
      BY <1>6, <3>1, <3>2, <3>3, <3>4 DEF identify_gives_up
  <2>3. PICK F \in {{}, {"in"}, {"in", "out"}} : \E H : Changed(F, H)
    BY <2>2
  <2>4. PICK H : Changed(F, H)
    BY <2>3
  <2> QED
    BY <1>1, <1>2, <1>4, <1>5, <2>1, <2>3, <2>4, SubmitMem
<1>7. CASE address_device
  <2>1. /\ step = "identify" /\ pc = "ready" /\ step' = "address" /\ submit_command(Command("address", slot, port))
        /\ UNCHANGED <<ep0_link, ep0, events, controller, attempted, port, slot>>
    BY <1>7 DEF address_device, At, endpoint0
  <2>2. Changed({}, {"in", "out", "ring"}) /\ dcbaa'[slot] = port
    BY <1>2, <1>3, <1>7, MarkedKept DEF address_device
  <2> QED
    BY <1>1, <1>2, <1>4, <1>5, <2>1, <2>2, SubmitMem
<1>8. CASE address_timeout
  <2>1. Changed({}, {"in", "out", "ring"})
    BY <1>2, <1>3, <1>8, MarkedKept DEF address_timeout
  <2> QED
    BY <1>8, <2>1, LeaveMem DEF address_timeout, endpoint0
<1>9. CASE address_failed \/ no_descriptor_buffer
  <2>1. /\ step = "address" /\ answer # None /\ step' = "release" /\ submit_command(Command("disable", slot, port))
        /\ UNCHANGED <<ep0_link, ep0, events, controller, attempted, port, slot>>
    BY <1>9 DEF address_failed, no_descriptor_buffer, Answered, disable_device_slot, endpoint0
  <2>2. Changed({"in"}, {})
    BY <1>2, <1>3, <1>9, MarkedFree DEF address_failed, no_descriptor_buffer
  <2> QED
    BY <1>1, <1>2, <1>4, <1>5, <2>1, <2>2, SubmitMem
<1>10. CASE disable_slot_done
  <2>1. Leave /\ UNCHANGED <<ep0_link, ep0, attempted, queues, events, controller>> /\ pc = "command"
    BY <1>10 DEF disable_slot_done, endpoint0
  <2>2. CASE step = "release" /\ answer # None /\ answer.code = "ok"
    <3>1. mem' = Mark({"out", "ring"}, "free")
      BY <1>10, <2>2 DEF disable_slot_done
    <3>2. Changed({"out", "ring"}, {})
      BY <1>2, <1>3, <3>1, MarkedFree
    <3>3. hslots[slot].port = None
      BY <1>2, <2>1, <2>2 DEF MemInv, EndsInv, Ends, SlotsInv, GoodSlot
    <3>4. CmdLeft = 0
      BY <1>2, <2>2, NoneUnderWay
    <3>5. \A t \in Slots : hslots[t].port # port
      BY <1>2, <3>3
    <3> QED
      BY <2>1, <3>2, <3>4, <3>5, LeaveMem
  <2>3. CASE step = "release" /\ ~(answer # None /\ answer.code = "ok")
    <3>1. mem' = Mark({"out", "ring"}, "kept") /\ dcbaa' = dcbaa
      BY <1>10, <2>3 DEF disable_slot_done
    <3>2. Changed({}, {"out", "ring"})
      BY <1>2, <1>3, <3>1, MarkedKept
    <3> QED
      BY <2>1, <3>1, <3>2, LeaveMem
  <2>4. CASE step # "release"
    <3>1. UNCHANGED <<mem, dcbaa>>
      BY <1>10, <2>4 DEF disable_slot_done
    <3>2. Changed({}, {})
      BY <1>3, <3>1, NotMarked
    <3> QED
      BY <2>1, <3>1, <3>2, LeaveMem
  <2> QED
    BY <2>2, <2>3, <2>4
<1> QED
  BY <1>6, <1>7, <1>8, <1>9, <1>10

(* the rest of the enumeration: contexts and endpoints *)
LEMMA ConfigureMem ==
  ASSUME IInv, IInv', MemInv,
         evaluate_context \/ evaluate_done \/ packet_refused \/ configure_endpoints \/ configure_done
  PROVE  MemInv'
<1> USE DEF WithSlot, Identifying, PacketSteps, AfterPacket
<1>1. step \in WithSlot /\ step \notin {"identify", "drop"}
  BY DEF evaluate_context, evaluate_done, packet_refused, configure_endpoints, configure_done, At, Answered, TimedOut
<1>2. /\ slot \in Slots /\ slot # None /\ port \in XPorts /\ port # None
      /\ \A t \in Slots : hslots[t].port = port => t = slot /\ step # "identify"
  BY <1>1, OwnSlot
<1>3. MemTypes
  BY DEF MemInv
<1>4. \A c : /\ c.type = "evaluate" => Uses(c) = {"in", "out"}
             /\ c.type = "configure" => Uses(c) = {"in", "out", "rings"}
  BY DEF Uses
<1>5. /\ {"evaluate", "endpoints"} \subseteq DOMAIN CommandOf
      /\ CommandOf["evaluate"] = "evaluate" /\ CommandOf["endpoints"] = "configure"
  BY DEF CommandOf
<1>6. /\ UNCHANGED mem => Changed({}, {})
      /\ \A S : mem' = Mark(S, "free") => Changed(S, {})
      /\ \A S : mem' = Mark(S, "held") \/ mem' = Mark(S, "kept") => Changed({}, S)
  BY <1>2, <1>3, NotMarked, MarkedFree, MarkedKept
<1>7. CASE evaluate_context
  <2>1. step = "evaluate" /\ pc = "ready" /\ UNCHANGED <<ep0_link, ep0, attempted, dcbaa, events, controller>>
    BY <1>7 DEF evaluate_context, At, endpoint0
  <2>2. CASE Go("descriptor") /\ UNCHANGED <<mem, queues>>
    BY <1>6, <2>1, <2>2, GoMem
  <2>3. CASE Leave /\ UNCHANGED <<mem, queues>>
    BY <1>6, <2>1, <2>3, LeaveMem
  <2>4. CASE /\ mem' = Mark({"in"}, "held")
             /\ submit_command(Command("evaluate", slot, port)) /\ UNCHANGED <<step, port, slot>>
    BY <1>4, <1>5, <1>6, <2>1, <2>4, SubmitMem
  <2> QED
    BY <1>7, <2>2, <2>3, <2>4 DEF evaluate_context
<1>8. CASE evaluate_done
  <2>1. step = "evaluate" /\ pc = "command" /\ UNCHANGED <<ep0_link, ep0, attempted, dcbaa, queues, events, controller>>
    BY <1>8 DEF evaluate_done, Answered, TimedOut, endpoint0
  <2>2. CASE TimedOut("evaluate") /\ mem' = Mark({"in"}, "kept") /\ Leave
    BY <1>6, <2>1, <2>2, LeaveMem
  <2>3. answer # None => CmdLeft = 0
    BY <1>2, NoneUnderWay
  <2>4. CASE Answered("evaluate", "error") /\ mem' = Mark({"in"}, "free") /\ Leave
    BY <1>6, <2>1, <2>3, <2>4, LeaveMem DEF Answered
  <2>5. CASE Answered("evaluate", "ok") /\ mem' = Mark({"in"}, "free") /\ Go("descriptor")
    BY <1>6, <2>1, <2>5, GoMem DEF Answered
  <2> QED
    BY <1>8, <2>2, <2>4, <2>5 DEF evaluate_done
<1>9. CASE packet_refused
  BY <1>6, <1>9, LeaveMem DEF packet_refused, endpoint0
<1>10. CASE configure_endpoints
  <2>1. step = "endpoints" /\ pc = "ready" /\ UNCHANGED <<ep0_link, ep0, attempted, dcbaa, events, controller>>
    BY <1>10 DEF configure_endpoints, At, endpoint0
  <2>2. CASE (Leave \/ Go("setconf")) /\ mem' \in {mem, Mark({"in"}, "free"), Mark({"in", "rings"}, "free")} /\ UNCHANGED queues
    <3>1. PICK F \in {{}, {"in"}, {"in", "rings"}} : Changed(F, {})
      BY <1>6, <2>2
    <3>2. CmdLeft = 0
      BY <1>2, <2>1, NoneUnderWay
    <3>3. \A t \in Slots : hslots[t].port = port => hslots[t].state # "configured"
      BY <1>2, <2>1 DEF MemInv, EndsInv
    <3>4. CASE Leave
      BY <2>1, <2>2, <3>1, <3>2, <3>3, <3>4, LeaveMem
    <3>5. CASE Go("setconf")
      BY <2>1, <2>2, <3>1, <3>3, <3>5, GoMem
    <3> QED
      BY <2>2, <3>4, <3>5
  <2>3. CASE /\ mem' = Mark({"in", "rings"}, "held")
             /\ submit_command(Command("configure", slot, port)) /\ UNCHANGED <<step, port, slot>>
    BY <1>4, <1>5, <1>6, <2>1, <2>3, SubmitMem
  <2> QED
    BY <1>10, <2>2, <2>3 DEF configure_endpoints
<1>11. CASE configure_done
  <2>1. step = "endpoints" /\ pc = "command" /\ UNCHANGED <<ep0_link, ep0, attempted, dcbaa, queues, events, controller>>
    BY <1>11 DEF configure_done, Answered, TimedOut, endpoint0
  <2>2. CASE TimedOut("endpoints") /\ mem' = Mark({"in", "rings"}, "kept") /\ Leave
    BY <1>6, <2>1, <2>2, LeaveMem
  <2>3. answer # None => CmdLeft = 0
    BY <1>2, NoneUnderWay
  <2>4. CASE Answered("endpoints", "error") /\ mem' = Mark({"in", "rings"}, "free") /\ Leave
    <3>1. hslots[slot].state # "configured"
      BY <2>1, <2>4 DEF Answered, MemInv, EndsInv, Ends
    <3>2. \A t \in Slots : hslots[t].port = port => hslots[t].state # "configured"
      BY <1>2, <3>1
    <3> QED
      BY <1>6, <2>1, <2>3, <2>4, <3>2, LeaveMem DEF Answered
  <2>5. CASE Answered("endpoints", "ok") /\ mem' = Mark({"in"}, "free") /\ Go("setconf")
    BY <1>6, <2>1, <2>5, GoMem DEF Answered
  <2> QED
    BY <1>11, <2>2, <2>4, <2>5 DEF configure_done
<1> QED
  BY <1>7, <1>8, <1>9, <1>10, <1>11

(* nothing of a ring in order can be fetched when nothing is left *)
LEMMA NothingPending ==
  ASSUME NEW p \in XPorts, ep0_link \in Nat \ {0}, InOrderEp0(p), Ep0Left(p) = 0
  PROVE  PendingTrbs(p) = {}
<1> SUFFICES ASSUME NEW k \in 0 .. ep0_link - 1, Reachable(ep0[p], ep0_link, ep0_deq[p], k + 1) PROVE FALSE
  BY DEF PendingTrbs
<1>1. Left(ep0_link, ep0_deq[p], Enq(p)) > 0
  BY Reached DEF InOrderEp0
<1> QED
  BY <1>1 DEF Ep0Left

(* a transfer ends *)
LEMMA EndMem ==
  ASSUME IInv, IInv', MemInv,
         get_descriptor_timeout \/ get_descriptor_failed \/ get_descriptor_done \/ packet_failed \/ packet_done
  PROVE  MemInv'
<1> USE DEF WithSlot, Identifying, PacketSteps, AfterPacket
<1>1. /\ pc = "transfer" /\ step \in {"identified"} \cup PacketSteps
      /\ UNCHANGED <<ep0_link, ep0, attempted, dcbaa, events, controller>>
  BY DEF get_descriptor_timeout, get_descriptor_failed, get_descriptor_done, packet_failed, packet_done
<1>2. /\ slot \in Slots /\ slot # None /\ port \in XPorts /\ port # None
      /\ \A t \in Slots : hslots[t].port = port => t = slot /\ step # "identify"
  BY <1>1, OwnSlot
<1>3. MemTypes /\ CmdLeft = 0
  BY <1>1, <1>2, NoneUnderWay DEF MemInv
<1>4. /\ got # None /\ got.code = "error" => ep0_halted[port]
      /\ got # None /\ got.code = "ok" => PendingTrbs(port) \cap {"data", "packet"} = {}
  <2>1. got # None => Over(got.code)
    BY DEF IInv, TransferInv
  <2>2. ep0_link \in Nat \ {0} /\ InOrderEp0(port)
    BY <1>1, TransferLive, Numbers DEF IInv, CommandInv, Types
  <2>3. got # None /\ got.code = "ok" => PendingTrbs(port) = {}
    BY <1>2, <2>1, <2>2, NothingPending DEF Over
  <2> QED
    BY <2>1, <2>3 DEF Over
<1>6. /\ UNCHANGED mem => Changed({}, {})
      /\ \A S : mem' = Mark(S, "free") => Changed(S, {})
      /\ \A S : mem' = Mark(S, "held") \/ mem' = Mark(S, "kept") => Changed({}, S)
  BY <1>2, <1>3, NotMarked, MarkedFree, MarkedKept
<1>7. CASE get_descriptor_timeout
  <2>1. Changed({"in"}, {"out", "ring", "data"})
    BY <1>2, <1>3, <1>7 DEF get_descriptor_timeout, Changed, MemTypes, Objects
  <2> QED
    BY <1>1, <1>3, <1>7, <2>1, LeaveMem DEF get_descriptor_timeout
<1>8. CASE get_descriptor_failed
  <2>1. /\ step = "identified" /\ step' = "release" /\ submit_command(Command("disable", slot, port)) /\ UNCHANGED <<port, slot>>
        /\ Changed({"in", "data"}, {}) /\ ep0_halted[port]
    BY <1>4, <1>6, <1>8 DEF get_descriptor_failed, disable_device_slot
  <2>2. "release" \in DOMAIN CommandOf /\ CommandOf["release"] = "disable" /\ \A c : c.type = "disable" => Uses(c) = {}
    BY DEF CommandOf, Uses
  <2> QED
    BY <1>1, <1>2, <2>1, <2>2, SubmitMem
<1>9. CASE get_descriptor_done
  <2>1. step = "identified" /\ UNCHANGED queues /\ got # None /\ got.code = "ok"
    BY <1>9 DEF get_descriptor_done
  <2>2. CASE mem' = Mark({"in", "data"}, "free") /\ Go("evaluate")
    BY <1>1, <1>4, <1>6, <2>1, <2>2, GoMem
  <2>3. CASE mem' = Mark({"in", "out", "ring", "data"}, "kept") /\ Leave
    BY <1>1, <1>6, <2>1, <2>3, LeaveMem
  <2> QED
    BY <1>9, <2>2, <2>3 DEF get_descriptor_done
<1>10. CASE packet_failed
  <2>1. Changed({}, {}) \/ Changed({}, {"data"})
    BY <1>6, <1>10 DEF packet_failed
  <2> QED
    BY <1>1, <1>10, <2>1, LeaveMem DEF packet_failed
<1>11. CASE packet_done
  <2>1. PICK F \in {{}, {"data"}} : Changed(F, {})
    BY <1>6, <1>11 DEF packet_done
  <2>2. UNCHANGED queues /\ got # None /\ got.code = "ok"
    BY <1>11 DEF packet_done
  <2>3. CASE Leave
    BY <1>1, <1>4, <2>1, <2>2, <2>3, LeaveMem
  <2>4. CASE step # "setconf" /\ Go(AfterPacket[step])
    <3>1. AfterPacket[step] # "identify" /\ step \in WithSlot \ {"identify", "drop", "setconf"}
      BY <1>11, <2>4 DEF packet_done
    <3> QED
      BY <1>1, <1>4, <2>1, <2>2, <2>4, <3>1, GoMem
  <2> QED
    BY <1>11, <2>3, <2>4 DEF packet_done
<1> QED
  BY <1>7, <1>8, <1>9, <1>10, <1>11

(* a transfer without a data stage: no TRB that can be fetched has one *)
LEMMA NoDataStage ==
  ASSUME IInv, IInv', pc # "transfer", NEW p \in XPorts, p = port, port' = p, Live(p), Publish(p, slot, <<"setup", "status">>),
         UNCHANGED <<ep0_link, ep0_deq>>, pc' = "transfer"
  PROVE  PendingTrbs(p)' \cap {"data", "packet"} = {}
<1> DEFINE w == <<"setup", "status">>
<1>1. Len(w) = 2 /\ w[1] = "setup" /\ w[2] = "status" /\ \A k \in 1 .. 2 - 1 : w[k] # "status"
  OBVIOUS
<1>2. Publish(p, slot, w)
  OBVIOUS
<1> HIDE DEF w
<1>3. ep0_link \in Nat \ {0} /\ ep0_link >= 5 /\ p \in DOMAIN ep0 /\ InOrderEp0(p)
  BY Numbers DEF IInv, CommandInv, Types, Ep0Inv
<1>4. /\ InOrderEp0(p)'
      /\ \A i \in 0 .. ep0_link - 1 : Ep0Back(p, i)' <= Ep0Left(p)' =>
           ep0'[p][i].what = "no-op" \/ \E k \in 1 .. 2 : ep0'[p][i].what = w[k]
  <2>1. 2 \in 2 .. 3
    OBVIOUS
  <2> QED
    BY <1>1, <1>2, <1>3, <2>1, Published
<1>5. \A i \in 0 .. ep0_link - 1 : Ep0Back(p, i)' <= Ep0Left(p)' => ep0'[p][i].what \notin {"data", "packet"}
  BY <1>1, <1>4
<1> SUFFICES ASSUME NEW k \in 0 .. ep0_link - 1, Reachable(ep0'[p], ep0_link, ep0_deq[p], k + 1)
             PROVE  ep0'[p][Ahead(ep0_link, ep0_deq[p], k).at].what \notin {"data", "packet"}
  BY DEF PendingTrbs
<1>6. RingOK(ep0'[p], ep0_link, Enq(p)') /\ Behind(ep0_link, ep0_deq[p], Enq(p)')
  BY <1>4 DEF InOrderEp0
<1>7. PICK i : i = Ahead(ep0_link, ep0_deq[p], k).at
  OBVIOUS
<1>8. i \in 0 .. ep0_link - 1 /\ Back(ep0_link, Enq(p)', i) <= Left(ep0_link, ep0_deq[p], Enq(p)')
  BY <1>3, <1>6, <1>7, Reached
<1>9. Ep0Back(p, i)' <= Ep0Left(p)'
  BY <1>8 DEF Ep0Back, Ep0Left
<1> QED
  BY <1>5, <1>7, <1>8, <1>9

(* a transfer begins *)
LEMMA BeginMem ==
  ASSUME IInv, IInv', MemInv, get_descriptor \/ usb_send_packet
  PROVE  MemInv'
<1> USE DEF WithSlot, Identifying, PacketSteps, AfterPacket
<1>1. /\ UNCHANGED <<ep0_link, attempted, port, slot, dcbaa, queues, events, controller>>
      /\ pc # "transfer" /\ pc' = "transfer" /\ step \in {"address"} \cup PacketSteps /\ step' \in {"identified"} \cup PacketSteps
      /\ step' = "identified" <=> step = "address"
      /\ step # "address" => step' = step
      /\ pc = "command" => answer # None
      /\ pc = "command" => step = "address"
  BY DEF get_descriptor, usb_send_packet, Answered, Publish
<1>2. /\ slot \in Slots /\ slot # None /\ port \in XPorts /\ port # None
      /\ \A t \in Slots : hslots[t].port = port => t = slot /\ step # "identify"
  BY <1>1, OwnSlot
<1>3. MemTypes /\ CmdLeft = 0
  BY <1>1, <1>2, NoneUnderWay DEF MemInv
<1>4. PICK p \in XPorts : p = port
  BY <1>2
<1>5. UNCHANGED <<ep0_deq, ep0_halted, hslots>> /\ port' = p /\ Live(p)
  BY <1>1, <1>4 DEF controller, Live
<1>6. ASSUME NEW q \in XPorts, q # p PROVE PendingTrbs(q)' = PendingTrbs(q)
  <2>1. ep0'[q] = ep0[q]
    BY <1>4, <1>6 DEF get_descriptor, usb_send_packet, Publish, IInv, Types
  <2> QED
    BY <1>1, <1>5, <2>1 DEF PendingTrbs
<1>7. PICK H \in {{}, {"data"}} :
        /\ Changed({}, H)
        /\ "data" \notin H => Publish(p, slot, <<"setup", "status">>)
  <2>1. CASE mem' = Mark({"data"}, "held")
    <3>1. Changed({}, {"data"})
      BY <1>2, <1>3, <2>1, MarkedKept
    <3> QED
      BY <3>1
  <2>2. CASE UNCHANGED mem /\ Publish(port, slot, <<"setup", "status">>)
    BY <1>3, <1>4, <2>2, NotMarked
  <2> QED
    BY <2>1, <2>2 DEF get_descriptor, usb_send_packet
<1>8. DataInv'
  <2> SUFFICES ASSUME NEW q \in XPorts
               PROVE  /\ ep0_deq[q].at \in 0 .. ep0_link /\ ep0_deq[q].cycle \in 0 .. 1
                      /\ Safe(q, "data")' \/ ep0_halted[q] \/ PendingTrbs(q)' \cap {"data", "packet"} = {}
    BY <1>1, <1>5 DEF DataInv
  <2>1. /\ ep0_deq[q].at \in 0 .. ep0_link /\ ep0_deq[q].cycle \in 0 .. 1
        /\ Safe(q, "data") \/ ep0_halted[q] \/ PendingTrbs(q) \cap {"data", "packet"} = {}
    BY DEF MemInv, DataInv
  <2>2. CASE q # p
    <3>1. Safe(q, "data") => Safe(q, "data")'
      BY <1>7, StaysSafe DEF Objects
    <3> QED
      BY <1>6, <2>1, <2>2, <3>1
  <2>3. CASE q = p /\ "data" \in H
    BY <1>4, <1>7, <2>1, <2>3 DEF Changed, Safe, Objects
  <2>4. CASE q = p /\ "data" \notin H
    BY <1>1, <1>4, <1>5, <1>7, <2>1, <2>4, NoDataStage
  <2> QED
    BY <2>2, <2>3, <2>4
<1>9. GoesOn
  BY <1>1 DEF GoesOn
<1>10. step' \in WithSlot \ {"setconf"} => hslots[slot'].state # "configured"
  BY <1>1 DEF MemInv, EndsInv
<1> QED
  BY <1>1, <1>3, <1>7, <1>8, <1>9, <1>10, QuietMem

(* the driver takes an event *)
LEMMA ProcessMem ==
  ASSUME IInv, MemInv, xhci_process_events
  PROVE  MemInv'
<1>1. UNCHANGED <<ep0_link, step, pc, port, attempted, mem, slot, slots, dcbaa, commands, command_enq, ep0, controller>>
  BY DEF xhci_process_events
<1>2. UNCHANGED <<hslots, command_deq, ep0_deq, ep0_halted, CmdLeft, Last>> /\ \A i : CmdBack(i)' = CmdBack(i)
  BY <1>1 DEF controller, CmdLeft, Last, CmdBack
<1>3. /\ DOMAIN events = 1 .. Len(events) /\ Len(events) \in Nat \ {0} /\ DOMAIN events' = 1 .. Len(events) - 1
      /\ \A i \in DOMAIN events' : events'[i] = events[i + 1]
  BY Taken DEF IInv, CommandInv, EventInv, xhci_process_events
<1>4. answer' # answer => IsCommand(1) /\ answer' = events[1]
  BY EventTaken DEF IInv
<1>5. ASSUME NEW x, Ends(x)' PROVE Ends(x)
  <2>1. CASE \E i \in DOMAIN events' : IsCommand(i)' /\ events'[i].code = x
    <3>1. PICK i \in DOMAIN events' : IsCommand(i)' /\ events'[i].code = x
      BY <2>1
    <3>2. i + 1 \in DOMAIN events /\ IsCommand(i + 1) /\ events[i + 1].code = x
      BY <1>3, <3>1 DEF IsCommand
    <3> QED
      BY <3>2 DEF Ends
  <2>2. CASE answer' # None /\ answer'.code = x
    BY <1>4, <2>2 DEF Ends, IsCommand
  <2> QED
    BY <1>5, <2>1, <2>2 DEF Ends
<1>6. MemTypes' /\ PendingInv' /\ SlotsInv'
  BY <1>1, <1>2 DEF MemInv, MemTypes, PendingInv, GoodCommand, SlotsInv, GoodSlot, Safe
<1>7. EndsInv'
  BY <1>1, <1>2, <1>5 DEF MemInv, EndsInv, Safe
<1>8. DataInv'
  BY <1>1, <1>2 DEF MemInv, DataInv, Safe, PendingTrbs
<1> QED
  BY <1>6, <1>7, <1>8 DEF MemInv

(* the firmware's step and stuttering touch no memory *)
LEMMA StutterMem ==
  ASSUME MemInv, firmware \/ UNCHANGED vars
  PROVE  MemInv'
<1>1. /\ UNCHANGED <<ep0_link, step, pc, port, attempted, mem, slot, slots, dcbaa, commands, command_enq, answer, ep0, events>>
      /\ UNCHANGED <<hslots, command_deq, ep0_deq, ep0_halted>>
  BY DEF firmware, vars, queues, endpoint0, controller
<1>2. UNCHANGED <<CmdLeft, Last>> /\ \A i : CmdBack(i)' = CmdBack(i) /\ (IsCommand(i)' <=> IsCommand(i))
  BY <1>1 DEF CmdLeft, Last, CmdBack, IsCommand
<1>3. \A x : Ends(x)' <=> Ends(x)
  BY <1>1, <1>2 DEF Ends
<1>4. MemTypes' /\ PendingInv' /\ SlotsInv'
  BY <1>1, <1>2 DEF MemInv, MemTypes, PendingInv, GoodCommand, SlotsInv, GoodSlot, Safe
<1>5. EndsInv'
  BY <1>1, <1>2, <1>3 DEF MemInv, EndsInv, Safe
<1>6. DataInv'
  BY <1>1 DEF MemInv, DataInv, Safe, PendingTrbs
<1> QED
  BY <1>4, <1>5, <1>6 DEF MemInv

(* The controller executes a command.  What it then uses the command referred to. *)
LEMMA CommandMem ==
  ASSUME IInv, MemInv, hc_command
  PROVE  MemInv'
<1>1. PICK at : at = Ahead(CmdLink, command_deq, 0).at
  OBVIOUS
<1>2. PICK c : c = commands[at].what
  OBVIOUS
<1>3. /\ UNCHANGED <<commands, Last>> /\ CmdLeft > 0 /\ CmdLeft' = CmdLeft - 1
      /\ at \in 0 .. CmdLink - 1 /\ CmdBack(at) = CmdLeft /\ c \in Commands
      /\ c.slot # None => NoCommandEvents
  BY <1>1, <1>2, CommandEnds DEF IInv
<1>4. /\ UNCHANGED <<ep0_link, step, pc, port, attempted, mem, slot, slots, dcbaa, answer, command_enq, ep0, ep0_deq, ep0_halted>>
      /\ \A i : CmdBack(i)' = CmdBack(i)
  BY DEF hc_command, driver, queues, endpoint0, CmdBack
<1>5. CmdLink \in Nat \ {0} /\ CmdLeft \in 0 .. CmdLink /\ command_enq.at \in 0 .. CmdLink - 1 /\ None \notin XPorts /\ Slots = XPorts
  BY Numbers, LeftBounds DEF IInv, CommandInv, RingInv, RingOK, CmdLeft, Sizes, Slots
<1>6. \A i \in 0 .. CmdLink - 1 : CmdBack(i) \in 1 .. CmdLink
  BY <1>5, Backs DEF CmdBack
<1>7. PendingInv'
  <2> SUFFICES ASSUME NEW i \in 0 .. CmdLink - 1, CmdBack(i)' <= CmdLeft', commands'[i].what.slot # None PROVE FALSE
    BY DEF PendingInv
  <2>1. CmdBack(i) <= CmdLeft - 1 /\ commands[i].what.slot # None /\ CmdBack(i) \in Nat
    BY <1>3, <1>4, <1>6
  <2>2. CmdBack(i) = CmdLeft
    BY <1>5, <2>1 DEF IInv, CommandInv, RingInv
  <2> QED
    BY <1>5, <2>1, <2>2
<1>8. c.slot # None => GoodCommand(c)
  BY <1>2, <1>3, <1>5 DEF MemInv, PendingInv
<1>9. PICK e :
        /\ events' = Append(events, e) /\ e.of = "command" /\ e.code \in {"ok", "error"}
        /\ e.code = "ok" => e.slot \in Slots /\ c.slot \in {None, e.slot} /\ Executed(c, e.slot)
        /\ e.code = "error" => UNCHANGED hslots
  <2>1. \A s, x : LET e == Event("command", at, s, x, c) IN e.of = "command" /\ e.slot = s /\ e.code = x
    BY DEF Event
  <2>2. CASE \E s \in Slots : c.slot \in {None, s} /\ Executed(c, s) /\ events' = Append(events, Event("command", at, s, "ok", c))
    BY <2>1, <2>2
  <2>3. CASE events' = Append(events, Event("command", at, c.slot, "error", c)) /\ UNCHANGED hslots
    BY <2>1, <2>3
  <2> QED
    BY <1>1, <1>2, <2>2, <2>3 DEF hc_command
<1>10. PICK s : s = e.slot
  OBVIOUS
<1>11. /\ c.type \in CommandTypes /\ (c.slot = None => c.type \in {"enable", "no-op"})
       /\ dcbaa \in [Slots -> XPorts \cup {None}]
       /\ hslots \in [Slots -> [state : {"off", "enabled", "addressed", "configured"}, port : XPorts \cup {None}]]
  BY <1>3 DEF Commands, IInv, Types
<1>12. ASSUME e.code = "ok"
       PROVE  /\ s \in Slots /\ \A t \in Slots : t # s => hslots'[t] = hslots[t]
              /\ c.type = "enable" => hslots[s].state = "off" /\ hslots'[s].state = "enabled" /\ hslots'[s].port = hslots[s].port
              /\ c.type \in {"no-op", "evaluate"} => hslots' = hslots
              /\ c.type = "disable" => hslots'[s].state = "off" /\ hslots'[s].port = None /\ s = c.slot
              /\ c.type = "address" => hslots'[s].state = "addressed" /\ hslots'[s].port = dcbaa[s] /\ s = c.slot
              /\ c.type = "configure" => /\ hslots[s].state = "addressed" /\ hslots'[s].state = "configured"
                                         /\ hslots'[s].port = hslots[s].port /\ s = c.slot
  <2>1. s \in Slots /\ c.slot \in {None, s} /\ Executed(c, s)
    BY <1>9, <1>10, <1>12
  <2>2. CASE c.type = "enable"
    BY <1>11, <2>1, <2>2 DEF Executed
  <2>3. CASE c.type \in {"no-op", "evaluate"}
    BY <1>11, <2>1, <2>3 DEF Executed
  <2>4. CASE c.type = "disable"
    BY <1>11, <2>1, <2>4 DEF Executed
  <2>5. CASE c.type = "address"
    BY <1>11, <2>1, <2>5 DEF Executed
  <2>6. CASE c.type = "configure"
    BY <1>11, <2>1, <2>6 DEF Executed
  <2> QED
    BY <1>11, <2>2, <2>3, <2>4, <2>5, <2>6 DEF CommandTypes
(* the command of the slot in hand *)
<1>13. ASSUME slot # None
       PROVE  /\ pc = "command" /\ CmdLeft' = 0 /\ at = Last /\ c.slot = slot /\ step \in DOMAIN CommandOf /\ c.type = CommandOf[step]
              /\ NoCommandEvents /\ answer = None
  <2>1. CmdLeft <= Bound /\ (pc # "command" => Bound = 0) /\ (pc = "command" => Bound = 1)
    BY <1>13 DEF Bound, IInv, Room
  <2>2. pc = "command" /\ CmdLeft = 1 /\ CmdLeft' = 0
    BY <1>3, <1>5, <2>1
  <2>3. at = Last
    BY <1>3, <1>5, <2>2, Backs DEF CmdBack, Last
  <2>4. c.slot = slot
    BY <1>2, <1>3, <1>13, <2>3 DEF IInv, SlotInv
  <2>5. step \in DOMAIN CommandOf /\ c.type = CommandOf[step]
    BY <1>2, <1>3, <1>13, <2>3 DEF MemInv, EndsInv
  <2>6. answer = None
    BY <1>3 DEF IInv, CommandInv, AnswerInv
  <2> QED
    BY <1>3, <1>13, <2>2, <2>3, <2>4, <2>5, <2>6
<1>14. ASSUME NEW t \in Slots PROVE GoodSlot(t)'
  <2>1. GoodSlot(t)
    BY DEF MemInv, SlotsInv
  <2>2. CASE hslots'[t] = hslots[t]
    BY <1>4, <2>1, <2>2 DEF GoodSlot, Safe
  <2>3. CASE hslots'[t] # hslots[t]
    <3>1. e.code = "ok" /\ t = s
      BY <1>9, <1>12, <2>3
    <3>2. c.type \in {"enable", "disable", "address", "configure"}
      BY <1>11, <1>12, <2>3, <3>1 DEF CommandTypes
    <3>3. CASE c.type = "enable"
      <4>1. hslots'[t].state = "enabled" /\ hslots'[t].port = None
        BY <1>12, <2>1, <3>1, <3>3 DEF GoodSlot
      <4>2. port' # None => port' \in XPorts
        BY <1>4 DEF IInv, Types
      <4> QED
        BY <1>5, <4>1, <4>2 DEF GoodSlot
    <3>4. CASE c.type = "disable"
      <4>1. hslots'[t].state = "off" /\ hslots'[t].port = None
        BY <1>12, <3>1, <3>4
      <4> QED
        BY <4>1 DEF GoodSlot
    <3>5. CASE c.type \in {"address", "configure"}
      <4>1. c.slot = t /\ c.slot # None /\ GoodCommand(c)
        BY <1>5, <1>8, <1>11, <1>12, <3>1, <3>5
      <4>2. hslots'[t].port = c.port /\ hslots'[t].state \in {"addressed", "configured"} /\ c.port \in attempted
        BY <1>12, <3>1, <3>5, <4>1 DEF GoodCommand
      <4>3. Safe(c.port, "out") /\ Safe(c.port, "ring") /\ (hslots'[t].state = "configured" => Safe(c.port, "rings"))
        <5>1. CASE c.type = "address"
          BY <1>12, <3>1, <4>1, <5>1 DEF GoodCommand, Uses
        <5>2. CASE c.type = "configure"
          <6>1. Safe(c.port, "out") /\ Safe(c.port, "rings")
            BY <4>1, <5>2 DEF GoodCommand, Uses
          <6>2. hslots[t].state = "addressed" /\ hslots[t].port = c.port
            BY <1>12, <3>1, <4>1, <5>2 DEF GoodCommand
          <6> QED
            BY <2>1, <6>1, <6>2 DEF GoodSlot
        <5> QED
          BY <3>5, <5>1, <5>2
      <4>4. c.port = port => t = slot /\ step # "identify"
        <5> SUFFICES ASSUME c.port = port PROVE t = slot /\ step # "identify"
          OBVIOUS
        <5>1. t = slot /\ slot # None
          BY <4>1 DEF GoodCommand
        <5>2. step \in DOMAIN CommandOf
          BY <1>13, <5>1
        <5> QED
          BY <5>1, <5>2 DEF CommandOf
      <4> QED
        BY <1>4, <1>5, <4>2, <4>3, <4>4 DEF GoodSlot, Safe
    <3> QED
      BY <3>2, <3>3, <3>4, <3>5
  <2> QED
    BY <2>2, <2>3
<1>15. EndsInv'
  <2>1. /\ step \in WithSlot => slot # None
        /\ step \in WithSlot => slot \in Slots
    BY <1>5 DEF IInv, Types
  <2>2. ASSUME slot # None, NEW x, Ends(x)' PROVE e.code = x
    <3>1. /\ DOMAIN events = 1 .. Len(events) /\ Len(events) \in Nat /\ DOMAIN events' = 1 .. Len(events) + 1
          /\ \A i \in DOMAIN events : events'[i] = events[i]
          /\ events'[Len(events) + 1] = e
      BY <1>9, Added DEF IInv, CommandInv, EventInv
    <3>2. NoCommandEvents /\ answer' = None
      BY <1>4, <1>13, <2>2
    <3>3. PICK i \in DOMAIN events' : IsCommand(i)' /\ events'[i].code = x
      BY <2>2, <3>2 DEF Ends
    <3>4. i \notin DOMAIN events
      BY <3>1, <3>2, <3>3 DEF NoCommandEvents, IsCommand
    <3>5. i = Len(events) + 1
      BY <3>1, <3>4
    <3> QED
      BY <3>1, <3>3, <3>5
  <2>3. ASSUME step = "release", pc = "command", Ends("ok")' PROVE hslots'[slot].state = "off"
    <3>1. slot # None
      BY <2>1, <2>3 DEF WithSlot, Identifying
    <3>2. e.code = "ok" /\ c.type = "disable" /\ c.slot = slot
      BY <1>13, <2>2, <2>3, <3>1 DEF CommandOf
    <3> QED
      BY <1>12, <3>2
  <2>4. ASSUME step \in WithSlot \ {"setconf"}, hslots'[slot].state = "configured"
        PROVE  step = "endpoints" /\ pc = "command" /\ CmdLeft' = 0 /\ ~Ends("error")'
    <3>1. slot # None /\ slot \in Slots /\ hslots[slot].state # "configured"
      BY <1>3, <1>5, <2>1, <2>4 DEF MemInv, EndsInv
    <3>2. e.code = "ok"
      BY <1>9, <2>4, <3>1
    <3>3. slot = s /\ c.type = "configure"
      BY <1>11, <1>12, <2>4, <3>1, <3>2 DEF CommandTypes
    <3>4. step = "endpoints"
      BY <1>13, <3>1, <3>3 DEF CommandOf
    <3> QED
      BY <1>13, <2>2, <3>1, <3>2, <3>4
  <2>5. slot # None => CmdLeft' = 0
    BY <1>13
  <2>6. step \in WithSlot \ {"identify", "drop"} => Safe(port, "out")'
    BY <1>4 DEF MemInv, EndsInv, Safe
  <2> QED
    BY <1>4, <2>3, <2>4, <2>5, <2>6 DEF EndsInv
<1>16. MemTypes' /\ DataInv'
  BY <1>4 DEF MemInv, MemTypes, DataInv, Safe, PendingTrbs
<1> QED
  BY <1>7, <1>14, <1>15, <1>16 DEF MemInv, SlotsInv

(* The controller fetches a TRB of an endpoint 0: there is less to fetch than before. *)
LEMMA TransferMem ==
  ASSUME IInv, MemInv, hc_transfer
  PROVE  MemInv'
<1>1. PICK s \in Slots :
        LET p == hslots[s].port
            at == Ahead(ep0_link, ep0_deq[p], 0).at
            what == ep0[p][at].what
            code == {"error"} \cup (CASE what = "status" -> {"ok"} [] what = "packet" -> {"none", "short"} [] OTHER -> {"none"})
        IN
        /\ hslots[s].state \in {"addressed", "configured"} /\ ~ep0_halted[p]
        /\ Owned(ep0[p], ep0_link, ep0_deq[p])
        /\ \E x \in code :
             /\ events' = IF x = "none" THEN events ELSE Append(events, Event("transfer", at, s, x, p))
             /\ ep0_halted' = [ep0_halted EXCEPT ![p] = (x = "error")]
             /\ ep0_deq' = IF x = "error" THEN ep0_deq ELSE [ep0_deq EXCEPT ![p] = Consumed(ep0_link, @)]
  BY DEF hc_transfer
<1>2. PICK p, at : p = hslots[s].port /\ at = Ahead(ep0_link, ep0_deq[p], 0).at
  OBVIOUS
<1>3. PICK x \in {"error", "ok", "none", "short"} :
        /\ events' = IF x = "none" THEN events ELSE Append(events, Event("transfer", at, s, x, p))
        /\ ep0_halted' = [ep0_halted EXCEPT ![p] = (x = "error")]
        /\ ep0_deq' = IF x = "error" THEN ep0_deq ELSE [ep0_deq EXCEPT ![p] = Consumed(ep0_link, @)]
  BY <1>1, <1>2
<1>4. hslots[s].state \in {"addressed", "configured"} /\ ~ep0_halted[p] /\ Owned(ep0[p], ep0_link, ep0_deq[p])
  BY <1>1, <1>2
<1>5. /\ UNCHANGED <<ep0_link, step, pc, port, attempted, mem, slot, slots, dcbaa, commands, command_enq, answer, ep0>>
      /\ UNCHANGED <<hslots, command_deq>>
  BY DEF hc_transfer, driver, queues, endpoint0
<1>6. UNCHANGED <<CmdLeft, Last>> /\ \A i : CmdBack(i)' = CmdBack(i)
  BY <1>5 DEF CmdLeft, Last, CmdBack
<1>7. MemTypes' /\ PendingInv' /\ SlotsInv'
  BY <1>5, <1>6 DEF MemInv, MemTypes, PendingInv, GoodCommand, SlotsInv, GoodSlot, Safe
(* an event of a transfer ends no command *)
<1>8. ASSUME NEW y, Ends(y)' PROVE Ends(y)
  <2>1. CASE events' = events
    BY <1>5, <1>8, <2>1 DEF Ends, IsCommand
  <2>2. CASE events' # events
    <3>1. PICK e : events' = Append(events, e) /\ e.of = "transfer"
      BY <1>3, <2>2 DEF Event
    <3>2. /\ DOMAIN events = 1 .. Len(events) /\ Len(events) \in Nat /\ DOMAIN events' = 1 .. Len(events) + 1
          /\ \A i \in DOMAIN events : events'[i] = events[i]
          /\ events'[Len(events) + 1] = e
      BY <3>1, Added DEF IInv, CommandInv, EventInv
    <3>3. \A i \in DOMAIN events' : IsCommand(i)' => IsCommand(i) /\ events'[i] = events[i]
      BY <3>1, <3>2 DEF IsCommand
    <3> QED
      BY <1>5, <1>8, <3>3 DEF Ends, IsCommand
  <2> QED
    BY <2>1, <2>2
<1>9. EndsInv'
  BY <1>5, <1>6, <1>8 DEF MemInv, EndsInv, Safe
<1>10. /\ p \in XPorts /\ ep0_link \in Nat \ {0}
      /\ ep0_halted \in [XPorts -> BOOLEAN] /\ DOMAIN ep0_deq = XPorts
  <2>1. Types /\ Sizes /\ GoodSlot(s)
    BY DEF IInv, CommandInv, MemInv, SlotsInv
  <2>2. p \in attempted
    BY <1>2, <1>4, <2>1 DEF GoodSlot
  <2> QED
    BY <2>1, <2>2, Numbers DEF Types
<1>11. ASSUME NEW q \in XPorts
      PROVE  /\ ep0_deq'[q].at \in 0 .. ep0_link /\ ep0_deq'[q].cycle \in 0 .. 1
             /\ Safe(q, "data") \/ ep0_halted'[q] \/ PendingTrbs(q)' \cap {"data", "packet"} = {}
  <2>1. /\ ep0_deq[q].at \in 0 .. ep0_link /\ ep0_deq[q].cycle \in 0 .. 1
        /\ Safe(q, "data") \/ ep0_halted[q] \/ PendingTrbs(q) \cap {"data", "packet"} = {}
    BY DEF MemInv, DataInv
  <2>2. CASE q # p
    <3>1. ep0_deq'[q] = ep0_deq[q] /\ ep0_halted'[q] = ep0_halted[q]
      BY <1>2, <1>3, <1>4, <1>10, <2>2
    <3>2. PendingTrbs(q)' = PendingTrbs(q)
      BY <1>5, <3>1 DEF PendingTrbs
    <3> QED
      BY <2>1, <3>1, <3>2
  <2>3. CASE q = p /\ x = "error"
    BY <1>2, <1>3, <1>4, <1>10, <2>1, <2>3
  <2>4. CASE q = p /\ x # "error"
    <3>1. ep0_deq'[q] = Consumed(ep0_link, ep0_deq[q]) /\ Owned(ep0[q], ep0_link, ep0_deq[q]) /\ ~ep0_halted[q]
      BY <1>2, <1>3, <1>4, <1>10, <2>4
    <3>2. Consumed(ep0_link, ep0_deq[q]).at \in 0 .. ep0_link /\ Consumed(ep0_link, ep0_deq[q]).cycle \in 0 .. 1
      BY <1>10, <2>1, NextTrb DEF Consumed, Place
    <3>3. PendingTrbs(q)' \subseteq PendingTrbs(q)
      <4> SUFFICES ASSUME NEW k \in 0 .. ep0_link - 1, Reachable(ep0[q], ep0_link, Consumed(ep0_link, ep0_deq[q]), k + 1)
                   PROVE  ep0[q][Ahead(ep0_link, Consumed(ep0_link, ep0_deq[q]), k).at].what \in PendingTrbs(q)
        BY <1>5, <3>1 DEF PendingTrbs
      <4>1. /\ k + 1 \in 0 .. ep0_link - 1 /\ Reachable(ep0[q], ep0_link, ep0_deq[q], k + 2)
            /\ Ahead(ep0_link, ep0_deq[q], k + 1).at = Ahead(ep0_link, Consumed(ep0_link, ep0_deq[q]), k).at
        BY <1>10, <2>1, <3>1, FetchedLess
      <4>2. k + 2 = (k + 1) + 1
        OBVIOUS
      <4> QED
        BY <4>1, <4>2 DEF PendingTrbs
    <3> QED
      BY <2>1, <3>1, <3>2, <3>3
  <2> QED
    BY <2>2, <2>3, <2>4
<1>12. DataInv'
  BY <1>5, <1>11 DEF DataInv, Safe
<1> QED
  BY <1>7, <1>9, <1>12 DEF MemInv

(* the memory is safe when the driver starts: there is none *)
LEMMA InitMem == Sizes /\ Init => MemInv
<1> SUFFICES ASSUME Sizes, Init PROVE MemInv
  OBVIOUS
<1>1. CmdLink \in Nat \ {0} /\ ep0_link \in Nat \ {0} /\ None \notin XPorts
  BY Numbers DEF Init, Sizes
<1>2. CmdLeft = 0 /\ \A i \in 0 .. CmdLink - 1 : CmdBack(i) \in 1 .. CmdLink
  BY <1>1, NewRings DEF Init, CmdLeft, CmdBack
<1>3. MemTypes
  BY DEF Init, MemTypes, Objects
<1>4. PendingInv
  BY <1>1, <1>2 DEF PendingInv
<1>5. SlotsInv
  BY DEF Init, SlotsInv, GoodSlot
<1>6. EndsInv
  <2>1. step \notin WithSlot /\ slot = None
    BY DEF Init, WithSlot, Identifying, PacketSteps, AfterPacket
  <2>2. step # "release"
    BY DEF Init
  <2> QED
    BY <2>1, <2>2 DEF EndsInv
<1>7. ASSUME NEW p \in XPorts
      PROVE  ep0_deq[p].at \in 0 .. ep0_link /\ ep0_deq[p].cycle \in 0 .. 1 /\ PendingTrbs(p) \cap {"data", "packet"} = {}
  <2>1. ep0_deq[p] = Place(0, 1) /\ ep0[p] = NewRing(ep0_link)
    BY DEF Init
  <2>2. ep0_deq[p].at \in 0 .. ep0_link /\ ep0_deq[p].cycle \in 0 .. 1
    BY <1>1, <2>1 DEF Place
  <2>3. ASSUME NEW k \in 0 .. ep0_link - 1
        PROVE  ep0[p][Ahead(ep0_link, ep0_deq[p], k).at].what = "empty"
    <3>1. Ahead(ep0_link, ep0_deq[p], k).at \in 0 .. ep0_link - 1
      BY <1>1, <2>1 DEF Ahead, Place
    <3> QED
      BY <1>1, <2>1, <3>1 DEF NewRing, Trb
  <2> QED
    BY <2>2, <2>3 DEF PendingTrbs
<1>8. DataInv
  BY <1>7 DEF DataInv
<1> QED
  BY <1>3, <1>4, <1>5, <1>6, <1>8 DEF MemInv

(* every step of the driver and of the controller keeps the memory safe *)
LEMMA NextMem == IInv /\ MemInv /\ [Next]_vars => MemInv'
<1> SUFFICES ASSUME IInv, MemInv, [Next]_vars PROVE MemInv'
  OBVIOUS
<1>1. IInv'
  BY NextIInv
<1>2. CASE xhci_take_ownership \/ xhci_reset \/ allocate_scracthpad \/ enumrate_ports \/ controller_init \/ no_op_done
  BY <1>1, <1>2, StartMem
<1>3. CASE scan_ports \/ reset_port \/ enable_device_slot \/ enable_slot_done
  BY <1>1, <1>3, PortMem
<1>4. CASE identify_gives_up \/ address_device \/ address_timeout \/ address_failed \/ no_descriptor_buffer \/ disable_slot_done
  BY <1>1, <1>4, IdentifyMem
<1>5. CASE evaluate_context \/ evaluate_done \/ packet_refused \/ configure_endpoints \/ configure_done
  BY <1>1, <1>5, ConfigureMem
<1>6. CASE get_descriptor \/ usb_send_packet
  BY <1>1, <1>6, BeginMem
<1>7. CASE get_descriptor_timeout \/ get_descriptor_failed \/ get_descriptor_done \/ packet_failed \/ packet_done
  BY <1>1, <1>7, EndMem
<1>8. CASE xhci_process_events
  BY <1>8, ProcessMem
<1>9. CASE hc_command
  BY <1>9, CommandMem
<1>10. CASE hc_transfer
  BY <1>10, TransferMem
<1>11. CASE firmware \/ UNCHANGED vars
  BY <1>11, StutterMem
<1> QED
  BY <1>2, <1>3, <1>4, <1>5, <1>6, <1>7, <1>8, <1>9, <1>10, <1>11 DEF Next

(* What is freed was never given to the controller, or the controller is through with it. *)
LEMMA SafeMemory == IInv /\ MemInv => NoUseAfterFree
<1> SUFFICES ASSUME IInv, MemInv PROVE NoUseAfterFree
  OBVIOUS
<1>1. Sizes /\ Types /\ CmdLink \in Nat \ {0} /\ RingInv
  BY Numbers DEF IInv, CommandInv
<1>2. ASSUME NEW c \in PendingCommands, NEW o \in Uses(c)
      PROVE  Safe(c.port, o)
  <2>1. PICK k \in 0 .. CmdLink - 1 :
          Reachable(commands, CmdLink, command_deq, k + 1) /\ c = commands[Ahead(CmdLink, command_deq, k).at].what
    BY <1>2 DEF PendingCommands
  <2>2. PICK i : i = Ahead(CmdLink, command_deq, k).at
    OBVIOUS
  <2>3. RingOK(commands, CmdLink, command_enq) /\ Behind(CmdLink, command_deq, command_enq)
    BY <1>1 DEF RingInv
  <2>4. i \in 0 .. CmdLink - 1 /\ CmdBack(i) <= CmdLeft
    BY <1>1, <2>1, <2>2, <2>3, Reached DEF CmdBack, CmdLeft
  <2>5. c \in Commands
    BY <1>1, <2>1, <2>2, <2>4 DEF RingInv
  <2>6. c.slot # None
    BY <1>2, <2>5 DEF Commands, Uses
  <2>7. GoodCommand(c)
    BY <2>1, <2>2, <2>4, <2>6 DEF MemInv, PendingInv
  <2> QED
    BY <1>2, <2>7 DEF GoodCommand
<1>3. ASSUME NEW t \in Slots
      PROVE  /\ hslots[t].state \in {"addressed", "configured"} => Safe(hslots[t].port, "out") /\ Safe(hslots[t].port, "ring")
             /\ hslots[t].state = "configured" => Safe(hslots[t].port, "rings")
  BY DEF MemInv, SlotsInv, GoodSlot
<1>4. ASSUME NEW p \in XPorts, ~ep0_halted[p], PendingTrbs(p) \cap {"data", "packet"} # {}
      PROVE  Safe(p, "data")
  BY <1>4 DEF MemInv, DataInv
<1> SUFFICES ASSUME NEW x \in InUse PROVE mem[x[1]][x[2]] \in {"held", "kept"}
  BY DEF NoUseAfterFree
<1>5. \/ \E c \in PendingCommands : \E o \in Uses(c) : x = <<c.port, o>>
      \/ \E t \in Slots :
           \/ hslots[t].state \in {"addressed", "configured"} /\ (x = <<hslots[t].port, "out">> \/ x = <<hslots[t].port, "ring">>)
           \/ hslots[t].state = "configured" /\ x = <<hslots[t].port, "rings">>
      \/ \E p \in XPorts : ~ep0_halted[p] /\ PendingTrbs(p) \cap {"data", "packet"} # {} /\ x = <<p, "data">>
  <2> DEFINE context(h) == CASE h.state = "addressed" -> {"out", "ring"}
                             [] h.state = "configured" -> {"out", "ring", "rings"}
                             [] OTHER -> {}
             Addressed == {p \in XPorts : \E s \in Slots : hslots[s].port = p}
             A == UNION {{<<c.port, o>> : o \in Uses(c)} : c \in PendingCommands}
             B == UNION {{<<hslots[s].port, o>> : o \in context(hslots[s])} : s \in Slots}
             C == {<<p, "data">> : p \in {q \in Addressed : ~ep0_halted[q] /\ PendingTrbs(q) \cap {"data", "packet"} # {}}}
  <2>1. InUse = A \cup B \cup C
    BY DEF InUse, Uses
  <2>2. CASE x \in A
    <3> HIDE DEF context
    <3> QED
      BY <2>2
  <2>3. CASE x \in B
    <3>1. PICK t \in Slots : \E o \in context(hslots[t]) : x = <<hslots[t].port, o>>
      BY <2>3
    <3> QED
      BY <3>1
  <2>4. CASE x \in C
    BY <2>4
  <2> HIDE DEF A, B, C
  <2> QED
    BY <2>1, <2>2, <2>3, <2>4
<1>6. CASE \E c \in PendingCommands : \E o \in Uses(c) : x = <<c.port, o>>
  BY <1>2, <1>6 DEF Safe
<1>7. CASE \E t \in Slots :
             \/ hslots[t].state \in {"addressed", "configured"} /\ (x = <<hslots[t].port, "out">> \/ x = <<hslots[t].port, "ring">>)
             \/ hslots[t].state = "configured" /\ x = <<hslots[t].port, "rings">>
  BY <1>3, <1>7 DEF Safe
<1>8. CASE \E p \in XPorts : ~ep0_halted[p] /\ PendingTrbs(p) \cap {"data", "packet"} # {} /\ x = <<p, "data">>
  BY <1>4, <1>8 DEF Safe
<1> QED
  BY <1>5, <1>6, <1>7, <1>8

(* Whatever times out, fails or is given up, the memory that identify_device,       *)
(* usb_send_packet and configure_endpoints free is no longer used by the controller *)
(* and by no command or transfer it can still fetch; for any number of ports and    *)
(* any length of the rings.                                                         *)
THEOREM MemoryInvariance == Sizes /\ Spec => [](IInv /\ MemInv)
<1>1. Sizes /\ Init => IInv /\ MemInv
  BY InitIInv, InitMem
<1>2. IInv /\ MemInv /\ [Next]_vars => (IInv /\ MemInv)'
  BY NextIInv, NextMem
<1> QED
  BY <1>1, <1>2, PTL DEF Spec
=============================================================================
