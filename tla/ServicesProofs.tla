---------------------------- MODULE ServicesProofs ----------------------------
(***************************************************************************)
(* The theorems about the services, for the composition that the model     *)
(* checker runs.  The invariant of the xHCI driver is in XhciProofs, those *)
(* of the heap, of the readers of USB configurations and of the loaders    *)
(* are in PartProofs, and those of the other parts are here.               *)
(***************************************************************************)
EXTENDS MCServices, FiniteSetTheorems, SequenceTheorems, WellFoundedInduction, TLAPS

(* a behaviour of the xHCI driver keeps its invariant *)
LEMMA XhciInvariance == MCSpec => [](part = "Xhci" => X!IInv)
<1>1. MCInit => (part = "Xhci" => X!IInv)
  BY XhciAssumption, X!InitIInv DEF MCInit
<1>2. (part = "Xhci" => X!IInv) /\ [MCNext]_allVars => (part = "Xhci" => X!IInv)'
  <2> SUFFICES ASSUME part = "Xhci" => X!IInv, [MCNext]_allVars, part' = "Xhci" PROVE X!IInv'
    OBVIOUS
  <2>1. CASE MCNext
    <3>1. part = "Xhci" /\ X!Next
      BY <2>1 DEF MCNext
    <3> QED
      BY <3>1, X!NextIInv
  <2>2. CASE UNCHANGED allVars
    <3>1. UNCHANGED X!vars
      BY <2>2 DEF allVars, XVars, X!vars, X!queues, X!endpoint0, X!controller
    <3> QED
      BY <2>2, <3>1, X!NextIInv DEF allVars
  <2> QED
    BY <2>1, <2>2
<1> QED
  BY <1>1, <1>2, PTL DEF MCSpec

(* The driver takes a completion only for the command or the transfer it belongs to, whatever *)
(* timed out before (xhci_process_events).                                                    *)
THEOREM XhciAnswersMatchHolds == MCSpec => []XhciAnswersMatch
<1>1. (part = "Xhci" => X!IInv) => XhciAnswersMatch
  BY X!Answers DEF XhciAnswersMatch
<1> QED
  BY <1>1, XhciInvariance, PTL

(* Driver and controller stay in step on the command ring and on the endpoint rings in use, *)
(* on every pass (submit_command, usb_send_packet).                                         *)
THEOREM XhciRingsInStepHolds == MCSpec => []XhciRingsInStep
<1>1. (part = "Xhci" => X!IInv) => XhciRingsInStep
  BY X!Rings DEF XhciRingsInStep
<1> QED
  BY <1>1, XhciInvariance, PTL

(* it keeps the invariant of its memory as well *)
LEMMA XhciMemoryInvariance == MCSpec => [](part = "Xhci" => X!IInv /\ X!MemInv)
<1>1. MCInit => (part = "Xhci" => X!IInv /\ X!MemInv)
  BY XhciAssumption, X!InitIInv, X!InitMem DEF MCInit
<1>2. (part = "Xhci" => X!IInv /\ X!MemInv) /\ [MCNext]_allVars => (part = "Xhci" => X!IInv /\ X!MemInv)'
  <2> SUFFICES ASSUME part = "Xhci" => X!IInv /\ X!MemInv, [MCNext]_allVars, part' = "Xhci" PROVE X!IInv' /\ X!MemInv'
    OBVIOUS
  <2>1. CASE MCNext
    <3>1. part = "Xhci" /\ X!Next
      BY <2>1 DEF MCNext
    <3> QED
      BY <3>1, X!NextIInv, X!NextMem
  <2>2. CASE UNCHANGED allVars
    <3>1. UNCHANGED X!vars
      BY <2>2 DEF allVars, XVars, X!vars, X!queues, X!endpoint0, X!controller
    <3> QED
      BY <2>2, <3>1, X!NextIInv, X!NextMem DEF allVars
  <2> QED
    BY <2>1, <2>2
<1> QED
  BY <1>1, <1>2, PTL DEF MCSpec

(* Contexts, rings and buffers are freed only when the controller can no longer use them, whatever *)
(* timed out before (identify_device, usb_send_packet, configure_endpoints).                        *)
THEOREM XhciNoUseAfterFreeHolds == MCSpec => []XhciNoUseAfterFree
<1>1. (part = "Xhci" => X!IInv /\ X!MemInv) => XhciNoUseAfterFree
  BY X!SafeMemory DEF XhciNoUseAfterFree
<1> QED
  BY <1>1, XhciMemoryInvariance, PTL

-----------------------------------------------------------------------------
(* The keyboard.  Where the bytes under way take the decoder is written as a  *)
(* run of it over them: the decoder follows the keys when that run ends where *)
(* the keys are.  Between the bytes of one key it does not.                   *)

Decoders ==
  [left_shift : BOOLEAN, right_shift : BOOLEAN, caps_lock : BOOLEAN, caps_down : BOOLEAN,
   num_lock : BOOLEAN, num_down : BOOLEAN, extended : BOOLEAN, pause_bytes : 0 .. 5]
Codes == {"2A", "36", "3A", "45", "1E", "02", "47", "4A", "57", "1C", "35", "48", "1D", "E0", "E1", "FA"}
Bytes == [code : Codes, up : BOOLEAN]

(* f[0], f[1], .. are the states of the decoder when it starts in d and takes the bytes s *)
Run(f, d, s) ==
  /\ f \in [0 .. Len(s) -> Decoders] /\ f[0] = d
  /\ \A j \in 1 .. Len(s) : f[j] = K!Decode(f[j - 1], s[j])

(* the bytes s take the decoder from d to e *)
Leads(d, s, e) == \E f : Run(f, d, s) /\ f[Len(s)] = e

(* the decoder knows the keys *)
Follows(d) ==
  /\ d.left_shift = ("left_shift" \in held) /\ d.right_shift = ("right_shift" \in held)
  /\ d.caps_lock = caps_on /\ d.caps_down = ("caps" \in held)
  /\ d.num_lock = num_on /\ d.num_down = ("num" \in held)
  /\ ~d.extended /\ d.pause_bytes = 0

(* it will when it has taken the bytes under way *)
DecoderInv ==
  /\ stage \in {"disable", "config", "ack", "on", "failed"} /\ early \in BOOLEAN
  /\ line \in Seq(Bytes) /\ decoder \in Decoders /\ held \subseteq K!Keys /\ caps_on \in BOOLEAN /\ num_on \in BOOLEAN
  /\ ~early /\ stage \in {"disable", "config"} => line = <<>> /\ Follows(decoder)
  /\ ~early /\ stage = "ack" => line = <<K!ACK>> /\ Follows(decoder)
  /\ ~early /\ stage = "on" /\ power = "on" => \E e : Leads(decoder, line, e) /\ Follows(e)

(* A byte was counted only after the keyboard was allocated, and one that the loop noticed only after *)
(* the loop started.  The screen shows the characters printed so far, unless a byte came since or     *)
(* none came after the start.                                                                         *)
ScreenInv ==
  /\ place \in 0 .. RingSize /\ old_count \in Nat /\ irq_count \in Nat /\ old_count <= irq_count
  /\ loop \in {"before", "started", "fresh"} /\ (loop = "before" => place = RingSize)
  /\ place < RingSize => irq_count > 0
  /\ irq_count > 0 => set = TRUE
  /\ ascii = [j \in 0 .. RingSize - 1 |-> ascii[j]] /\ screen = [j \in 0 .. RingSize - 1 |-> screen[j]]
  /\ loop = "started" => place = RingSize /\ old_count = irq_count
  /\ loop = "fresh" /\ old_count = irq_count => \A j \in 0 .. place - 1 : screen[j] = ascii[j]

(* what scancode_to_ascii does with a byte, case by case: the conditions exclude one another *)
LEMMA DecodeIs ==
  ASSUME NEW d \in Decoders, NEW b \in Bytes
  PROVE  /\ d.pause_bytes > 0 => K!Decode(d, b) = [d EXCEPT !.pause_bytes = @ - 1]
         /\ d.pause_bytes = 0 /\ b = K!Prefix("E1") => K!Decode(d, b) = [d EXCEPT !.pause_bytes = 5, !.extended = FALSE]
         /\ d.pause_bytes = 0 /\ b = K!Prefix("E0") => K!Decode(d, b) = [d EXCEPT !.extended = TRUE]
         /\ d.pause_bytes = 0 /\ b.code \notin {"E0", "E1"} /\ d.extended => K!Decode(d, b) = [d EXCEPT !.extended = FALSE]
         /\ d.pause_bytes = 0 /\ b # K!Prefix("E1") /\ b # K!Prefix("E0") /\ (b.code \in {"E0", "E1"} \/ ~d.extended) =>
              K!Decode(d, b) = K!Modifier(d, b)
<1>1. K!Prefix("E1").code = "E1" /\ K!Prefix("E0").code = "E0" /\ d.pause_bytes \in Nat
  BY DEF K!Prefix, K!Byte, Decoders
<1>2. d.pause_bytes > 0 => K!Decode(d, b) = [d EXCEPT !.pause_bytes = @ - 1]
  BY <1>1 DEF K!Decode
<1>3. d.pause_bytes = 0 /\ b = K!Prefix("E1") => K!Decode(d, b) = [d EXCEPT !.pause_bytes = 5, !.extended = FALSE]
  BY <1>1 DEF K!Decode
<1>4. d.pause_bytes = 0 /\ b = K!Prefix("E0") => K!Decode(d, b) = [d EXCEPT !.extended = TRUE]
  BY <1>1 DEF K!Decode
<1>5. d.pause_bytes = 0 /\ b.code \notin {"E0", "E1"} /\ d.extended => K!Decode(d, b) = [d EXCEPT !.extended = FALSE]
  BY <1>1 DEF K!Decode
<1>6. d.pause_bytes = 0 /\ b # K!Prefix("E1") /\ b # K!Prefix("E0") /\ (b.code \in {"E0", "E1"} \/ ~d.extended) =>
        K!Decode(d, b) = K!Modifier(d, b)
  BY <1>1 DEF K!Decode
<1> QED
  BY <1>2, <1>3, <1>4, <1>5, <1>6

(* the static variables keep their types, whatever byte comes *)
LEMMA DecodeType ==
  ASSUME NEW d \in Decoders, NEW b \in Bytes
  PROVE  K!Decode(d, b) \in Decoders
<1>1. K!Modifier(d, b) \in Decoders
  <2>1. CASE b.code = "2A"
    BY <2>1 DEF K!Modifier, Decoders, Bytes
  <2>2. CASE b.code = "36"
    BY <2>2 DEF K!Modifier, Decoders, Bytes
  <2>3. CASE b.code = "3A"
    BY <2>3 DEF K!Modifier, K!Toggle, Decoders, Bytes
  <2>4. CASE b.code = "45"
    BY <2>4 DEF K!Modifier, K!Toggle, Decoders, Bytes
  <2>5. CASE b.code \notin {"2A", "36", "3A", "45"}
    BY <2>5 DEF K!Modifier
  <2> QED
    BY <2>1, <2>2, <2>3, <2>4, <2>5
<1>2. d.pause_bytes \in Nat
  BY DEF Decoders
<1>3. CASE d.pause_bytes > 0
  <2>1. K!Decode(d, b) = [d EXCEPT !.pause_bytes = @ - 1]
    BY <1>3, DecodeIs
  <2> QED
    BY <1>3, <2>1 DEF Decoders
<1>4. CASE d.pause_bytes = 0 /\ b = K!Prefix("E1")
  <2>1. K!Decode(d, b) = [d EXCEPT !.pause_bytes = 5, !.extended = FALSE]
    BY <1>4, DecodeIs
  <2>2. [d EXCEPT !.pause_bytes = 5] \in Decoders
    BY DEF Decoders
  <2>3. \A e \in Decoders : [e EXCEPT !.extended = FALSE] \in Decoders
    BY DEF Decoders
  <2> QED
    BY <2>1, <2>2, <2>3
<1>5. CASE d.pause_bytes = 0 /\ b = K!Prefix("E0")
  <2>1. K!Decode(d, b) = [d EXCEPT !.extended = TRUE]
    BY <1>5, DecodeIs
  <2> QED
    BY <2>1 DEF Decoders
<1>6. CASE d.pause_bytes = 0 /\ b.code \notin {"E0", "E1"} /\ d.extended
  <2>1. K!Decode(d, b) = [d EXCEPT !.extended = FALSE]
    BY <1>6, DecodeIs
  <2> QED
    BY <2>1 DEF Decoders
<1>7. CASE d.pause_bytes = 0 /\ b # K!Prefix("E1") /\ b # K!Prefix("E0") /\ (b.code \in {"E0", "E1"} \/ ~d.extended)
  <2>1. K!Decode(d, b) = K!Modifier(d, b)
    BY <1>7, DecodeIs
  <2> QED
    BY <1>1, <2>1
<1> QED
  BY <1>2, <1>3, <1>4, <1>5, <1>6, <1>7

(* when the first byte is taken the others lead on to where all would have led *)
LEMMA LeadsTail ==
  ASSUME NEW d, NEW s \in Seq(Bytes), s # <<>>, NEW e, Leads(d, s, e)
  PROVE  Leads(K!Decode(d, Head(s)), Tail(s), e)
<1>0. PICK f : Run(f, d, s) /\ f[Len(s)] = e
  BY DEF Leads
<1> DEFINE g == [j \in 0 .. Len(s) - 1 |-> f[j + 1]]
<1>1. Len(s) \in Nat \ {0} /\ Len(Tail(s)) = Len(s) - 1 /\ Head(s) = s[1] /\ \A j \in 1 .. Len(s) - 1 : Tail(s)[j] = s[j + 1]
  BY HeadTailProperties, EmptySeq, LenProperties
<1>2. f \in [0 .. Len(s) -> Decoders] /\ f[0] = d /\ \A j \in 1 .. Len(s) : f[j] = K!Decode(f[j - 1], s[j])
  BY <1>0 DEF Run
<1>3. g \in [0 .. Len(Tail(s)) -> Decoders]
  BY <1>1, <1>2
<1>4. g[0] = K!Decode(d, Head(s))
  BY <1>1, <1>2
<1>5. ASSUME NEW j \in 1 .. Len(Tail(s)) PROVE g[j] = K!Decode(g[j - 1], Tail(s)[j])
  <2>1. j + 1 \in 1 .. Len(s) /\ (j + 1) - 1 = j /\ (j - 1) + 1 = j /\ j - 1 \in 0 .. Len(s) - 1 /\ j \in 0 .. Len(s) - 1
    BY <1>1
  <2>2. f[j + 1] = K!Decode(f[j], s[j + 1])
    BY <1>2, <2>1
  <2>3. g[j] = f[j + 1] /\ g[j - 1] = f[j] /\ Tail(s)[j] = s[j + 1]
    BY <1>1, <2>1
  <2> QED
    BY <2>2, <2>3
<1>6. g[Len(Tail(s))] = e
  BY <1>0, <1>1
<1>7. Run(g, K!Decode(d, Head(s)), Tail(s))
  BY <1>3, <1>4, <1>5 DEF Run
<1> HIDE DEF g
<1> QED
  BY <1>6, <1>7 DEF Leads

(* when more bytes come they are taken behind the others *)
LEMMA LeadsOn ==
  ASSUME NEW d, NEW s \in Seq(Bytes), NEW e, Leads(d, s, e), NEW t \in Seq(Bytes), NEW x, Leads(e, t, x)
  PROVE  Leads(d, s \o t, x)
<1>0. PICK f, h : Run(f, d, s) /\ f[Len(s)] = e /\ Run(h, e, t) /\ h[Len(t)] = x
  BY DEF Leads
<1> DEFINE g == [j \in 0 .. Len(s) + Len(t) |-> IF j <= Len(s) THEN f[j] ELSE h[j - Len(s)]]
<1>1. /\ Len(s) \in Nat /\ Len(t) \in Nat /\ Len(s \o t) = Len(s) + Len(t)
      /\ \A j \in 1 .. Len(s) + Len(t) : (s \o t)[j] = IF j <= Len(s) THEN s[j] ELSE t[j - Len(s)]
  BY ConcatProperties, LenProperties
<1>2. f \in [0 .. Len(s) -> Decoders] /\ f[0] = d /\ \A j \in 1 .. Len(s) : f[j] = K!Decode(f[j - 1], s[j])
  BY <1>0 DEF Run
<1>3. h \in [0 .. Len(t) -> Decoders] /\ h[0] = f[Len(s)] /\ \A j \in 1 .. Len(t) : h[j] = K!Decode(h[j - 1], t[j])
  BY <1>0 DEF Run
<1>4. g \in [0 .. Len(s \o t) -> Decoders]
  <2>1. ASSUME NEW j \in 0 .. Len(s) + Len(t) PROVE g[j] \in Decoders
    <3>1. CASE j <= Len(s)
      BY <1>1, <1>2, <3>1
    <3>2. CASE j > Len(s)
      <4>1. j - Len(s) \in 0 .. Len(t)
        BY <1>1, <3>2
      <4> QED
        BY <1>1, <1>3, <3>2, <4>1
    <3> QED
      BY <1>1, <3>1, <3>2
  <2> QED
    BY <1>1, <2>1
<1>5. g[0] = d
  BY <1>1, <1>2
<1>6. ASSUME NEW j \in 1 .. Len(s \o t) PROVE g[j] = K!Decode(g[j - 1], (s \o t)[j])
  <2>1. CASE j <= Len(s)
    <3>1. j \in 1 .. Len(s) /\ j - 1 \in 0 .. Len(s) + Len(t) /\ j - 1 <= Len(s) /\ j \in 0 .. Len(s) + Len(t)
      BY <1>1, <2>1
    <3>2. g[j] = f[j] /\ g[j - 1] = f[j - 1] /\ (s \o t)[j] = s[j]
      BY <1>1, <2>1, <3>1
    <3> QED
      BY <1>2, <3>1, <3>2
  <2>2. CASE j > Len(s)
    <3>1. PICK k : k = j - Len(s)
      OBVIOUS
    <3>2. k \in 1 .. Len(t) /\ j \in 0 .. Len(s) + Len(t) /\ ~(j <= Len(s)) /\ j - 1 \in 0 .. Len(s) + Len(t)
      BY <1>1, <2>2, <3>1
    <3>3. g[j] = h[k] /\ (s \o t)[j] = t[k]
      BY <1>1, <3>1, <3>2
    <3>4. g[j - 1] = h[k - 1]
      <4>1. CASE k = 1
        <5>1. j - 1 = Len(s) /\ k - 1 = 0
          BY <1>1, <3>1, <3>2, <4>1
        <5>2. g[Len(s)] = f[Len(s)]
          BY <1>1
        <5> QED
          BY <1>3, <5>1, <5>2
      <4>2. CASE k # 1
        BY <1>1, <3>1, <3>2, <4>2
      <4> QED
        BY <4>1, <4>2
    <3> QED
      BY <1>3, <3>2, <3>3, <3>4
  <2> QED
    BY <1>1, <2>1, <2>2
<1>7. g[Len(s \o t)] = x
  BY <1>0, <1>1, <1>3
<1>8. Run(g, d, s \o t)
  BY <1>4, <1>5, <1>6 DEF Run
<1> HIDE DEF g
<1> QED
  BY <1>7, <1>8 DEF Leads

(* a single byte leads to what Decode makes of it *)
LEMMA LeadsOne ==
  ASSUME NEW d \in Decoders, NEW b \in Bytes
  PROVE  <<b>> \in Seq(Bytes) /\ Leads(d, <<b>>, K!Decode(d, b))
<1> DEFINE f == [j \in 0 .. 1 |-> IF j = 0 THEN d ELSE K!Decode(d, b)]
<1>1. f \in [0 .. 1 -> Decoders] /\ f[0] = d /\ f[1] = K!Decode(d, b)
  BY DecodeType
<1>2. Len(<<b>>) = 1 /\ <<b>>[1] = b /\ <<b>> \in Seq(Bytes)
  OBVIOUS
<1>3. \A j \in 1 .. 1 : f[j] = K!Decode(f[j - 1], <<b>>[j])
  BY <1>1, <1>2
<1> HIDE DEF f
<1> QED
  <2>1. Run(f, d, <<b>>)
    BY <1>1, <1>2, <1>3 DEF Run
  <2> QED
    BY <1>1, <1>2, <2>1 DEF Leads

(* and two bytes to what it makes of the second one behind the first *)
LEMMA LeadsTwo ==
  ASSUME NEW d \in Decoders, NEW b \in Bytes, NEW c \in Bytes
  PROVE  <<b, c>> \in Seq(Bytes) /\ Leads(d, <<b, c>>, K!Decode(K!Decode(d, b), c))
<1> DEFINE f == [j \in 0 .. 2 |-> IF j = 0 THEN d ELSE IF j = 1 THEN K!Decode(d, b) ELSE K!Decode(K!Decode(d, b), c)]
<1>1. f \in [0 .. 2 -> Decoders] /\ f[0] = d /\ f[1] = K!Decode(d, b) /\ f[2] = K!Decode(K!Decode(d, b), c)
  BY DecodeType
<1>2. Len(<<b, c>>) = 2 /\ <<b, c>>[1] = b /\ <<b, c>>[2] = c /\ <<b, c>> \in Seq(Bytes)
  OBVIOUS
<1> HIDE DEF f
<1>3. ASSUME NEW j \in 1 .. 2 PROVE f[j] = K!Decode(f[j - 1], <<b, c>>[j])
  <2>1. j = 1 \/ j = 2
    OBVIOUS
  <2> QED
    BY <1>1, <1>2, <2>1
<1> QED
  <2>1. Run(f, d, <<b, c>>)
    BY <1>1, <1>2, <1>3 DEF Run
  <2> QED
    BY <1>1, <1>2, <2>1 DEF Leads

(* a key that sends a byte of its own: what it does to the decoder *)
LEMMA PlainKey ==
  ASSUME NEW d \in Decoders, d.pause_bytes = 0, ~d.extended, NEW k \in DOMAIN K!Plain, NEW up \in BOOLEAN
  PROVE  LET e == K!Decode(d, K!Byte(K!Plain[k], up)) IN
         /\ K!Byte(K!Plain[k], up) \in Bytes /\ e \in Decoders /\ e.pause_bytes = 0 /\ ~e.extended
         /\ e.left_shift = IF k = "left_shift" THEN ~up ELSE d.left_shift
         /\ e.right_shift = IF k = "right_shift" THEN ~up ELSE d.right_shift
         /\ e.caps_lock = IF k = "caps" /\ ~up /\ ~d.caps_down THEN ~d.caps_lock ELSE d.caps_lock
         /\ e.caps_down = IF k = "caps" THEN ~up ELSE d.caps_down
         /\ e.num_lock = IF k = "num" /\ ~up /\ ~d.num_down THEN ~d.num_lock ELSE d.num_lock
         /\ e.num_down = IF k = "num" THEN ~up ELSE d.num_down
<1>1. PICK b : b = K!Byte(K!Plain[k], up)
  OBVIOUS
<1>2. /\ b \in Bytes /\ b.up = up /\ b.code = K!Plain[k]
      /\ K!Plain[k] = CASE k = "left_shift" -> "2A" [] k = "right_shift" -> "36" [] k = "caps" -> "3A" [] k = "num" -> "45"
                      [] k = "a" -> "1E" [] k = "one" -> "02" [] k = "keypad7" -> "47" [] k = "minus" -> "4A" [] k = "reset" -> "57"
      /\ k \in {"left_shift", "right_shift", "caps", "num", "a", "one", "keypad7", "minus", "reset"}
  <2>1. k \in {"left_shift", "right_shift", "caps", "num", "a", "one", "keypad7", "minus", "reset"}
    BY DEF K!Plain
  <2>2. K!Plain[k] = CASE k = "left_shift" -> "2A" [] k = "right_shift" -> "36" [] k = "caps" -> "3A" [] k = "num" -> "45"
                     [] k = "a" -> "1E" [] k = "one" -> "02" [] k = "keypad7" -> "47" [] k = "minus" -> "4A" [] k = "reset" -> "57"
    BY <2>1 DEF K!Plain
  <2>3. K!Plain[k] \in Codes
    BY <2>1 DEF K!Plain, Codes
  <2>4. b \in Bytes /\ b.up = up /\ b.code = K!Plain[k]
    BY <1>1, <2>3 DEF K!Byte, Bytes
  <2> QED
    BY <2>1, <2>2, <2>4
<1>3. b # K!Prefix("E1") /\ b # K!Prefix("E0")
  <2>1. b.code \notin {"E0", "E1"}
    BY <1>2
  <2> QED
    BY <2>1 DEF K!Prefix, K!Byte
<1>4. K!Decode(d, b) = K!Modifier(d, b) /\ K!Decode(d, b) \in Decoders
  BY <1>2, <1>3, DecodeIs, DecodeType
<1>5. CASE k = "left_shift"
  <2>1. K!Modifier(d, b) = [d EXCEPT !.left_shift = ~up]
    BY <1>2, <1>5 DEF K!Modifier
  <2> QED
    BY <1>1, <1>2, <1>4, <1>5, <2>1 DEF Decoders
<1>6. CASE k = "right_shift"
  <2>1. K!Modifier(d, b) = [d EXCEPT !.right_shift = ~up]
    BY <1>2, <1>6 DEF K!Modifier
  <2> QED
    BY <1>1, <1>2, <1>4, <1>6, <2>1 DEF Decoders
<1>7. CASE k = "caps"
  <2>1. PICK x \in BOOLEAN : x = (d.caps_lock # (~up /\ ~d.caps_down)) /\ x = IF ~up /\ ~d.caps_down THEN ~d.caps_lock ELSE d.caps_lock
    BY DEF Decoders
  <2>2. K!Modifier(d, b) = [d EXCEPT !.caps_lock = x, !.caps_down = ~up]
    BY <1>2, <1>7, <2>1 DEF K!Modifier, K!Toggle
  <2>3. PICK e : e = K!Decode(d, b)
    OBVIOUS
  <2>4. /\ e.pause_bytes = d.pause_bytes /\ e.extended = d.extended
        /\ e.left_shift = d.left_shift /\ e.right_shift = d.right_shift
        /\ e.num_lock = d.num_lock /\ e.num_down = d.num_down
        /\ e.caps_lock = x /\ e.caps_down = ~up
    <3>1. e = [d EXCEPT !.caps_lock = x, !.caps_down = ~up]
      BY <1>4, <2>2, <2>3
    <3> QED
      BY <3>1 DEF Decoders
  <2>5. e.caps_lock = IF k = "caps" /\ ~up /\ ~d.caps_down THEN ~d.caps_lock ELSE d.caps_lock
    BY <1>7, <2>1, <2>4
  <2> QED
    BY <1>1, <1>2, <1>4, <1>7, <2>3, <2>4, <2>5
<1>8. CASE k = "num"
  <2>1. PICK x \in BOOLEAN : x = (d.num_lock # (~up /\ ~d.num_down)) /\ x = IF ~up /\ ~d.num_down THEN ~d.num_lock ELSE d.num_lock
    BY DEF Decoders
  <2>2. K!Modifier(d, b) = [d EXCEPT !.num_lock = x, !.num_down = ~up]
    BY <1>2, <1>8, <2>1 DEF K!Modifier, K!Toggle
  <2>3. PICK e : e = K!Decode(d, b)
    OBVIOUS
  <2>4. /\ e.pause_bytes = d.pause_bytes /\ e.extended = d.extended
        /\ e.left_shift = d.left_shift /\ e.right_shift = d.right_shift
        /\ e.caps_lock = d.caps_lock /\ e.caps_down = d.caps_down
        /\ e.num_lock = x /\ e.num_down = ~up
    <3>1. e = [d EXCEPT !.num_lock = x, !.num_down = ~up]
      BY <1>4, <2>2, <2>3
    <3> QED
      BY <3>1 DEF Decoders
  <2>5. e.num_lock = IF k = "num" /\ ~up /\ ~d.num_down THEN ~d.num_lock ELSE d.num_lock
    BY <1>8, <2>1, <2>4
  <2> QED
    BY <1>1, <1>2, <1>4, <1>8, <2>3, <2>4, <2>5
<1>9. CASE k \in {"a", "one", "keypad7", "minus", "reset"}
  <2>1. K!Modifier(d, b) = d
    BY <1>2, <1>9 DEF K!Modifier
  <2> QED
    BY <1>1, <1>2, <1>4, <1>9, <2>1
<1> QED
  BY <1>2, <1>5, <1>6, <1>7, <1>8, <1>9

(* a byte behind the prefix E0 leaves no trace *)
LEMMA Prefixed ==
  ASSUME NEW d \in Decoders, d.pause_bytes = 0, ~d.extended, NEW code \in Codes \ {"E0", "E1"}, NEW up \in BOOLEAN
  PROVE  /\ K!Prefix("E0") \in Bytes /\ K!Byte(code, up) \in Bytes
         /\ K!Decode(K!Decode(d, K!Prefix("E0")), K!Byte(code, up)) = d
<1>1. PICK b : b = K!Byte(code, up)
  OBVIOUS
<1>2. K!Prefix("E0") \in Bytes /\ b \in Bytes /\ b.code = code
  <2>1. "E0" \in Codes
    BY DEF Codes
  <2>2. K!Prefix("E0") \in Bytes
    BY <2>1 DEF K!Prefix, K!Byte, Bytes
  <2> QED
    BY <1>1, <2>2 DEF K!Byte, Bytes
<1>3. PICK e : e = [d EXCEPT !.extended = TRUE]
  OBVIOUS
<1>4. K!Decode(d, K!Prefix("E0")) = e
  BY <1>2, <1>3, DecodeIs
<1>5. e \in Decoders /\ e.pause_bytes = 0 /\ e.extended
  BY <1>3 DEF Decoders
<1>6. K!Decode(e, b) = [e EXCEPT !.extended = FALSE]
  BY <1>2, <1>5, DecodeIs
<1>7. [e EXCEPT !.extended = FALSE] = d
  BY <1>3 DEF Decoders
<1> QED
  BY <1>1, <1>2, <1>4, <1>6, <1>7

(* what the Pause key sends *)
PauseBytes == <<K!Prefix("E1"), K!Byte("1D", FALSE), K!Byte("45", FALSE), K!Prefix("E1"), K!Byte("1D", TRUE), K!Byte("45", TRUE)>>

(* the Pause key leaves no trace: five bytes are dropped behind its prefix *)
LEMMA LeadsPause ==
  ASSUME NEW d \in Decoders, d.pause_bytes = 0, ~d.extended
  PROVE  PauseBytes \in Seq(Bytes) /\ Leads(d, PauseBytes, d)
<1> DEFINE f == [j \in 0 .. 6 |-> [d EXCEPT !.pause_bytes = IF j = 0 THEN 0 ELSE 6 - j]]
<1>1. /\ K!Prefix("E1") \in Bytes /\ K!Byte("1D", FALSE) \in Bytes /\ K!Byte("45", FALSE) \in Bytes
      /\ K!Byte("1D", TRUE) \in Bytes /\ K!Byte("45", TRUE) \in Bytes
  BY DEF K!Prefix, K!Byte, Bytes, Codes
<1>2. PauseBytes \in Seq(Bytes) /\ Len(PauseBytes) = 6 /\ PauseBytes[1] = K!Prefix("E1") /\ \A j \in 1 .. 6 : PauseBytes[j] \in Bytes
  <2>1. \A a, b, c, x, y, z \in Bytes :
          LET s == <<a, b, c, x, y, z>> IN s \in Seq(Bytes) /\ Len(s) = 6 /\ s[1] = a
    OBVIOUS
  <2>2. PauseBytes \in Seq(Bytes) /\ Len(PauseBytes) = 6 /\ PauseBytes[1] = K!Prefix("E1")
    BY <1>1, <2>1 DEF PauseBytes
  <2> QED
    BY <2>2, ElementOfSeq
<1>3. \A n \in 0 .. 5 : [d EXCEPT !.pause_bytes = n] \in Decoders /\ [d EXCEPT !.pause_bytes = n].pause_bytes = n
  BY DEF Decoders
<1>4. [d EXCEPT !.pause_bytes = 0] = d
  BY DEF Decoders
<1>5. f \in [0 .. 6 -> Decoders] /\ f[0] = d /\ f[6] = d
  BY <1>3, <1>4
<1>6. ASSUME NEW j \in 1 .. 6 PROVE f[j] = K!Decode(f[j - 1], PauseBytes[j])
  <2>1. CASE j = 1
    <3>1. K!Decode(d, PauseBytes[1]) = [d EXCEPT !.pause_bytes = 5, !.extended = FALSE]
      <4>1. PICK b \in Bytes : b = PauseBytes[1] /\ b = K!Prefix("E1")
        BY <1>1, <1>2
      <4>2. K!Decode(d, b) = [d EXCEPT !.pause_bytes = 5, !.extended = FALSE]
        BY <4>1, DecodeIs
      <4> QED
        BY <4>1, <4>2
    <3>2. [d EXCEPT !.pause_bytes = 5, !.extended = FALSE] = [d EXCEPT !.pause_bytes = 5]
      BY DEF Decoders
    <3> QED
      BY <1>5, <2>1, <3>1, <3>2
  <2>2. CASE j # 1
    <3>1. PICK e : e = [d EXCEPT !.pause_bytes = 7 - j]
      OBVIOUS
    <3>2. e \in Decoders /\ e.pause_bytes = 7 - j /\ 7 - j > 0
      BY <1>3, <2>2, <3>1
    <3>3. K!Decode(e, PauseBytes[j]) = [e EXCEPT !.pause_bytes = @ - 1]
      <4>1. PauseBytes[j] \in Bytes /\ e.pause_bytes > 0
        BY <1>2, <3>2
      <4> QED
        BY <3>2, <4>1, DecodeIs
    <3>4. PICK m, n : m = 7 - j /\ n = 6 - j /\ m - 1 = n
      OBVIOUS
    <3>a. e = [d EXCEPT !.pause_bytes = m] /\ e.pause_bytes - 1 = n
      BY <3>1, <3>2, <3>4
    <3>b. [e EXCEPT !.pause_bytes = n] = [d EXCEPT !.pause_bytes = n]
      BY <3>a DEF Decoders
    <3>5. f[j] = [d EXCEPT !.pause_bytes = 6 - j] /\ f[j - 1] = e
      BY <2>2, <3>1
    <3> QED
      BY <3>3, <3>4, <3>a, <3>b, <3>5
  <2> QED
    BY <2>1, <2>2
<1> HIDE DEF f
<1> QED
  <2>1. Run(f, d, PauseBytes)
    BY <1>2, <1>5, <1>6 DEF Run
  <2> QED
    BY <1>2, <1>5, <2>1 DEF Leads

(* what a key sends has the effect of its one byte, or none *)
LEMMA LeadsKey ==
  ASSUME NEW d \in Decoders, d.pause_bytes = 0, ~d.extended, NEW k \in K!Keys, NEW up \in BOOLEAN, NEW t \in K!Sent(k, up)
  PROVE  t \in Seq(Bytes) /\ Leads(d, t, IF k \in DOMAIN K!Plain THEN K!Decode(d, K!Byte(K!Plain[k], up)) ELSE d)
<1>1. /\ DOMAIN K!Plain = {"left_shift", "right_shift", "caps", "num", "a", "one", "keypad7", "minus", "reset"}
      /\ DOMAIN K!Extended = {"enter", "slash", "up"}
  BY DEF K!Plain, K!Extended
<1>2. CASE k \in DOMAIN K!Plain
  <2>1. t = <<K!Byte(K!Plain[k], up)>> /\ K!Byte(K!Plain[k], up) \in Bytes
    <3>1. k \notin DOMAIN K!Extended /\ k # "pause"
      BY <1>1, <1>2
    <3>2. t = <<K!Byte(K!Plain[k], up)>>
      BY <1>2, <3>1 DEF K!Sent
    <3>3. K!Byte(K!Plain[k], up) \in Bytes
      BY <1>2, PlainKey
    <3> QED
      BY <3>2, <3>3
  <2>2. PICK b : b = K!Byte(K!Plain[k], up)
    OBVIOUS
  <2> QED
    BY <1>2, <2>1, <2>2, LeadsOne
<1>3. CASE k \in DOMAIN K!Extended
  <2> DEFINE code == <<K!Prefix("E0"), K!Byte(K!Extended[k], up)>>
             shift == <<K!Prefix("E0"), K!Byte("2A", up)>>
  <2>1. k \notin DOMAIN K!Plain
    BY <1>1, <1>3
  <2>2. t \in {code, code \o shift, shift \o code}
    BY <1>1, <1>3, <2>1 DEF K!Sent
  <2>3. K!Extended[k] \in Codes \ {"E0", "E1"} /\ "2A" \in Codes \ {"E0", "E1"}
    BY <1>1, <1>3 DEF K!Extended, Codes
  <2>4. code \in Seq(Bytes) /\ Leads(d, code, d)
    BY <2>3, Prefixed, LeadsTwo
  <2>5. shift \in Seq(Bytes) /\ Leads(d, shift, d)
    BY <2>3, Prefixed, LeadsTwo
  <2> HIDE DEF code, shift
  <2>6. code \o shift \in Seq(Bytes) /\ Leads(d, code \o shift, d)
    BY <2>4, <2>5, LeadsOn, ConcatProperties
  <2>7. shift \o code \in Seq(Bytes) /\ Leads(d, shift \o code, d)
    BY <2>4, <2>5, LeadsOn, ConcatProperties
  <2> QED
    BY <2>1, <2>2, <2>4, <2>6, <2>7
<1>4. CASE k = "pause"
  <2>1. k \notin DOMAIN K!Plain /\ k \notin DOMAIN K!Extended
    BY <1>1, <1>4
  <2>2. CASE up
    <3>1. t = << >> /\ t \in Seq(Bytes) /\ Len(t) = 0
      BY <1>4, <2>1, <2>2 DEF K!Sent
    <3>2. Run([j \in 0 .. 0 |-> d], d, t)
      BY <3>1 DEF Run
    <3> QED
      BY <2>1, <3>1, <3>2 DEF Leads
  <2>3. CASE ~up
    <3>1. t = PauseBytes
      BY <1>4, <2>1, <2>3 DEF K!Sent, PauseBytes
    <3>2. t \in Seq(Bytes) /\ Leads(d, t, d)
      BY <3>1, LeadsPause
    <3> QED
      BY <2>1, <3>2
  <2> QED
    BY <2>2, <2>3
<1> QED
  BY <1>2, <1>3, <1>4 DEF K!Keys

(* a key goes down, repeats or goes up, with other bytes still under way *)
LEMMA KeyFollows ==
  ASSUME NEW k \in K!Keys, K!KeyMoves(k), DecoderInv
  PROVE  DecoderInv'
<1>1. UNCHANGED <<stage, decoder, power>> /\ power = "on" /\ early' = (early \/ stage # "on")
  BY DEF K!KeyMoves
<1>2. PICK up, t :
        /\ up \in BOOLEAN /\ t \in K!Sent(k, up) /\ line' = line \o t
        /\ \/ ~up /\ k \notin held /\ held' = held \cup {k} /\ caps_on' = (caps_on # (k = "caps")) /\ num_on' = (num_on # (k = "num"))
           \/ up /\ k \in held /\ held' = held \ {k} /\ caps_on' = caps_on /\ num_on' = num_on
           \/ ~up /\ k \in held /\ held' = held /\ caps_on' = caps_on /\ num_on' = num_on
  <2> DEFINE Moved(up, t) ==
        /\ up \in BOOLEAN /\ t \in K!Sent(k, up) /\ line' = line \o t
        /\ \/ ~up /\ k \notin held /\ held' = held \cup {k} /\ caps_on' = (caps_on # (k = "caps")) /\ num_on' = (num_on # (k = "num"))
           \/ up /\ k \in held /\ held' = held \ {k} /\ caps_on' = caps_on /\ num_on' = num_on
           \/ ~up /\ k \in held /\ held' = held /\ caps_on' = caps_on /\ num_on' = num_on
  <2>1. (\E t : Moved(FALSE, t)) \/ (\E t : Moved(TRUE, t))
    BY Zenon DEF K!KeyMoves
  <2> QED
    BY <2>1, Zenon
<1>3. t \in Seq(Bytes)
  <2>1. PICK d : d = [left_shift |-> FALSE, right_shift |-> FALSE, caps_lock |-> FALSE, caps_down |-> FALSE,
                      num_lock |-> FALSE, num_down |-> FALSE, extended |-> FALSE, pause_bytes |-> 0]
    OBVIOUS
  <2>2. d \in Decoders /\ d.pause_bytes = 0 /\ ~d.extended
    BY <2>1 DEF Decoders
  <2> QED
    BY <1>2, <2>2, LeadsKey
<1>4. line' \in Seq(Bytes)
  BY <1>2, <1>3, ConcatProperties DEF DecoderInv
<1>5. held' \subseteq K!Keys /\ caps_on' \in BOOLEAN /\ num_on' \in BOOLEAN
  BY <1>2 DEF DecoderInv
<1>6. ASSUME ~early, stage = "on" PROVE \E e : Leads(decoder, line', e) /\ Follows(e)'
  <2>1. PICK d : Leads(decoder, line, d) /\ Follows(d)
    BY <1>1, <1>6 DEF DecoderInv
  <2>2. d \in Decoders
    <3>1. PICK f : Run(f, decoder, line) /\ f[Len(line)] = d
      BY <2>1 DEF Leads
    <3>2. Len(line) \in 0 .. Len(line)
      BY LenProperties DEF DecoderInv
    <3> QED
      BY <3>1, <3>2 DEF Run
  <2>3. PICK e : e = IF k \in DOMAIN K!Plain THEN K!Decode(d, K!Byte(K!Plain[k], up)) ELSE d
    OBVIOUS
  <2>4. d.pause_bytes = 0 /\ ~d.extended
    BY <2>1 DEF Follows
  <2>5. Leads(d, t, e)
    BY <1>2, <2>2, <2>3, <2>4, LeadsKey
  <2>6. Leads(decoder, line', e)
    BY <1>2, <1>3, <2>1, <2>5, LeadsOn DEF DecoderInv
  <2>7. /\ d.left_shift = ("left_shift" \in held) /\ d.right_shift = ("right_shift" \in held)
        /\ d.caps_lock = caps_on /\ d.caps_down = ("caps" \in held)
        /\ d.num_lock = num_on /\ d.num_down = ("num" \in held)
    BY <2>1 DEF Follows
  <2>8. CASE k \notin DOMAIN K!Plain
    <3>1. k \notin {"left_shift", "right_shift", "caps", "num"}
      BY <2>8 DEF K!Plain
    <3>2. /\ "left_shift" \in held' <=> "left_shift" \in held
          /\ "right_shift" \in held' <=> "right_shift" \in held
          /\ "caps" \in held' <=> "caps" \in held
          /\ "num" \in held' <=> "num" \in held
          /\ caps_on' = caps_on /\ num_on' = num_on
      BY <1>2, <3>1 DEF DecoderInv
    <3> QED
      BY <2>3, <2>4, <2>6, <2>7, <2>8, <3>2 DEF Follows
  <2>9. CASE k \in DOMAIN K!Plain
    <3>1. /\ e \in Decoders /\ e.pause_bytes = 0 /\ ~e.extended
          /\ e.left_shift = IF k = "left_shift" THEN ~up ELSE d.left_shift
          /\ e.right_shift = IF k = "right_shift" THEN ~up ELSE d.right_shift
          /\ e.caps_lock = IF k = "caps" /\ ~up /\ ~d.caps_down THEN ~d.caps_lock ELSE d.caps_lock
          /\ e.caps_down = IF k = "caps" THEN ~up ELSE d.caps_down
          /\ e.num_lock = IF k = "num" /\ ~up /\ ~d.num_down THEN ~d.num_lock ELSE d.num_lock
          /\ e.num_down = IF k = "num" THEN ~up ELSE d.num_down
      BY <1>2, <2>2, <2>3, <2>4, <2>9, PlainKey
    <3>2. ~up <=> k \in held'
      BY <1>2
    <3>3. \A x : x # k => (x \in held' <=> x \in held)
      BY <1>2
    <3>4. e.left_shift = ("left_shift" \in held')
      BY <2>7, <3>1, <3>2, <3>3
    <3>5. e.right_shift = ("right_shift" \in held')
      BY <2>7, <3>1, <3>2, <3>3
    <3>6. e.caps_down = ("caps" \in held')
      BY <2>7, <3>1, <3>2, <3>3
    <3>7. e.num_down = ("num" \in held')
      BY <2>7, <3>1, <3>2, <3>3
    <3>8. e.caps_lock = caps_on'
      BY <1>2, <2>2, <2>7, <3>1 DEF DecoderInv, Decoders
    <3>9. e.num_lock = num_on'
      BY <1>2, <2>2, <2>7, <3>1 DEF DecoderInv, Decoders
    <3> QED
      BY <2>6, <3>1, <3>4, <3>5, <3>6, <3>7, <3>8, <3>9 DEF Follows
  <2> QED
    BY <2>8, <2>9
<1> QED
  BY <1>1, <1>4, <1>5, <1>6 DEF DecoderInv

(* keyboard_handler takes a byte, finds none or does not return *)
LEMMA HandlerFollows ==
  ASSUME K!keyboard_handler, DecoderInv
  PROVE  DecoderInv'
<1>1. UNCHANGED <<stage, held, caps_on, num_on, early>> /\ stage = "on" /\ power = "on"
  BY DEF K!keyboard_handler
<1>2. \A e : Follows(e)' <=> Follows(e)
  BY <1>1 DEF Follows
<1>3. CASE power' = "fault" /\ UNCHANGED <<line, decoder>>
  BY <1>1, <1>3 DEF DecoderInv
<1>4. CASE K!no_byte
  <2>1. UNCHANGED <<line, decoder, power>>
    BY <1>4 DEF K!no_byte
  <2> QED
    BY <1>1, <1>2, <2>1 DEF DecoderInv
<1>5. CASE K!reset
  <2>1. line # << >> /\ line' = Tail(line) /\ power' = "off" /\ UNCHANGED decoder
    BY <1>5 DEF K!reset
  <2>2. line' \in Seq(Bytes)
    BY <2>1, HeadTailProperties DEF DecoderInv
  <2> QED
    BY <1>1, <2>1, <2>2 DEF DecoderInv
<1>6. CASE K!take_byte
  <2>1. line # << >> /\ line' = Tail(line) /\ decoder' = K!Decode(decoder, Head(line)) /\ UNCHANGED power
    BY <1>6 DEF K!take_byte
  <2>2. line \in Seq(Bytes) /\ Head(line) \in Bytes /\ line' \in Seq(Bytes)
    BY <2>1, HeadTailProperties DEF DecoderInv
  <2>3. decoder' \in Decoders
    BY <2>1, <2>2, DecodeType DEF DecoderInv
  <2>4. ASSUME ~early PROVE \E e : Leads(decoder', line', e) /\ Follows(e)'
    <3>1. PICK e : Leads(decoder, line, e) /\ Follows(e)
      BY <1>1, <2>4 DEF DecoderInv
    <3>2. Leads(decoder', line', e)
      BY <2>1, <2>2, <3>1, LeadsTail
    <3> QED
      BY <1>2, <3>1, <3>2
  <2> QED
    BY <1>1, <2>1, <2>2, <2>3, <2>4 DEF DecoderInv
<1> QED
  BY <1>3, <1>4, <1>5, <1>6 DEF K!keyboard_handler

(* the keyboard is started: nothing is under way when its interrupt is enabled *)
LEMMA StartFollows ==
  ASSUME K!init_fails \/ K!drain \/ K!start_scanning \/ K!acknowledged, DecoderInv
  PROVE  DecoderInv'
<1>1. UNCHANGED <<held, caps_on, num_on, early, decoder, power>>
  BY DEF K!init_fails, K!drain, K!start_scanning, K!acknowledged, K!keys
<1>2. \A e : Follows(e)' <=> Follows(e)
  BY <1>1 DEF Follows
<1>3. K!ACK \in Bytes
  BY DEF K!ACK, K!Byte, Bytes, Codes
<1>4. CASE K!init_fails
  BY <1>1, <1>4 DEF DecoderInv, K!init_fails, K!keys
<1>5. CASE K!drain
  <2>1. line' = << >> /\ line' \in Seq(Bytes) /\ stage' = "config" /\ stage = "disable"
    BY <1>5 DEF K!drain
  <2> QED
    BY <1>1, <1>2, <2>1 DEF DecoderInv
<1>6. CASE K!start_scanning
  <2>1. line' = Append(line, K!ACK) /\ line' \in Seq(Bytes) /\ stage' = "ack" /\ stage = "config"
    BY <1>3, <1>6, AppendProperties DEF K!start_scanning, DecoderInv
  <2>2. line = << >> => line' = <<K!ACK>>
    BY <2>1
  <2> QED
    BY <1>1, <1>2, <2>1, <2>2 DEF DecoderInv
<1>7. CASE K!acknowledged
  <2>1. line' = Tail(line) /\ line' \in Seq(Bytes) /\ stage' \in {"on", "failed"} /\ stage = "ack"
    BY <1>7, HeadTailProperties DEF K!acknowledged, DecoderInv
  <2>2. line = <<K!ACK>> => line' = << >>
    BY <2>1
  <2>3. Leads(decoder, << >>, decoder)
    <3>1. Run([j \in 0 .. 0 |-> decoder], decoder, << >>)
      BY DEF Run, DecoderInv
    <3> QED
      BY <3>1 DEF Leads
  <2>4. ~early => line' = << >> /\ Follows(decoder)
    BY <2>1, <2>2 DEF DecoderInv
  <2> QED
    BY <1>1, <1>2, <2>1, <2>3, <2>4 DEF DecoderInv
<1> QED
  BY <1>4, <1>5, <1>6, <1>7

(* the decoder follows the keys in every step *)
LEMMA NextFollows == DecoderInv /\ [K!Next]_(K!vars) => DecoderInv'
<1> SUFFICES ASSUME DecoderInv, [K!Next]_(K!vars) PROVE DecoderInv'
  OBVIOUS
<1>1. CASE \E k \in K!Keys : K!KeyMoves(k)
  BY <1>1, KeyFollows
<1>2. CASE K!init_fails \/ K!drain \/ K!start_scanning \/ K!acknowledged
  BY <1>2, StartFollows
<1>3. CASE K!keyboard_handler
  BY <1>3, HandlerFollows
<1>4. CASE K!main_loop \/ UNCHANGED K!vars
  <2>1. UNCHANGED <<stage, line, held, caps_on, num_on, early, decoder, power>>
    BY <1>4 DEF K!main_loop, K!vars, K!keys
  <2>2. \A e : Follows(e)' <=> Follows(e)
    BY <2>1 DEF Follows
  <2> QED
    BY <2>1, <2>2 DEF DecoderInv
<1> QED
  BY <1>1, <1>2, <1>3, <1>4 DEF K!Next

(* at first no key is down and no byte under way *)
LEMMA InitFollows == K!Init => DecoderInv
<1> SUFFICES ASSUME K!Init PROVE DecoderInv
  OBVIOUS
<1>1. PICK d : d = [left_shift |-> FALSE, right_shift |-> FALSE, caps_lock |-> FALSE, caps_down |-> FALSE,
                   num_lock |-> FALSE, num_down |-> FALSE, extended |-> FALSE, pause_bytes |-> 0]
  OBVIOUS
<1>2. d \in Decoders
  BY <1>1 DEF Decoders
<1>3. /\ decoder = d /\ stage = "disable" /\ line = << >> /\ held = {} /\ caps_on = FALSE /\ num_on = FALSE /\ early = FALSE
  BY <1>1, Zenon DEF K!Init
<1>4. Follows(d)
  <2>1. /\ d.left_shift = FALSE /\ d.right_shift = FALSE /\ d.caps_lock = FALSE /\ d.caps_down = FALSE
        /\ d.num_lock = FALSE /\ d.num_down = FALSE /\ d.extended = FALSE /\ d.pause_bytes = 0
    BY <1>1
  <2>2. \A x : (x \in held) = FALSE
    BY <1>3
  <2> QED
    BY <1>3, <2>1, <2>2, Zenon DEF Follows
<1>5. line \in Seq(Bytes)
  BY <1>3
<1> QED
  BY <1>2, <1>3, <1>4, <1>5 DEF DecoderInv

(* what the invariant tells when no byte is under way *)
LEMMA Modifiers == DecoderInv => K!ModifiersFollowKeys
<1> SUFFICES ASSUME DecoderInv, stage = "on", power = "on", line = << >>, ~early PROVE Follows(decoder)
  BY DEF K!ModifiersFollowKeys, Follows
<1>1. PICK e, f : Run(f, decoder, line) /\ f[Len(line)] = e /\ Follows(e)
  BY DEF DecoderInv, Leads
<1>2. Len(line) = 0
  OBVIOUS
<1> QED
  BY <1>1, <1>2 DEF Run

(* a character that comes while the loop prints leaves the count ahead of the loop's copy *)
LEMMA HandlerScreen == RingSize \in Nat /\ ScreenInv /\ K!keyboard_handler => ScreenInv'
<1> SUFFICES ASSUME RingSize \in Nat, ScreenInv, K!keyboard_handler PROVE ScreenInv'
  OBVIOUS
<1>1. UNCHANGED <<old_count, place, screen>> /\ (set' = TRUE \/ set' = set)
  BY DEF K!keyboard_handler, K!main, K!rings
<1>2. CASE UNCHANGED <<ascii, irq_count, loop>>
  BY <1>1, <1>2 DEF ScreenInv
<1>3. CASE set' = TRUE /\ K!take_byte
  <2>1. irq_count' = irq_count + 1 /\ (ascii' = ascii \/ \E c : ascii' = [ascii EXCEPT ![ascii_top] = c])
    BY <1>3 DEF K!take_byte
  <2>2. ascii' = [j \in 0 .. RingSize - 1 |-> ascii'[j]]
    BY <2>1 DEF ScreenInv
  <2>3. irq_count' \in Nat /\ old_count' < irq_count'
    BY <1>1, <2>1 DEF ScreenInv
  <2>4. loop' \in {"before", "fresh"} /\ (loop' = "before" => loop = "before")
    BY <1>3 DEF K!take_byte, ScreenInv
  <2> QED
    BY <1>1, <1>3, <2>2, <2>3, <2>4 DEF ScreenInv
<1> QED
  BY <1>2, <1>3 DEF K!keyboard_handler, K!rings, K!no_byte, K!reset

(* the loop starts with nothing to print, notices a byte, and prints a character *)
LEMMA LoopScreen == RingSize \in Nat /\ ScreenInv /\ K!main_loop => ScreenInv'
<1> SUFFICES ASSUME RingSize \in Nat, ScreenInv, K!main_loop PROVE ScreenInv'
  OBVIOUS
<1>1. UNCHANGED <<ascii, irq_count, set>>
  BY DEF K!main_loop, K!rings
<1>2. CASE K!start_loop
  <2>1. loop = "before" /\ loop' = "started" /\ old_count' = irq_count /\ UNCHANGED <<place, screen>>
    BY <1>2 DEF K!start_loop
  <2> QED
    BY <1>1, <2>1 DEF ScreenInv
<1>3. CASE K!notice
  <2>1. loop # "before" /\ irq_count > old_count /\ old_count' = irq_count /\ place' = 0 /\ UNCHANGED <<loop, screen>>
    BY <1>3 DEF K!notice
  <2> QED
    BY <1>1, <2>1 DEF ScreenInv
<1>4. CASE K!print_characters
  <2>1. /\ place < RingSize /\ screen' = [screen EXCEPT ![place] = ascii[place]] /\ place' = place + 1
        /\ UNCHANGED <<loop, old_count>>
    BY <1>4 DEF K!print_characters
  <2>2. screen' = [j \in 0 .. RingSize - 1 |-> screen'[j]]
    BY <2>1 DEF ScreenInv
  <2>3. ASSUME loop = "fresh", old_count = irq_count, NEW j \in 0 .. place PROVE screen'[j] = ascii[j]
    <3>1. place \in 0 .. RingSize - 1 /\ place - 1 \in Int /\ (j = place \/ j \in 0 .. place - 1)
      BY <2>1 DEF ScreenInv
    <3>2. screen'[place] = ascii[place] /\ \A m \in 0 .. RingSize - 1 : m # place => screen'[m] = screen[m]
      BY <2>1, <3>1 DEF ScreenInv
    <3>3. CASE j = place
      BY <3>2, <3>3
    <3>4. CASE j \in 0 .. place - 1
      <4>1. j \in 0 .. RingSize - 1 /\ j # place
        BY <3>1, <3>4
      <4>2. screen[j] = ascii[j]
        BY <2>3, <3>4 DEF ScreenInv
      <4> QED
        BY <3>2, <4>1, <4>2
    <3> QED
      BY <3>1, <3>3, <3>4
  <2>4. place' \in 0 .. RingSize /\ 0 .. place' - 1 = 0 .. place /\ loop = "fresh" /\ irq_count > 0
    BY <2>1 DEF ScreenInv
  <2> QED
    BY <1>1, <2>1, <2>2, <2>3, <2>4 DEF ScreenInv
<1> QED
  BY <1>2, <1>3, <1>4 DEF K!main_loop

(* no other step touches counts, characters or screen *)
LEMMA NextScreen == RingSize \in Nat /\ ScreenInv /\ [K!Next]_(K!vars) => ScreenInv'
<1> SUFFICES ASSUME RingSize \in Nat, ScreenInv, [K!Next]_(K!vars) PROVE ScreenInv'
  OBVIOUS
<1>1. CASE UNCHANGED <<set, ascii, irq_count, loop, old_count, place, screen>>
  BY <1>1 DEF ScreenInv
<1> QED
  BY <1>1, HandlerScreen, LoopScreen
  DEF K!Next, K!KeyMoves, K!init_fails, K!drain, K!start_scanning, K!acknowledged, K!rings, K!main, K!vars

(* at first there is nothing to print *)
LEMMA InitScreen == RingSize \in Nat /\ K!Init => ScreenInv
<1> SUFFICES ASSUME RingSize \in Nat, K!Init PROVE ScreenInv
  OBVIOUS
<1>1. ascii = [j \in 0 .. RingSize - 1 |-> K!Garbage] /\ screen = [j \in 0 .. RingSize - 1 |-> ""]
  BY Zenon DEF K!Init
<1>2. place = RingSize /\ loop = "before" /\ old_count = 0 /\ irq_count = 0
  BY Zenon DEF K!Init
<1>3. ascii = [j \in 0 .. RingSize - 1 |-> ascii[j]] /\ screen = [j \in 0 .. RingSize - 1 |-> screen[j]]
  BY <1>1
<1>4. old_count \in Nat /\ irq_count \in Nat /\ old_count <= irq_count /\ ~(irq_count > 0)
  BY ONLY <1>2
<1>5. place \in 0 .. RingSize /\ ~(place < RingSize)
  BY ONLY <1>2, RingSize \in Nat
<1>6. loop # "started" /\ loop # "fresh"
  BY <1>2
<1> QED
  BY <1>2, <1>3, <1>4, <1>5, <1>6, Zenon DEF ScreenInv

(* what the invariant tells when the loop rests *)
LEMMA Screens == RingSize \in Nat /\ ScreenInv => K!ScreenCurrent
<1> SUFFICES ASSUME RingSize \in Nat, ScreenInv PROVE K!ScreenCurrent
  OBVIOUS
<1>1. place < RingSize => set
  BY DEF ScreenInv
<1>2. ASSUME loop = "fresh", place = RingSize, old_count = irq_count PROVE screen = ascii
  <2>1. \A j \in 0 .. RingSize - 1 : screen[j] = ascii[j]
    BY <1>2 DEF ScreenInv
  <2> QED
    BY <2>1 DEF ScreenInv
<1> QED
  BY <1>1, <1>2 DEF K!ScreenCurrent

-----------------------------------------------------------------------------
(* a behaviour of the keyboard keeps both invariants *)
LEMMA KeyboardInvariance == MCSpec => [](part = "Keyboard" => DecoderInv /\ ScreenInv)
<1>1. MCInit => (part = "Keyboard" => DecoderInv /\ ScreenInv)
  BY KeyboardAssumption, InitFollows, InitScreen DEF MCInit
<1>2. (part = "Keyboard" => DecoderInv /\ ScreenInv) /\ [MCNext]_allVars => (part = "Keyboard" => DecoderInv /\ ScreenInv)'
  <2> SUFFICES ASSUME part = "Keyboard" => DecoderInv /\ ScreenInv, [MCNext]_allVars, part' = "Keyboard"
               PROVE DecoderInv' /\ ScreenInv'
    OBVIOUS
  <2>1. CASE MCNext
    <3>1. part = "Keyboard" /\ K!Next
      BY <2>1 DEF MCNext
    <3> QED
      BY <3>1, KeyboardAssumption, NextFollows, NextScreen
  <2>2. CASE UNCHANGED allVars
    <3>1. UNCHANGED K!vars
      BY <2>2 DEF allVars, KVars, K!vars, K!keys, K!rings, K!main
    <3> QED
      BY <2>2, <3>1, KeyboardAssumption, NextFollows, NextScreen DEF allVars
  <2> QED
    BY <2>1, <2>2
<1> QED
  BY <1>1, <1>2, PTL DEF MCSpec

(* Between keys the decoder knows which modifiers are down, and the main loop, when it rests, has printed *)
(* the last characters, wherever the interrupts came, once a byte came after the loop had started         *)
(* (scancode_to_ascii, keyboard_handler, kernel_main).                                                    *)
THEOREM KeyboardFollowsHolds == MCSpec => []KeyboardFollows
<1>1. (part = "Keyboard" => DecoderInv /\ ScreenInv) => KeyboardFollows
  BY KeyboardAssumption, Modifiers, Screens DEF KeyboardFollows
<1> QED
  BY <1>1, KeyboardInvariance, PTL

-----------------------------------------------------------------------------
(* The lists of capabilities.  A search visits a place of its own in each round until it comes *)
(* round a circle; from then on it meets only places it has seen.                              *)

(* the visited places S of a search: none has the identifier, and the list leads from *)
(* them to one another, to the pointer or to the end                                  *)
Visited(S, l, id, pointer) ==
  /\ \A p \in S : l.at[p] # None /\ l.at[p][1] # id
  /\ l.first \in S \cup {0, pointer}
  /\ \A p \in S : l.at[p][2] \in S \cup {0, pointer}

(* a search at work; each visit was of another place until it came round *)
Search ==
  /\ saved.list \in P!Lists({None}) /\ saved.id \in Ids /\ saved.pointer \in 0 .. Places /\ saved.visited \in Nat
  /\ saved = [list |-> saved.list, id |-> saved.id, pointer |-> saved.pointer, visited |-> saved.visited]
  /\ saved.pointer # 0 => saved.pointer \in P!Reached(saved.list)
  /\ \E S \in SUBSET (1 .. Places) :
       /\ Visited(S, saved.list, saved.id, saved.pointer)
       /\ saved.pointer \notin S \cup {0} => Cardinality(S) = saved.visited

SearchInv ==
  /\ list \in P!Lists({None}) /\ ext \in P!Lists({None})
  /\ pc \in {"decode_off", "ones", "ones_high", "read_size", "restore_high", "restore_low", "restore_command"} =>
       "found" \in DOMAIN saved /\ "place" \notin DOMAIN saved.found
  /\ pc = "walk" => Search
  /\ P!CapabilityFound

(* the lists of a function *)
LEMMA ListType ==
  ASSUME NEW l \in P!Lists({None}), NEW p \in 1 .. Places, l.at[p] # None
  PROVE  l.at[p][2] \in 0 .. Places
<1>1. l.at[p] \in (Ids \X (0 .. Places)) \cup {None}
  BY DEF P!Lists
<1>2. l.at[p] \in Ids \X (0 .. Places)
  BY <1>1
<1> QED
  BY <1>2

(* a closed set without the identifier: the list leads to none *)
LEMMA NotFound ==
  ASSUME NEW l, NEW id, NEW S \in SUBSET (1 .. Places), P!Closed(l, S),
         \A p \in S : l.at[p] = None \/ l.at[p][1] # id
  PROVE  {p \in P!Reached(l) : l.at[p] # None /\ l.at[p][1] = id} = {}
<1>1. P!Reached(l) \subseteq S
  BY DEF P!Reached
<1> QED
  BY <1>1

(* the list leads to its first place, and from a place to the next *)
LEMMA Leading ==
  ASSUME NEW l \in P!Lists({None})
  PROVE  /\ l.first # 0 => l.first \in P!Reached(l)
         /\ \A p \in P!Reached(l) : l.at[p] # None /\ l.at[p][2] # 0 => l.at[p][2] \in P!Reached(l)
<1>1. l.first \in 0 .. Places
  BY DEF P!Lists
<1>2. l.first # 0 => l.first \in 1 .. Places
  BY <1>1
<1>3. l.first # 0 => l.first \in P!Reached(l)
  BY <1>2 DEF P!Reached, P!Closed
<1>4. ASSUME NEW p \in P!Reached(l), l.at[p] # None, l.at[p][2] # 0 PROVE l.at[p][2] \in P!Reached(l)
  <2>1. p \in 1 .. Places
    BY DEF P!Reached
  <2>2. l.at[p][2] \in 0 .. Places
    BY <1>4, <2>1, ListType
  <2>3. l.at[p][2] \in 1 .. Places
    BY <1>4, <2>2
  <2>4. ASSUME NEW S \in SUBSET (1 .. Places), P!Closed(l, S) PROVE l.at[p][2] \in S
    <3>1. p \in S
      BY <2>4 DEF P!Reached
    <3> QED
      BY <1>4, <2>4, <3>1 DEF P!Closed
  <2> QED
    BY <2>3, <2>4 DEF P!Reached
<1> QED
  BY <1>3, <1>4

(* an answer of a search *)
LEMMA Answered ==
  ASSUME NEW l, NEW id, NEW n,
         LET places == {p \in P!Reached(l) : l.at[p] # None /\ l.at[p][1] = id}
         IN IF places = {} THEN n = 0 ELSE n \in places,
         result' = [list |-> l, id |-> id, place |-> n]
  PROVE  P!CapabilityFound'
<1>1. result'.list = l /\ result'.id = id /\ result'.place = n
  OBVIOUS
<1> QED
  BY <1>1 DEF P!CapabilityFound

(* one round of a search *)
LEMMA VisitFinds ==
  ASSUME Places \in Nat, SearchInv, P!visit
  PROVE  SearchInv'
<1> DEFINE l == saved.list
           id == saved.id
           q == saved.pointer
           here == l.at[q]
<1>1. /\ l \in P!Lists({None}) /\ id \in Ids /\ q \in 0 .. Places /\ saved.visited \in Nat
      /\ saved = [list |-> l, id |-> id, pointer |-> q, visited |-> saved.visited]
      /\ q # 0 => q \in P!Reached(l)
      /\ pc = "walk" /\ UNCHANGED <<list, ext>>
  BY DEF SearchInv, Search, P!visit, P!given
<1>2. PICK S \in SUBSET (1 .. Places) :
        /\ Visited(S, l, id, q)
        /\ q \notin S \cup {0} => Cardinality(S) = saved.visited
  BY DEF SearchInv, Search, P!visit
<1>3. CASE result' = [list |-> l, id |-> id, place |-> 0] /\ pc' = "idle" /\ (q = 0 \/ saved.visited = Places)
  <2>1. q \in S \cup {0}
    <3>1. SUFFICES ASSUME q \notin S \cup {0}, saved.visited = Places PROVE FALSE
      BY <1>3
    <3>2. IsFiniteSet(1 .. Places) /\ Cardinality(1 .. Places) = Places
      BY FS_Interval
    <3>3. Cardinality(S) = Places
      BY <1>2, <3>1
    <3>4. S = 1 .. Places
      BY <3>2, <3>3, FS_Subset
    <3> QED
      BY <1>1, <3>1, <3>4
  <2>2. P!Closed(l, S)
    BY <1>2, <2>1 DEF P!Closed, Visited
  <2>a. \A p \in S : l.at[p] = None \/ l.at[p][1] # id
    BY <1>2 DEF Visited
  <2> HIDE DEF l, id, q, here
  <2>3. {p \in P!Reached(l) : l.at[p] # None /\ l.at[p][1] = id} = {}
    BY <2>2, <2>a, NotFound
  <2>4. P!CapabilityFound'
    BY <1>3, <2>3, Answered
  <2> QED
    BY <1>1, <1>3, <2>4 DEF SearchInv
<1>4. CASE result' = [list |-> l, id |-> id, place |-> 0] /\ pc' = "idle" /\ q # 0 /\ (here = None \/ (here[1] # id /\ here[2] = q))
  <2>1. S \cup {q} \in SUBSET (1 .. Places)
    BY <1>1, <1>4
  <2>2. P!Closed(l, S \cup {q})
    BY <1>2, <1>4 DEF P!Closed, Visited
  <2>3. \A p \in S \cup {q} : l.at[p] = None \/ l.at[p][1] # id
    BY <1>2, <1>4 DEF Visited
  <2>4. {p \in P!Reached(l) : l.at[p] # None /\ l.at[p][1] = id} = {}
    BY <2>1, <2>2, <2>3, NotFound
  <2>5. P!CapabilityFound'
    BY <1>4, <2>4, Answered
  <2> QED
    BY <1>1, <1>4, <2>5 DEF SearchInv
<1>5. CASE result' = [list |-> l, id |-> id, place |-> q] /\ pc' = "idle" /\ q # 0 /\ here # None /\ here[1] = id
  <2>1. q \in {p \in P!Reached(l) : l.at[p] # None /\ l.at[p][1] = id}
    BY <1>1, <1>5
  <2>2. P!CapabilityFound'
    BY <1>5, <2>1, Answered
  <2> QED
    BY <1>1, <1>5, <2>2 DEF SearchInv
<1>6. CASE /\ q # 0 /\ here # None /\ here[1] # id /\ UNCHANGED <<pc, result>>
           /\ saved' = [saved EXCEPT !.pointer = here[2], !.visited = @ + 1]
  <2>1. /\ saved' = [list |-> l, id |-> id, pointer |-> here[2], visited |-> saved.visited + 1]
        /\ saved'.list = l /\ saved'.id = id /\ saved'.pointer = here[2] /\ saved'.visited = saved.visited + 1
    BY <1>1, <1>6
  <2>2. q \in 1 .. Places
    BY <1>1, <1>6
  <2>3. here[2] \in 0 .. Places
    BY <1>1, <1>6, <2>2, ListType
  <2>4. here[2] # 0 => here[2] \in P!Reached(l)
    BY <1>1, <1>6, Leading
  <2>5. S \cup {q} \in SUBSET (1 .. Places) /\ Visited(S \cup {q}, l, id, here[2])
    BY <1>2, <1>6, <2>2 DEF Visited
  <2>6. here[2] \notin S \cup {q} \cup {0} => Cardinality(S \cup {q}) = saved.visited + 1
    <3>1. CASE q \in S
      <4>1. here[2] \in S \cup {0, q}
        BY <1>2, <3>1 DEF Visited
      <4> QED
        BY <4>1
    <3>2. CASE q \notin S
      <4>1. IsFiniteSet(S)
        <5>1. IsFiniteSet(1 .. Places)
          BY FS_Interval
        <5> QED
          BY <5>1, FS_Subset
      <4>2. Cardinality(S \cup {q}) = Cardinality(S) + 1
        BY <3>2, <4>1, FS_AddElement
      <4> QED
        BY <1>2, <1>6, <3>2, <4>2
    <3> QED
      BY <3>1, <3>2
  <2>7. Search'
    <3>1. saved'.visited \in Nat
      BY <1>1, <2>1
    <3>2. saved' = [list |-> saved'.list, id |-> saved'.id, pointer |-> saved'.pointer, visited |-> saved'.visited]
      BY <2>1
    <3>3. \E R \in SUBSET (1 .. Places) :
            /\ Visited(R, saved'.list, saved'.id, saved'.pointer)
            /\ saved'.pointer \notin R \cup {0} => Cardinality(R) = saved'.visited
      BY <2>1, <2>5, <2>6
    <3> HIDE DEF l, id, q, here
    <3> QED
      BY <1>1, <2>1, <2>3, <2>4, <3>1, <3>2, <3>3 DEF Search
  <2>8. P!CapabilityFound'
    BY <1>6 DEF SearchInv, P!CapabilityFound
  <2> QED
    BY <1>1, <1>6, <2>7, <2>8 DEF SearchInv
<1> QED
  BY <1>3, <1>4, <1>5, <1>6 DEF P!visit, P!Answer, P!Return, P!Visits

(* the searches in every step *)
LEMMA NextFinds == Places \in Nat /\ SearchInv /\ [P!Next]_(P!vars) => SearchInv'
<1> SUFFICES ASSUME Places \in Nat, SearchInv, [P!Next]_(P!vars) PROVE SearchInv'
  OBVIOUS
<1>1. CASE P!visit
  BY <1>1, VisitFinds
<1>2. CASE \E k \in {list, ext} \ {P!NoList}, id \in Ids : P!find_capability(k, id)
  <2>1. PICK k \in {list, ext} \ {P!NoList}, id \in Ids : P!find_capability(k, id)
    BY <1>2
  <2>2. /\ pc' = "walk" /\ saved' = [list |-> k, id |-> id, pointer |-> k.first, visited |-> 0]
        /\ result' = None /\ UNCHANGED <<list, ext>>
    BY <2>1 DEF P!find_capability, P!given
  <2>3. k \in P!Lists({None}) /\ k.first \in 0 .. Places
    BY DEF SearchInv, P!Lists
  <2>4. /\ saved'.list = k /\ saved'.id = id /\ saved'.pointer = k.first /\ saved'.visited = 0
        /\ saved' = [list |-> saved'.list, id |-> saved'.id, pointer |-> saved'.pointer, visited |-> saved'.visited]
    BY <2>2
  <2>5. Visited({}, k, id, k.first) /\ Cardinality({}) = 0
    BY FS_EmptySet DEF Visited
  <2>6. k.first # 0 => k.first \in P!Reached(k)
    BY <2>3, Leading
  <2>7. Search'
    BY <2>3, <2>4, <2>5, <2>6 DEF Search
  <2> QED
    BY <2>2, <2>7 DEF SearchInv, P!CapabilityFound
<1>3. CASE \E k \in 1 .. 2 : P!bad_bar(k) \/ \E probe \in BOOLEAN : P!pci_read_bar(k, probe)
  <2>1. PICK k \in 1 .. 2 : P!bad_bar(k) \/ \E probe \in BOOLEAN : P!pci_read_bar(k, probe)
    BY <1>3
  <2>2. CASE P!bad_bar(k)
    <3>1. result' = [bar |-> None] /\ pc' = "idle" /\ UNCHANGED <<list, ext>>
      BY <2>2 DEF P!bad_bar, P!Return, P!given
    <3>2. "place" \notin DOMAIN result'
      BY <3>1
    <3> QED
      BY <3>1, <3>2 DEF SearchInv, P!CapabilityFound
  <2>3. CASE \E probe \in BOOLEAN : P!pci_read_bar(k, probe)
    <3>1. PICK probe \in BOOLEAN : P!pci_read_bar(k, probe)
      BY <2>3
    <3>2. PICK high, address, is_64bit :
            LET found == [bar |-> k, address |-> address, size |-> 0, probed |-> probe] IN
            \/ pc' = "idle" /\ result' = found
            \/ /\ pc' = "decode_off" /\ result' = None
               /\ saved' = [found |-> found, low |-> bars[k].addr, high |-> high, is_64bit |-> is_64bit, command |-> command]
      BY <3>1 DEF P!pci_read_bar, P!Return
    <3>3. UNCHANGED <<list, ext>>
      BY <3>1 DEF P!pci_read_bar, P!given
    <3>4. CASE pc' = "idle"
      BY <3>2, <3>3, <3>4 DEF SearchInv, P!CapabilityFound
    <3>5. CASE pc' = "decode_off" /\ result' = None
      BY <3>2, <3>3, <3>5 DEF SearchInv, P!CapabilityFound
    <3> QED
      BY <3>2, <3>4, <3>5
  <2> QED
    BY <2>1, <2>2, <2>3
<1>4. CASE P!restore_command
  <2>1. pc = "restore_command" /\ pc' = "idle" /\ result' = saved.found /\ UNCHANGED <<list, ext>>
    BY <1>4 DEF P!restore_command, P!Return, P!given
  <2> QED
    BY <2>1 DEF SearchInv, P!CapabilityFound
<1>5. CASE P!read_size
  <2>1. /\ pc = "read_size" /\ pc' \in {"restore_high", "restore_low"} /\ UNCHANGED <<list, ext, result>>
        /\ \E n : saved' = [saved EXCEPT !.found.size = n]
    BY <1>5 DEF P!read_size, P!given
  <2>2. "found" \in DOMAIN saved' /\ "place" \notin DOMAIN saved'.found
    BY <2>1 DEF SearchInv
  <2> QED
    BY <2>1, <2>2 DEF SearchInv, P!CapabilityFound
<1>6. CASE pc' = "idle" /\ result' = None /\ UNCHANGED <<list, ext>>
  BY <1>6 DEF SearchInv, P!CapabilityFound
<1>7. CASE /\ UNCHANGED <<list, ext, saved, result>>
           /\ \/ pc' = pc
              \/ /\ pc \in {"decode_off", "ones", "ones_high", "read_size", "restore_high", "restore_low", "restore_command"}
                 /\ pc' \in {"ones", "ones_high", "read_size", "restore_high", "restore_low", "restore_command"}
  BY <1>7 DEF SearchInv, P!CapabilityFound, Search
<1>8. CASE P!bus_error
  BY <1>7, <1>8 DEF P!bus_error, P!given
<1>9. CASE P!decode_off \/ P!write_ones \/ P!restore_bar
  BY <1>7, <1>9 DEF P!decode_off, P!write_ones, P!restore_bar, P!given
<1>10. CASE \E bits \in {{"io", "mem"}, {"master"}} : P!pci_set_command_bits(bits, {})
  BY <1>6, <1>10 DEF P!pci_set_command_bits, P!Return, P!given
<1>11. CASE P!pci_set_command_bits({}, {"master"})
  BY <1>6, <1>11 DEF P!pci_set_command_bits, P!Return, P!given
<1>12. CASE UNCHANGED P!vars
  BY <1>7, <1>12 DEF P!vars, P!given
<1> QED
  BY <1>1, <1>2, <1>3, <1>4, <1>5, <1>8, <1>9, <1>10, <1>11, <1>12 DEF P!Next

(* at first nothing was asked *)
LEMMA InitFinds == Places \in Nat /\ P!Init => SearchInv
<1> SUFFICES ASSUME Places \in Nat, P!Init PROVE SearchInv
  OBVIOUS
<1>1. P!NoList \in P!Lists({None})
  BY DEF P!NoList, P!Lists
<1>2. P!Lists({}) \subseteq P!Lists({None})
  BY DEF P!Lists
<1>3. list \in P!Lists({None}) /\ ext \in P!Lists({None})
  BY <1>1, <1>2 DEF P!Init
<1>4. pc = "idle" /\ result = None
  BY DEF P!Init
<1> QED
  BY <1>3, <1>4 DEF SearchInv, P!CapabilityFound

-----------------------------------------------------------------------------
(* a behaviour of the PCI function keeps the invariant of the searches *)
LEMMA SearchInvariance == MCSpec => [](part = "Pci" => SearchInv)
<1>1. MCInit => (part = "Pci" => SearchInv)
  BY PciAssumption, InitFinds DEF MCInit
<1>2. (part = "Pci" => SearchInv) /\ [MCNext]_allVars => (part = "Pci" => SearchInv)'
  <2> SUFFICES ASSUME part = "Pci" => SearchInv, [MCNext]_allVars, part' = "Pci" PROVE SearchInv'
    OBVIOUS
  <2>1. CASE MCNext
    <3>1. part = "Pci" /\ P!Next
      BY <2>1 DEF MCNext
    <3> QED
      BY <3>1, PciAssumption, NextFinds
  <2>2. CASE UNCHANGED allVars
    <3>1. UNCHANGED P!vars
      BY <2>2 DEF allVars, PVars, P!vars, P!config, P!given
    <3> QED
      BY <2>2, <3>1, PciAssumption, NextFinds DEF allVars
  <2> QED
    BY <2>1, <2>2
<1> QED
  BY <1>1, <1>2, PTL DEF MCSpec

(* A search of a list of capabilities, circular or not, ends with a place that has the identifier if and *)
(* only if the list leads to one (pci_find_capability, pci_find_extended_capability).                    *)
THEOREM PciCapabilityFoundHolds == MCSpec => []PciCapabilityFound
<1>1. (part = "Pci" => SearchInv) => PciCapabilityFound
  BY DEF SearchInv, PciCapabilityFound
<1> QED
  BY <1>1, SearchInvariance, PTL

-----------------------------------------------------------------------------
(* Sizing a base address register (pci_read_bar).  The powers of two are a recursive function; what is *)
(* true of each of them is proved by looking at the least exception.                                   *)

(* The powers of two exist. *)
LEMMA DoublesExist ==
  ASSUME NEW L \in Nat
  PROVE  \E g : g = [k \in 0 .. L |-> IF k = 0 THEN 1 ELSE 2 * g[k - 1]]
<1> DEFINE Doubles(n, g) == g \in [0 .. n -> Nat] /\ g[0] = 1 /\ \A k \in 1 .. n : g[k] = 2 * g[k - 1]
           Bad == {n \in 0 .. L : ~ \E g : Doubles(n, g)}
<1>1. 0 \notin Bad
  <2>1. Doubles(0, [k \in 0 .. 0 |-> 1])
    BY SMT
  <2> QED BY <2>1, Zenon
<1>2. ASSUME NEW m \in 1 .. L, m - 1 \notin Bad PROVE m \notin Bad
  <2>1. m - 1 \in 0 .. L
    BY SMT
  <2>2. PICK g : Doubles(m - 1, g)
    BY <2>1, <1>2, Zenon
  <2>3. Doubles(m, [k \in 0 .. m |-> IF k = m THEN 2 * g[m - 1] ELSE g[k]])
    BY <2>2, SMT
  <2> QED BY <2>3, Zenon
<1>3. L \in 0 .. L /\ Bad \in SUBSET (0 .. L)
  BY SMT
<1>4. Bad = {}
  <2> HIDE DEF Bad
  <2> QED BY <1>1, <1>2, <1>3, NoException, Zenon
<1>5. PICK g : Doubles(L, g)
  BY <1>3, <1>4, Zenon
<1>6. g = [k \in 0 .. L |-> IF k = 0 THEN 1 ELSE 2 * g[k - 1]]
  BY <1>5, SMT
<1> QED BY <1>6, Zenon

(* a base address register has two address bits at least *)
Wide == Width \in Nat /\ Width >= 2

(* What Power computes, one bit at a time. *)
LEMMA PowerSteps ==
  ASSUME Wide
  PROVE  /\ P!Power[0] = 1 /\ \A k \in 1 .. 2 * Width : P!Power[k] = 2 * P!Power[k - 1]
<1>0. 2 * Width \in Nat
  BY DEF Wide
<1>1. \E g : g = [k \in 0 .. 2 * Width |-> IF k = 0 THEN 1 ELSE 2 * g[k - 1]]
  BY <1>0, DoublesExist, Zenon
<1>2. P!Power = [k \in 0 .. 2 * Width |-> IF k = 0 THEN 1 ELSE 2 * P!Power[k - 1]]
  BY <1>1, Zenon DEF P!Power
<1> QED BY <1>0, <1>2, SMT

(* a power of two is positive *)
LEMMA PowerPositive ==
  ASSUME Wide, NEW n \in 0 .. 2 * Width PROVE P!Power[n] \in Nat \ {0}
<1> DEFINE Bad == {k \in 0 .. 2 * Width : P!Power[k] \notin Nat \ {0}}
<1>0. 2 * Width \in Nat /\ Bad \in SUBSET (0 .. 2 * Width)
  BY DEF Wide
<1>1. 0 \notin Bad
  BY PowerSteps
<1>2. ASSUME NEW m \in 1 .. 2 * Width, m - 1 \notin Bad PROVE m \notin Bad
  <2>1. P!Power[m] = 2 * P!Power[m - 1] /\ m - 1 \in 0 .. 2 * Width
    BY <1>0, PowerSteps
  <2>2. P!Power[m - 1] \in Nat \ {0}
    BY <1>2, <2>1
  <2> QED BY <2>1, <2>2
<1>3. Bad = {}
  <2> HIDE DEF Bad
  <2> QED BY <1>0, <1>1, <1>2, NoException, Zenon
<1> QED BY <1>3

(* the power of a sum *)
LEMMA PowerSum ==
  ASSUME Wide, NEW a \in 0 .. 2 * Width, NEW b \in 0 .. 2 * Width - a
  PROVE  P!Power[a + b] = P!Power[a] * P!Power[b]
<1> DEFINE L == 2 * Width - a
           Bad == {k \in 0 .. L : P!Power[a + k] # P!Power[a] * P!Power[k]}
<1>0. L \in Nat /\ 2 * Width \in Nat /\ Bad \in SUBSET (0 .. L)
  BY DEF Wide
<1>p. P!Power[a] \in Nat
  BY PowerPositive
<1>1. 0 \notin Bad
  BY <1>p, PowerSteps
<1>2. ASSUME NEW m \in 1 .. L, m - 1 \notin Bad PROVE m \notin Bad
  <2>1. /\ m \in 1 .. 2 * Width /\ m - 1 \in 0 .. 2 * Width /\ m - 1 \in 0 .. L
        /\ a + m \in 1 .. 2 * Width /\ (a + m) - 1 = a + (m - 1)
    BY <1>0
  <2>2. P!Power[m] = 2 * P!Power[m - 1] /\ P!Power[a + m] = 2 * P!Power[a + (m - 1)]
    BY <2>1, PowerSteps
  <2>3. P!Power[a + (m - 1)] = P!Power[a] * P!Power[m - 1]
    BY <1>2, <2>1
  <2>4. P!Power[m - 1] \in Nat
    BY <2>1, PowerPositive
  <2>5. \A x, y \in Nat : 2 * (x * y) = x * (2 * y)
    BY SMT
  <2>6. P!Power[a + m] = P!Power[a] * P!Power[m]
    BY <1>p, <2>2, <2>3, <2>4, <2>5
  <2> QED BY <2>6
<1>3. Bad = {}
  <2> HIDE DEF Bad, L
  <2> QED BY <1>0, <1>1, <1>2, NoException, Zenon
<1> QED BY <1>3


(* the remainder of a division *)
LEMMA Remainder ==
  ASSUME NEW v \in Nat, NEW m \in Nat \ {0}
  PROVE  /\ v % m \in 0 .. m - 1 /\ v - (v % m) \in 0 .. v
         /\ (v - (v % m)) % m = 0
<1>1. v % m \in 0 .. m - 1 /\ v \div m \in Nat /\ v = (v \div m) * m + (v % m)
  BY SMT
<1>2. \A q \in Nat : (q * m + 0) % m = 0 /\ q * m \in Nat
  BY SMT
<1>3. PICK q \in Nat, x \in 0 .. m - 1 : q = v \div m /\ x = v % m
  BY <1>1
<1>4. v = q * m + x
  BY <1>1, <1>3
<1>5. v - x = q * m /\ q * m \in Nat
  BY <1>2, <1>4
<1>6. (q * m) % m = 0
  BY <1>2, <1>5
<1>7. v - x \in 0 .. v /\ (v - x) % m = 0
  BY <1>5, <1>6
<1> QED BY <1>3, <1>7

(* the remainder of a number that is known in parts *)
LEMMA RemainderIs ==
  ASSUME NEW q \in Nat, NEW m \in Nat \ {0}, NEW r \in 0 .. m - 1
  PROVE  (q * m + r) % m = r
  BY SMT

(* a smaller power divides a larger one *)
LEMMA PowerDivides ==
  ASSUME Wide, NEW a \in 0 .. 2 * Width, NEW b \in 0 .. a
  PROVE  \E q \in Nat \ {0} : P!Power[a] = q * P!Power[b]
<1>1. a - b \in 0 .. 2 * Width /\ b \in 0 .. 2 * Width /\ a - b \in 0 .. 2 * Width - b /\ b + (a - b) = a
  BY DEF Wide
<1>2. P!Power[a] = P!Power[b] * P!Power[a - b]
  BY <1>1, PowerSum
<1>3. P!Power[a - b] \in Nat \ {0} /\ P!Power[b] \in Nat
  BY <1>1, PowerPositive
<1>4. P!Power[a] = P!Power[a - b] * P!Power[b]
  BY <1>2, <1>3
<1> QED BY <1>3, <1>4

(* the registers a function may have *)
Kinds == {"mem64", "high", "mem32", "io", "io16", "none"}
Reg == [kind : Kinds, size : 0 .. 2 * Width - 1, addr : 0 .. P!All]
Sized(r) == r.kind \in {"mem64", "high", "mem32", "io"} => r.size >= 1
SmallIo(r) == r.kind = "io16" => r.size = 1

(* the bits a register does not decode *)
LEMMA FixedBits ==
  ASSUME Wide, NEW r \in Reg
  PROVE  P!Fixed(r) \in 0 .. Width /\ (r.kind = "io16" /\ r.size = 1 => P!Fixed(r) = 1)
  BY DEF Wide, Reg, P!Fixed, Kinds

(* A register that keeps an address keeps it when it is written again. *)
LEMMA KeptAgain ==
  ASSUME Wide, NEW r \in Reg, SmallIo(r), NEW v \in 0 .. P!All
  PROVE  P!Kept(r, v) \in 0 .. P!All /\ P!Kept(r, P!Kept(r, v)) = P!Kept(r, v)
<1>1. P!Fixed(r) \in 0 .. Width
  BY FixedBits
<1>2. P!Fixed(r) \in 0 .. 2 * Width /\ Width \in 0 .. 2 * Width /\ Width - 1 \in 0 .. 2 * Width /\ 1 \in 0 .. 2 * Width
  BY <1>1 DEF Wide
<1>3. PICK m : m = P!Power[P!Fixed(r)]
  OBVIOUS
<1>4. m \in Nat \ {0} /\ P!All \in Nat
  BY <1>2, <1>3, PowerPositive DEF P!All
<1>5. v \in Nat
  BY <1>4
<1>6. CASE r.kind = "none"
  BY <1>4, <1>6 DEF P!Kept
<1>7. CASE r.kind = "io16"
  <2>1. P!Fixed(r) = 1 /\ m = P!Power[1]
    BY <1>3, <1>7, FixedBits DEF SmallIo
  <2>2. P!Power[1] = 2
    <3>1. 1 \in 1 .. 2 * Width
      BY DEF Wide
    <3> QED BY <3>1, PowerSteps
  <2>3. PICK h : h = P!Power[Width - 1]
    OBVIOUS
  <2>4. h \in Nat \ {0}
    BY <1>2, <2>3, PowerPositive
  <2>5. PICK q \in Nat : h = q * 2
    <3>1. 1 \in 0 .. Width - 1
      BY DEF Wide
    <3> QED BY <1>2, <2>2, <2>3, <3>1, PowerDivides
  <2>6. PICK x : x = v % h
    OBVIOUS
  <2>7. x \in 0 .. h - 1 /\ x <= v
    <3>1. v % h \in 0 .. h - 1 /\ v - (v % h) \in 0 .. v
      BY <1>5, <2>4, Remainder
    <3> QED BY <1>5, <2>6, <3>1
  <2>8. v % 2 = x % 2
    <3>1. v = (v \div h) * h + x /\ v \div h \in Nat
      BY <1>5, <2>4, <2>6, SMT
    <3>2. v = (v \div h) * (q * 2) + x
      BY <2>5, <3>1
    <3>3. PICK d \in Nat : d = v \div h
      BY <3>1
    <3>4. v = 2 * (d * q) + x
      BY <3>2, <3>3, <2>7
    <3>5. PICK e \in Nat : e = d * q
      BY <2>5, <3>3
    <3>6. v = 2 * e + x
      BY <3>4, <3>5
    <3> QED BY <3>6, <2>7, <1>5, <2>4
  <2>9. P!Kept(r, v) = x - (x % 2)
    BY <1>7, <2>1, <2>2, <2>3, <2>6, <2>8 DEF P!Kept
  <2>10. PICK y : y = x - (x % 2)
    OBVIOUS
  <2>11. y \in 0 .. h - 1 /\ y % 2 = 0 /\ y <= v
    BY <2>7, <2>10, <2>4
  <2>12. y % h = y
    <3>1. (0 * h + y) % h = y
      BY <2>4, <2>11, RemainderIs
    <3> QED BY <3>1, <2>4, <2>11
  <2>13. P!Kept(r, y) = y
    BY <1>7, <2>1, <2>2, <2>3, <2>11, <2>12 DEF P!Kept
  <2> QED BY <1>4, <2>9, <2>10, <2>11, <2>13
<1>8. CASE r.kind \notin {"none", "io16"}
  <2>1. P!Kept(r, v) = v - (v % m)
    BY <1>3, <1>8 DEF P!Kept
  <2>2. PICK y : y = v - (v % m)
    OBVIOUS
  <2>3. y \in 0 .. v /\ y % m = 0
    BY <1>4, <1>5, <2>2, Remainder
  <2>4. P!Kept(r, y) = y
    BY <1>3, <1>8, <2>3, <1>5 DEF P!Kept
  <2> QED BY <1>4, <2>1, <2>2, <2>3, <2>4
<1> QED BY <1>6, <1>7, <1>8

(* What stays of all ones. *)
LEMMA KeptOnes ==
  ASSUME Wide, NEW r \in Reg, r.kind \notin {"none", "io16"}
  PROVE  P!Kept(r, P!All) = P!Power[Width] - P!Power[P!Fixed(r)]
<1>1. P!Fixed(r) \in 0 .. Width
  BY FixedBits
<1>2. P!Fixed(r) \in 0 .. 2 * Width /\ Width \in 0 .. 2 * Width
  BY <1>1 DEF Wide
<1>3. PICK m : m = P!Power[P!Fixed(r)]
  OBVIOUS
<1>4. m \in Nat \ {0} /\ P!Power[Width] \in Nat \ {0}
  BY <1>2, <1>3, PowerPositive
<1>5. PICK q \in Nat \ {0} : P!Power[Width] = q * m
  BY <1>1, <1>2, <1>3, PowerDivides
<1>6. P!All = (q - 1) * m + (m - 1) /\ q - 1 \in Nat /\ m - 1 \in 0 .. m - 1
  BY <1>4, <1>5 DEF P!All
<1>7. P!All % m = m - 1
  BY <1>4, <1>6, RemainderIs
<1>8. P!Kept(r, P!All) = P!All - (P!All % m)
  BY <1>3 DEF P!Kept
<1>9. PICK U \in Nat \ {0} : U = P!Power[Width]
  BY <1>4
<1>10. P!Kept(r, P!All) = (U - 1) - (m - 1)
  BY <1>7, <1>8, <1>9 DEF P!All
<1> QED BY <1>3, <1>4, <1>9, <1>10

(* The two's complement of the bits that stay is the size. *)
LEMMA SizeOfOnes ==
  ASSUME Wide, NEW r \in Reg, Sized(r)
  PROVE  /\ r.kind = "none" => P!Kept(r, P!All) = 0
         /\ r.kind \in {"mem32", "io"} /\ r.size <= Width - 1 =>
              P!Kept(r, P!All) # 0 /\ P!Power[Width] - P!Kept(r, P!All) = P!Power[r.size]
         /\ \A h \in Reg : r.kind = "mem64" /\ h.kind = "high" /\ h.size = r.size =>
              LET mask == P!Kept(r, P!All) + P!Kept(h, P!All) * P!Power[Width]
              IN  mask # 0 /\ P!Power[2 * Width] - mask = P!Power[r.size]
<1>1. r.kind = "none" => P!Kept(r, P!All) = 0
  BY DEF P!Kept
<1>2. ASSUME r.kind \in {"mem32", "io"}, r.size <= Width - 1
      PROVE  P!Kept(r, P!All) # 0 /\ P!Power[Width] - P!Kept(r, P!All) = P!Power[r.size]
  <2>1. P!Fixed(r) = r.size /\ r.size \in 0 .. 2 * Width /\ Width - r.size \in 1 .. 2 * Width /\ Width \in 0 .. 2 * Width
        /\ Width - r.size \in 0 .. 2 * Width - r.size
    BY <1>2 DEF P!Fixed, Wide, Reg
  <2>2. P!Kept(r, P!All) = P!Power[Width] - P!Power[r.size]
    BY <1>2, <2>1, KeptOnes
  <2>3. P!Power[Width] \in Nat \ {0} /\ P!Power[r.size] \in Nat \ {0}
    BY <2>1, PowerPositive
  <2>4. P!Power[Width] # P!Power[r.size]
    <3>1. r.size + (Width - r.size) = Width
      BY <2>1 DEF Wide
    <3>2. P!Power[Width] = P!Power[r.size] * P!Power[Width - r.size]
      BY <2>1, <3>1, PowerSum
    <3>3. P!Power[Width - r.size] = 2 * P!Power[Width - r.size - 1] /\ P!Power[Width - r.size - 1] \in Nat \ {0}
      <4>1. Width - r.size - 1 \in 0 .. 2 * Width
        BY <2>1 DEF Wide
      <4> QED BY <2>1, <4>1, PowerSteps, PowerPositive
    <3>4. PICK k \in Nat \ {0} : P!Power[Width - r.size] = 2 * k
      BY <3>3
    <3>5. PICK p \in Nat \ {0} : p = P!Power[r.size]
      BY <2>3
    <3>6. P!Power[Width] = p * (2 * k)
      BY <3>2, <3>4, <3>5
    <3> QED BY <3>5, <3>6
  <2> QED BY <2>2, <2>3, <2>4
<1>3. ASSUME NEW h \in Reg, r.kind = "mem64", h.kind = "high", h.size = r.size
      PROVE  LET mask == P!Kept(r, P!All) + P!Kept(h, P!All) * P!Power[Width]
             IN  mask # 0 /\ P!Power[2 * Width] - mask = P!Power[r.size]
  <2>0. PICK W, s : W = Width /\ s = r.size
    OBVIOUS
  <2>1. W \in Nat /\ W >= 2 /\ s \in 1 .. 2 * W - 1
    BY <1>3, <2>0 DEF Wide, Reg, Sized
  <2>2. PICK U \in Nat \ {0} : U = P!Power[W]
    <3>1. Width \in 0 .. 2 * Width
      BY DEF Wide
    <3> QED BY <2>0, <3>1, PowerPositive
  <2>3. P!Power[2 * W] = U * U
    <3>1. W \in 0 .. 2 * Width /\ W \in 0 .. 2 * Width - W /\ W + W = 2 * W
      BY <2>0, <2>1
    <3> QED BY <2>2, <3>1, PowerSum
  <2>4. P!Kept(r, P!All) = U - P!Power[P!Fixed(r)] /\ P!Kept(h, P!All) = U - P!Power[P!Fixed(h)]
    BY <1>3, <2>0, <2>2, KeptOnes
  <2>5. PICK S \in Nat \ {0} : S = P!Power[s]
    <3>1. s \in 0 .. 2 * Width
      BY <2>0, <2>1
    <3> QED BY <3>1, PowerPositive
  <2>6. PICK mask : mask = P!Kept(r, P!All) + P!Kept(h, P!All) * U
    OBVIOUS
  <2>7. mask = U * U - S
    <3>1. CASE s <= W
      <4>1. P!Fixed(r) = s /\ P!Fixed(h) = 0
        BY <1>3, <2>0, <2>1, <3>1 DEF P!Fixed
      <4>2. mask = (U - S) + (U - 1) * U
        BY <2>4, <2>5, <2>6, <4>1, PowerSteps
      <4> QED BY <4>2
    <3>2. CASE s > W
      <4>1. P!Fixed(r) = W /\ P!Fixed(h) = s - W
        BY <1>3, <2>0, <2>1, <3>2 DEF P!Fixed
      <4>2. W \in 0 .. 2 * Width /\ s - W \in 0 .. 2 * Width /\ s - W \in 0 .. 2 * Width - W /\ W + (s - W) = s
        BY <2>0, <2>1, <3>2
      <4>3. S = U * P!Power[s - W]
        BY <2>2, <2>5, <4>2, PowerSum
      <4>4. PICK k \in Nat \ {0} : k = P!Power[s - W]
        BY <4>2, PowerPositive
      <4>5. mask = (U - U) + (U - k) * U
        BY <2>2, <2>4, <2>6, <4>1, <4>4
      <4>6. S = U * k
        BY <4>3, <4>4
      <4> QED BY <4>5, <4>6
    <3> QED BY <2>1, <3>1, <3>2
  <2>8. U * U - S # 0
    <3>1. 2 * W - s \in 1 .. 2 * Width /\ s \in 0 .. 2 * Width /\ 2 * W - s \in 0 .. 2 * Width - s /\ s + (2 * W - s) = 2 * W
          /\ 2 * W - s - 1 \in 0 .. 2 * Width
      BY <2>0, <2>1
    <3>2. P!Power[2 * W] = S * P!Power[2 * W - s]
      BY <2>5, <3>1, PowerSum
    <3>3. P!Power[2 * W - s] = 2 * P!Power[2 * W - s - 1] /\ P!Power[2 * W - s - 1] \in Nat \ {0}
      BY <3>1, PowerSteps, PowerPositive
    <3>4. PICK k \in Nat \ {0} : P!Power[2 * W - s] = 2 * k
      BY <3>3
    <3>5. U * U = S * (2 * k)
      BY <2>3, <3>2, <3>4
    <3> QED BY <3>5
  <2>9. mask # 0 /\ P!Power[2 * W] - mask = S
    <3>1. PICK Q \in Nat : Q = U * U
      OBVIOUS
    <3> QED BY <2>3, <2>7, <2>8, <3>1
  <2> QED BY <2>0, <2>2, <2>5, <2>6, <2>9
<1> QED BY <1>1, <1>2, <1>3


-----------------------------------------------------------------------------
(* A function in the middle of a probe.  What it was assigned stays where it is noted, and each *)
(* state of the probe says which registers still differ from it.                                *)

(* how the two registers of a function go together *)
Laid(b) ==
  \/ b[1].kind = "mem64" /\ b[2].kind = "high" /\ b[1].size = b[2].size /\ b[1].size >= 1
  \/ b[1].kind \in {"mem32", "io"} /\ b[1].size \in 1 .. Width - 1 /\ b[2].kind = "mem32" /\ b[2].size = 1
  \/ b[1].kind = "io16" /\ b[1].size = 1 /\ b[2].kind = "mem64" /\ b[2].size = 1
  \/ b[1].kind = "none" /\ b[2].kind = "none"

(* registers as the firmware left them: each keeps its address *)
Settled(b) ==
  /\ b \in [1 .. 2 -> Reg] /\ Laid(b)
  /\ \A n \in 1 .. 2 : P!Kept(b[n], b[n].addr) = b[n].addr

(* the registers are those that were assigned, whatever their addresses *)
SameRegisters ==
  /\ bars \in [1 .. 2 -> Reg]
  /\ \A n \in 1 .. 2 : bars[n].kind = assigned.bars[n].kind /\ bars[n].size = assigned.bars[n].size

(* what a probe has saved, for register b *)
Probing(b) ==
  /\ b \in 1 .. 2 /\ saved.found.bar = b /\ bars[b].kind # "high" /\ (b = 2 => bars[b].kind # "mem64")
  /\ saved.is_64bit = (bars[b].kind = "mem64")
  /\ saved.low = assigned.bars[b].addr
  /\ saved.high = (IF bars[b].kind = "mem64" THEN assigned.bars[2].addr ELSE 0)
  /\ saved.command = assigned.command
  /\ saved.found.address = saved.high * P!Power[Width] + saved.low /\ saved.found.probed = TRUE
  /\ DOMAIN saved.found = {"bar", "address", "size", "probed"}
  /\ saved = [found |-> saved.found, low |-> saved.low, high |-> saved.high, is_64bit |-> saved.is_64bit, command |-> saved.command]
  /\ saved.found = [bar |-> saved.found.bar, address |-> saved.found.address, size |-> saved.found.size, probed |-> saved.found.probed]

(* the registers that differ from what was assigned are those the probe has written *)
Probe(b) ==
  /\ pc = "ones" => bars = assigned.bars
  /\ pc = "ones_high" => bars[b].kind = "mem64" /\ bars[b].addr = P!Kept(bars[b], P!All) /\ bars[2] = assigned.bars[2]
  /\ pc = "read_size" =>
       /\ bars[b].addr = P!Kept(bars[b], P!All)
       /\ bars[b].kind = "mem64" => bars[2].addr = P!Kept(bars[2], P!All)
       /\ bars[b].kind # "mem64" => bars[3 - b] = assigned.bars[3 - b]
  /\ pc = "restore_high" => bars[b].kind = "mem64"
  /\ pc = "restore_low" => bars[3 - b] = assigned.bars[3 - b]
  /\ pc = "restore_command" => bars = assigned.bars
  /\ pc \in {"restore_high", "restore_low", "restore_command"} =>
       (bars[b].kind # "io16" => saved.found.size = P!Size(bars[b]))

Calm == {"idle", "walk", "decode_off"}
Probes == {"ones", "ones_high", "read_size", "restore_high", "restore_low", "restore_command"}

ProbeInv ==
  /\ pc \in Calm \cup Probes
  /\ bars = <<>> => assigned.bars = <<>>
  /\ bars # <<>> => Settled(assigned.bars) /\ SameRegisters
  /\ pc \in Calm => bars = assigned.bars /\ command = assigned.command
  /\ pc \in Probes => command \cap {"io", "mem"} = {}
  /\ pc \in Probes \cup {"decode_off"} => bars # <<>> /\ \E b \in 1 .. 2 : Probing(b) /\ Probe(b)
  /\ pc = "walk" => result = None /\ "place" \notin DOMAIN saved
  /\ pc # "idle" => result = None
  /\ (result # None /\ "size" \in DOMAIN result) =>
       /\ bars # <<>> /\ result.bar \in 1 .. 2
       /\ LET r == bars[result.bar] IN
            r.kind # "io16" =>
              /\ result.address = r.addr + (IF r.kind = "mem64" THEN bars[2].addr * P!Power[Width] ELSE 0)
              /\ result.size = IF result.probed THEN P!Size(r) ELSE 0

(* the invariant says what a probe promises *)
LEMMA ProbeInvSafe == ProbeInv => P!ProbeSafe
<1> SUFFICES ASSUME ProbeInv PROVE P!ProbeSafe
  OBVIOUS
<1>1. bars # assigned.bars => command \cap {"io", "mem"} = {}
  BY DEF ProbeInv
<1>2. pc = "idle" => bars = assigned.bars /\ command = assigned.command
  BY DEF ProbeInv, Calm
<1> QED BY <1>1, <1>2 DEF ProbeInv, P!ProbeSafe

(* registers of a function keep an address they are given again *)
LEMMA LaidRegisters ==
  ASSUME Wide, NEW b \in [1 .. 2 -> Reg], Laid(b)
  PROVE  \A n \in 1 .. 2 : SmallIo(b[n]) /\ Sized(b[n])
  BY DEF Laid, SmallIo, Sized

(* A function starts with registers that hold their addresses. *)
LEMMA ProbeStarts == Wide /\ P!Init => ProbeInv
<1> SUFFICES ASSUME Wide, P!Init PROVE ProbeInv
  OBVIOUS
<1>0. P!All \in Nat
  <2>1. Width \in 0 .. 2 * Width
    BY DEF Wide
  <2> QED BY <2>1, PowerPositive DEF P!All
<1>1. pc = "idle" /\ result = None /\ assigned = [bars |-> bars, command |-> command]
  BY DEF P!Init
<1>2. bars # <<>> => Settled(bars)
  <2> SUFFICES ASSUME bars # <<>> PROVE Settled(bars)
    OBVIOUS
  <2>1. CASE bars = [n \in 1 .. 2 |-> [kind |-> "none", size |-> 0, addr |-> 0]]
    <3>1. [kind |-> "none", size |-> 0, addr |-> 0] \in Reg
      BY <1>0 DEF Reg, Kinds, Wide
    <3> QED BY <2>1, <3>1 DEF Settled, Laid, P!Kept
  <2>2. CASE \E l \in P!Layouts, v \in 0 .. P!All, w \in 0 .. P!All :
               bars = [n \in 1 .. 2 |-> [kind |-> l[n].kind, size |-> l[n].size, addr |-> P!Kept(l[n], IF n = 1 THEN v ELSE w)]]
    <3>1. PICK l \in P!Layouts, v \in 0 .. P!All, w \in 0 .. P!All :
               bars = [n \in 1 .. 2 |-> [kind |-> l[n].kind, size |-> l[n].size, addr |-> P!Kept(l[n], IF n = 1 THEN v ELSE w)]]
      BY <2>2
    <3>2. /\ l[1].kind \in Kinds /\ l[1].size \in 0 .. 2 * Width - 1
          /\ l[2].kind \in Kinds /\ l[2].size \in 0 .. 2 * Width - 1
          /\ Laid(l)
      BY DEF P!Layouts, P!Register, Kinds, Wide, Laid
    <3>3. ASSUME NEW n \in 1 .. 2, NEW x \in 0 .. P!All, NEW r, r = [kind |-> l[n].kind, size |-> l[n].size, addr |-> P!Kept(l[n], x)]
          PROVE  r \in Reg /\ P!Kept(r, r.addr) = r.addr
      <4>1. PICK t : t = [kind |-> l[n].kind, size |-> l[n].size, addr |-> 0]
        OBVIOUS
      <4>2. t \in Reg /\ SmallIo(t)
        BY <1>0, <3>2, <4>1 DEF Reg, SmallIo, Laid
      <4>3. \A y : P!Kept(l[n], y) = P!Kept(t, y) /\ P!Kept(r, y) = P!Kept(t, y)
        BY <3>3, <4>1 DEF P!Kept, P!Fixed
      <4>4. P!Kept(t, x) \in 0 .. P!All /\ P!Kept(t, P!Kept(t, x)) = P!Kept(t, x)
        BY <4>2, KeptAgain
      <4> QED BY <3>2, <3>3, <4>3, <4>4 DEF Reg
    <3>4. bars[1] = [kind |-> l[1].kind, size |-> l[1].size, addr |-> P!Kept(l[1], v)]
          /\ bars[2] = [kind |-> l[2].kind, size |-> l[2].size, addr |-> P!Kept(l[2], w)]
          /\ bars = [n \in 1 .. 2 |-> bars[n]]
      BY <3>1
    <3>5. \A n \in 1 .. 2 : bars[n] \in Reg /\ P!Kept(bars[n], bars[n].addr) = bars[n].addr
      <4>1. bars[1] \in Reg /\ P!Kept(bars[1], bars[1].addr) = bars[1].addr
        BY <3>3, <3>4
      <4>2. bars[2] \in Reg /\ P!Kept(bars[2], bars[2].addr) = bars[2].addr
        BY <3>3, <3>4
      <4> QED BY <4>1, <4>2
    <3>6. Laid(bars)
      BY <3>2, <3>4 DEF Laid
    <3> QED BY <3>4, <3>5, <3>6 DEF Settled
  <2> QED BY <2>1, <2>2 DEF P!Init
<1> QED BY <1>1, <1>2 DEF ProbeInv, Calm, Probes, Settled, SameRegisters


(* A write changes the address of one register. *)
LEMMA Written ==
  ASSUME Wide, Settled(assigned.bars), SameRegisters, NEW n \in 1 .. 2, NEW v \in 0 .. P!All,
         P!WriteBar(n, v), assigned' = assigned
  PROVE  /\ SameRegisters' /\ bars' # <<>>
         /\ bars'[n].addr = P!Kept(bars[n], v) /\ bars'[3 - n] = bars[3 - n]
         /\ \A j \in 1 .. 2 : bars'[j].kind = bars[j].kind /\ bars'[j].size = bars[j].size
         /\ \A j \in 1 .. 2 : \A x : P!Kept(bars'[j], x) = P!Kept(bars[j], x) /\ P!Kept(assigned.bars[j], x) = P!Kept(bars[j], x)
<1>1. bars \in [1 .. 2 -> Reg] /\ assigned.bars \in [1 .. 2 -> Reg] /\ Laid(assigned.bars)
  BY DEF SameRegisters, Settled
<1>2. SmallIo(bars[n]) /\ bars[n] \in Reg
  BY <1>1, LaidRegisters DEF SameRegisters, SmallIo
<1>3. P!Kept(bars[n], v) \in 0 .. P!All
  BY <1>2, KeptAgain
<1>4. bars' = [bars EXCEPT ![n] = [bars[n] EXCEPT !.addr = P!Kept(bars[n], v)]]
  BY DEF P!WriteBar
<1>5. PICK r : r = [bars[n] EXCEPT !.addr = P!Kept(bars[n], v)]
  OBVIOUS
<1>6. r \in Reg /\ r.kind = bars[n].kind /\ r.size = bars[n].size /\ r.addr = P!Kept(bars[n], v)
  BY <1>2, <1>3, <1>5 DEF Reg
<1>7. bars' = [bars EXCEPT ![n] = r]
  BY <1>4, <1>5
<1>8. bars' \in [1 .. 2 -> Reg] /\ bars'[n] = r /\ bars'[3 - n] = bars[3 - n]
  BY <1>1, <1>6, <1>7
<1>9. \A j \in 1 .. 2 : bars'[j].kind = bars[j].kind /\ bars'[j].size = bars[j].size
  BY <1>1, <1>6, <1>7
<1>10. SameRegisters'
  BY <1>8, <1>9, SMTT(30) DEF SameRegisters
<1>11. \A j \in 1 .. 2 : \A x : P!Kept(bars'[j], x) = P!Kept(bars[j], x) /\ P!Kept(assigned.bars[j], x) = P!Kept(bars[j], x)
  BY <1>9 DEF SameRegisters, P!Kept, P!Fixed
<1>12. bars' # <<>>
  BY <1>8
<1> QED BY <1>6, <1>8, <1>9, <1>10, <1>11, <1>12

(* A register of a settled function is restored by writing its address. *)
LEMMA Restored ==
  ASSUME Wide, Settled(assigned.bars), SameRegisters, NEW n \in 1 .. 2,
         P!WriteBar(n, assigned.bars[n].addr), assigned' = assigned
  PROVE  SameRegisters' /\ bars' # <<>> /\ bars'[n] = assigned.bars[n] /\ bars'[3 - n] = bars[3 - n]
         /\ \A j \in 1 .. 2 : bars'[j].kind = bars[j].kind /\ bars'[j].size = bars[j].size
<1>1. assigned.bars[n] \in Reg /\ assigned.bars[n].addr \in 0 .. P!All
  BY DEF Settled, Reg
<1>2. /\ SameRegisters' /\ bars' # <<>> /\ bars'[n].addr = P!Kept(bars[n], assigned.bars[n].addr) /\ bars'[3 - n] = bars[3 - n]
      /\ \A j \in 1 .. 2 : bars'[j].kind = bars[j].kind /\ bars'[j].size = bars[j].size
      /\ \A j \in 1 .. 2 : \A x : P!Kept(bars'[j], x) = P!Kept(bars[j], x) /\ P!Kept(assigned.bars[j], x) = P!Kept(bars[j], x)
  BY <1>1, Written
<1>3. bars'[n].addr = assigned.bars[n].addr
  BY <1>2 DEF Settled
<1>4. bars'[n] \in Reg /\ bars'[n].kind = assigned.bars[n].kind /\ bars'[n].size = assigned.bars[n].size
  BY <1>2 DEF SameRegisters
<1>5. bars'[n] = assigned.bars[n]
  BY <1>1, <1>3, <1>4 DEF Reg
<1> QED BY <1>2, <1>5

(* a call starts, or returns without having changed a register *)
LEMMA CallsKeep ==
  ASSUME Wide, ProbeInv,
         \/ P!bus_error
         \/ \E bits \in {{"io", "mem"}, {"master"}} : P!pci_set_command_bits(bits, {})
         \/ P!pci_set_command_bits({}, {"master"})
         \/ \E n \in 1 .. 2 : P!bad_bar(n)
         \/ \E l \in {list, ext} \ {P!NoList}, id \in Ids : P!find_capability(l, id)
         \/ P!visit
  PROVE  ProbeInv'
<1>1. CASE P!bus_error
  BY <1>1 DEF P!bus_error, ProbeInv, SameRegisters, Probing, Probe, P!given
<1>2. ASSUME NEW bits, NEW clear, P!pci_set_command_bits(bits, clear) PROVE ProbeInv'
  <2>1. pc = "idle" /\ pc' = "idle" /\ result' = None /\ bars' = bars
    BY <1>2 DEF P!pci_set_command_bits, P!Return, P!config
  <2>2. assigned'.bars = assigned.bars /\ assigned'.command = command'
    <3>1. CASE bars = <<>> /\ UNCHANGED <<P!config, assigned>>
      BY <2>1, <3>1 DEF P!config, ProbeInv, Calm
    <3>2. CASE assigned' = [assigned EXCEPT !.command = command'] /\ UNCHANGED bars
      BY <3>2, <1>2 DEF P!pci_set_command_bits
    <3> QED BY <1>2, <3>1, <3>2 DEF P!pci_set_command_bits
  <2> QED BY <2>1, <2>2 DEF ProbeInv, Calm, Probes, SameRegisters
<1>3. ASSUME NEW n \in 1 .. 2, P!bad_bar(n) PROVE ProbeInv'
  <2>1. pc = "idle" /\ pc' = "idle" /\ result' = [bar |-> None] /\ UNCHANGED <<bars, command, assigned>>
    BY <1>3 DEF P!bad_bar, P!Return, P!config
  <2> QED BY <2>1 DEF ProbeInv, Calm, Probes, SameRegisters
<1>4. ASSUME NEW l, NEW id, P!find_capability(l, id) PROVE ProbeInv'
  <2>1. /\ pc = "idle" /\ pc' = "walk" /\ result' = None /\ UNCHANGED <<bars, command, assigned>>
        /\ saved' = [list |-> l, id |-> id, pointer |-> l.first, visited |-> 0]
    BY <1>4 DEF P!find_capability, P!config
  <2> QED BY <2>1 DEF ProbeInv, Calm, Probes, SameRegisters
<1>5. CASE P!visit
  <2>1. pc = "walk" /\ UNCHANGED <<bars, command, assigned>>
    BY <1>5, SMTT(30) DEF P!visit, P!config
  <2>2. \/ pc' = "idle" /\ \E p : result' = [list |-> saved.list, id |-> saved.id, place |-> p]
        \/ UNCHANGED <<pc, result>> /\ \E x, y : saved' = [saved EXCEPT !.pointer = x, !.visited = y]
    BY <1>5 DEF P!visit, P!Answer, P!Return
  <2> QED BY <2>1, <2>2 DEF ProbeInv, Calm, Probes, SameRegisters
<1> QED BY <1>1, <1>2, <1>3, <1>4, <1>5

(* pci_read_bar reads the register and its upper half *)
LEMMA ReadKeeps ==
  ASSUME Wide, ProbeInv, NEW n \in 1 .. 2, NEW probe \in BOOLEAN, P!pci_read_bar(n, probe)
  PROVE  ProbeInv'
<1> DEFINE is64 == bars[n].kind = "mem64"
           high == IF is64 THEN bars[2].addr ELSE 0
           found == [bar |-> n, address |-> high * P!Power[Width] + bars[n].addr, size |-> 0, probed |-> probe]
<1>1. /\ pc = "idle" /\ bars # <<>> /\ bars[n].kind # "high" /\ ~(is64 /\ n = 2)
      /\ UNCHANGED <<bars, command, assigned>>
  BY DEF P!pci_read_bar, P!config
<1>2. /\ Settled(assigned.bars) /\ SameRegisters /\ bars = assigned.bars /\ command = assigned.command
  BY <1>1 DEF ProbeInv, Calm
<1>3. bars \in [1 .. 2 -> Reg] /\ bars[n].addr \in Nat /\ bars[2].addr \in Nat
  <2>1. P!All \in Int
    <3>1. Width \in 0 .. 2 * Width
      BY DEF Wide
    <3> QED BY <3>1, PowerPositive DEF P!All
  <2> QED BY <1>2, <2>1 DEF SameRegisters, Reg
<1>p. P!Power[Width] \in Nat
  <2>1. Width \in 0 .. 2 * Width
    BY DEF Wide
  <2> QED BY <2>1, PowerPositive
<1>4. CASE ~probe /\ P!Return(found)
  <2>1. pc' = "idle" /\ result' = found
    BY <1>4 DEF P!Return
  <2>2. found.address = bars[n].addr + (IF bars[n].kind = "mem64" THEN bars[2].addr * P!Power[Width] ELSE 0)
    <3>1. high * P!Power[Width] = IF is64 THEN bars[2].addr * P!Power[Width] ELSE 0
      BY <1>p
    <3>2. high * P!Power[Width] \in Nat
      BY <1>p, <1>3
    <3> QED BY <1>3, <3>1, <3>2
  <2>3. found.bar = n /\ found.size = 0 /\ found.probed = FALSE
    BY <1>4
  <2> HIDE DEF found
  <2> QED BY <1>1, <1>2, <2>1, <2>2, <2>3 DEF ProbeInv, Calm, Probes, SameRegisters
<1>5. CASE /\ probe /\ pc' = "decode_off" /\ result' = None
           /\ saved' = [found |-> found, low |-> bars[n].addr, high |-> high, is_64bit |-> is64, command |-> command]
  <2>1. Probing(n)'
    BY <1>1, <1>2, <1>5 DEF Probing
  <2>2. Probe(n)'
    BY <1>5 DEF Probe
  <2> HIDE DEF found, high, is64
  <2> QED BY <1>1, <1>2, <1>5, <2>1, <2>2 DEF ProbeInv, Calm, Probes, SameRegisters
<1> QED BY <1>4, <1>5 DEF P!pci_read_bar


(* the function stops to decode *)
LEMMA DecodeOffKeeps ==
  ASSUME Wide, ProbeInv, P!decode_off PROVE ProbeInv'
<1>1. /\ pc = "decode_off" /\ pc' = "ones" /\ UNCHANGED <<bars, assigned, saved, result>>
      /\ command' = command \ {"io", "mem"}
  BY DEF P!decode_off, P!WriteCommand
<1>2. /\ bars # <<>> /\ bars = assigned.bars /\ Settled(assigned.bars) /\ SameRegisters /\ result = None
  BY <1>1 DEF ProbeInv, Calm
<1>3. PICK b \in 1 .. 2 : Probing(b)
  BY <1>1 DEF ProbeInv
<1>4. Probing(b)' /\ Probe(b)'
  BY <1>1, <1>2, <1>3 DEF Probing, Probe
<1>5. command' \cap {"io", "mem"} = {}
  BY <1>1
<1> QED BY <1>1, <1>2, <1>4, <1>5 DEF ProbeInv, Calm, Probes, SameRegisters

(* what a step of the probe must show *)
LEMMA ProbeGoesOn ==
  ASSUME Wide, ProbeInv, pc \in Probes, pc' \in Probes, UNCHANGED <<command, assigned, result>>,
         bars' # <<>>, SameRegisters', NEW b \in 1 .. 2, Probing(b)', Probe(b)'
  PROVE  ProbeInv'
<1>1. bars # <<>> /\ Settled(assigned.bars) /\ result = None /\ command \cap {"io", "mem"} = {}
  BY DEF ProbeInv, Probes
<1>2. pc' \notin Calm
  BY DEF Calm, Probes
<1>3. pc' # "idle" /\ pc' # "walk"
  BY DEF Probes
<1> QED BY <1>1, <1>2, <1>3 DEF ProbeInv

(* all ones are written, to the lower half first *)
LEMMA OnesKeep ==
  ASSUME Wide, ProbeInv, P!write_ones PROVE ProbeInv'
<1>1. UNCHANGED <<command, assigned, saved, result>> /\ pc \in {"ones", "ones_high"} /\ pc \in Probes
  BY DEF P!write_ones, Probes
<1>2. Settled(assigned.bars) /\ SameRegisters /\ bars # <<>>
  BY <1>1 DEF ProbeInv
<1>3. PICK b \in 1 .. 2 : Probing(b) /\ Probe(b)
  BY <1>1 DEF ProbeInv
<1>4. P!All \in 0 .. P!All
  <2>1. Width \in 0 .. 2 * Width
    BY DEF Wide
  <2> QED BY <2>1, PowerPositive DEF P!All
<1>5. CASE pc = "ones"
  <2>1. P!WriteBar(b, P!All) /\ pc' = IF bars[b].kind = "mem64" THEN "ones_high" ELSE "read_size"
    BY <1>3, <1>5 DEF P!write_ones, Probing
  <2>2. /\ SameRegisters' /\ bars' # <<>> /\ bars'[b].addr = P!Kept(bars[b], P!All) /\ bars'[3 - b] = bars[3 - b]
        /\ \A j \in 1 .. 2 : bars'[j].kind = bars[j].kind /\ bars'[j].size = bars[j].size
        /\ \A j \in 1 .. 2 : \A x : P!Kept(bars'[j], x) = P!Kept(bars[j], x) /\ P!Kept(assigned.bars[j], x) = P!Kept(bars[j], x)
    BY <1>1, <1>2, <1>4, <2>1, Written
  <2>3. bars'[b].addr = P!Kept(bars'[b], P!All)
    BY <2>2
  <2>4. Probing(b)'
    BY <1>1, <1>3, <2>2 DEF Probing
  <2>5. bars = assigned.bars
    BY <1>3, <1>5 DEF Probe
  <2>6. bars'[b].kind = "mem64" => b = 1 /\ bars'[2] = bars[2]
    <3>1. bars'[b].kind = "mem64" => b # 2
      BY <1>3, <2>2 DEF Probing
    <3>2. b = 1 => 3 - b = 2
      OBVIOUS
    <3> QED BY <2>2, <3>1, <3>2
  <2>7. Probe(b)'
    BY <1>1, <2>1, <2>2, <2>3, <2>5, <2>6 DEF Probe
  <2>8. pc' \in Probes
    BY <2>1 DEF Probes
  <2> QED BY <1>1, <2>2, <2>4, <2>7, <2>8, ProbeGoesOn
<1>6. CASE pc = "ones_high"
  <2>1. P!WriteBar(2, P!All) /\ pc' = "read_size"
    BY <1>6 DEF P!write_ones
  <2>2. bars[b].kind = "mem64" /\ b = 1 /\ bars[b].addr = P!Kept(bars[b], P!All)
    BY <1>3, <1>6 DEF Probe, Probing
  <2>3. /\ SameRegisters' /\ bars' # <<>> /\ bars'[2].addr = P!Kept(bars[2], P!All) /\ bars'[3 - 2] = bars[3 - 2]
        /\ \A j \in 1 .. 2 : bars'[j].kind = bars[j].kind /\ bars'[j].size = bars[j].size
        /\ \A j \in 1 .. 2 : \A x : P!Kept(bars'[j], x) = P!Kept(bars[j], x) /\ P!Kept(assigned.bars[j], x) = P!Kept(bars[j], x)
    BY <1>1, <1>2, <1>4, <2>1, Written
  <2>4. bars'[1] = bars[1]
    BY <2>3
  <2>5. bars'[1].addr = P!Kept(bars'[1], P!All) /\ bars'[2].addr = P!Kept(bars'[2], P!All)
    BY <2>2, <2>3, <2>4
  <2>6. Probing(b)'
    BY <1>1, <1>3, <2>3 DEF Probing
  <2>7. Probe(b)'
    BY <2>1, <2>2, <2>4, <2>5 DEF Probe
  <2>8. pc' \in Probes
    BY <2>1 DEF Probes
  <2> QED BY <1>1, <2>3, <2>6, <2>7, <2>8, ProbeGoesOn
<1> QED BY <1>1, <1>5, <1>6

(* the size that is read is that of the register *)
LEMMA SizeKeeps ==
  ASSUME Wide, ProbeInv, P!read_size PROVE ProbeInv'
<1> DEFINE mask == bars[saved.found.bar].addr + (IF saved.is_64bit THEN bars[2].addr * P!Power[Width] ELSE 0)
           top == P!Power[IF saved.is_64bit THEN 2 * Width ELSE Width]
<1>1. /\ pc = "read_size" /\ pc' = (IF saved.is_64bit THEN "restore_high" ELSE "restore_low")
      /\ UNCHANGED <<bars, command, assigned, result>> /\ pc \in Probes
      /\ saved' = [saved EXCEPT !.found.size = IF mask = 0 THEN 0 ELSE top - mask]
  BY DEF P!read_size, P!config, Probes
<1>2. Settled(assigned.bars) /\ SameRegisters /\ bars # <<>>
  BY <1>1 DEF ProbeInv
<1>3. PICK b \in 1 .. 2 : Probing(b) /\ Probe(b)
  BY <1>1 DEF ProbeInv
<1>4. bars \in [1 .. 2 -> Reg] /\ Laid(bars)
  BY <1>2 DEF SameRegisters, Settled, Laid
<1>5. saved.is_64bit = (bars[b].kind = "mem64") /\ saved.found.bar = b /\ bars[b].addr = P!Kept(bars[b], P!All)
  BY <1>1, <1>3 DEF Probing, Probe
<1>6. PICK z : z = IF mask = 0 THEN 0 ELSE top - mask
  OBVIOUS
<1>7. bars[b].kind # "io16" => z = P!Size(bars[b])
  <2>0. bars[b] \in Reg /\ Sized(bars[b]) /\ bars[2] \in Reg
    BY <1>4, LaidRegisters
  <2>1. CASE bars[b].kind = "none"
    <3>1. P!Kept(bars[b], P!All) = 0
      BY <2>0, <2>1, SizeOfOnes
    <3>2. mask = 0
      <4>1. ~saved.is_64bit
        BY <1>5, <2>1, Zenon
      <4>2. mask = 0 + 0
        BY <1>5, <3>1, <4>1, Zenon
      <4> QED BY <4>2
    <3> QED BY <1>6, <2>1, <3>2 DEF P!Size
  <2>2. CASE bars[b].kind \in {"mem32", "io"}
    <3>1. bars[b].size <= Width - 1
      BY <1>4, <2>2 DEF Laid, Wide
    <3>2. P!Kept(bars[b], P!All) # 0 /\ P!Power[Width] - P!Kept(bars[b], P!All) = P!Power[bars[b].size]
      BY <2>0, <2>2, <3>1, SizeOfOnes
    <3>3. mask = P!Kept(bars[b], P!All) /\ top = P!Power[Width]
      <4>1. bars[b].addr \in Int
        <5>1. Width \in 0 .. 2 * Width
          BY DEF Wide
        <5> QED BY <5>1, <2>0, PowerPositive DEF Reg, P!All
      <4>2. ~saved.is_64bit
        <5>1. bars[b].kind # "mem64"
          BY <2>2
        <5> QED BY <1>5, <5>1, Zenon
      <4>3. mask = bars[b].addr + 0 /\ top = P!Power[Width]
        BY <1>5, <4>2, Zenon
      <4> QED BY <1>5, <4>1, <4>3
    <3> HIDE DEF mask, top
    <3> QED BY <1>6, <2>2, <3>2, <3>3 DEF P!Size
  <2>3. CASE bars[b].kind = "mem64"
    <3>1. b = 1 /\ bars[2].kind = "high" /\ bars[2].size = bars[b].size /\ bars[2].addr = P!Kept(bars[2], P!All)
      BY <1>1, <1>3, <1>4, <2>3 DEF Laid, Probing, Probe
    <3>2. LET m == P!Kept(bars[b], P!All) + P!Kept(bars[2], P!All) * P!Power[Width]
          IN  m # 0 /\ P!Power[2 * Width] - m = P!Power[bars[b].size]
      BY <2>0, <2>3, <3>1, SizeOfOnes
    <3>3. mask = P!Kept(bars[b], P!All) + P!Kept(bars[2], P!All) * P!Power[Width] /\ top = P!Power[2 * Width]
      BY <1>5, <2>3, <3>1
    <3> HIDE DEF mask, top
    <3> QED BY <1>6, <2>3, <3>2, <3>3 DEF P!Size
  <2>4. bars[b].kind \in {"none", "mem32", "io", "mem64", "io16"}
    BY <1>3, <2>0 DEF Reg, Kinds, Probing
  <2> QED BY <2>1, <2>2, <2>3, <2>4
<1> HIDE DEF mask, top
<1>8. saved' = [saved EXCEPT !.found.size = z]
  BY <1>1, <1>6
<1>9. /\ saved' = [found |-> [bar |-> b, address |-> saved.found.address, size |-> z, probed |-> TRUE], low |-> saved.low,
                   high |-> saved.high, is_64bit |-> saved.is_64bit, command |-> saved.command]
  BY <1>3, <1>8 DEF Probing
<1>10. Probing(b)'
  BY <1>1, <1>3, <1>9 DEF Probing
<1>11. Probe(b)'
  <2>1. saved'.found.size = z
    BY <1>9
  <2> QED BY <1>1, <1>3, <1>5, <1>7, <2>1 DEF Probe, P!Size
<1>12. pc' \in Probes /\ SameRegisters' /\ bars' # <<>>
  BY <1>1, <1>2 DEF Probes, SameRegisters
<1> QED BY <1>1, <1>10, <1>11, <1>12, ProbeGoesOn

(* the halves of the register are written back, the upper one first *)
LEMMA RestoreKeeps ==
  ASSUME Wide, ProbeInv, P!restore_bar PROVE ProbeInv'
<1>1. UNCHANGED <<command, assigned, saved, result>> /\ pc \in {"restore_high", "restore_low"} /\ pc \in Probes
  BY DEF P!restore_bar, Probes
<1>2. Settled(assigned.bars) /\ SameRegisters /\ bars # <<>>
  BY <1>1 DEF ProbeInv
<1>3. PICK b \in 1 .. 2 : Probing(b) /\ Probe(b)
  BY <1>1 DEF ProbeInv
<1>4. CASE pc = "restore_high"
  <2>1. P!WriteBar(2, assigned.bars[2].addr) /\ pc' = "restore_low" /\ b = 1 /\ bars[b].kind = "mem64"
    BY <1>3, <1>4 DEF P!restore_bar, Probing, Probe
  <2>2. /\ SameRegisters' /\ bars' # <<>> /\ bars'[2] = assigned.bars[2]
        /\ \A j \in 1 .. 2 : bars'[j].kind = bars[j].kind /\ bars'[j].size = bars[j].size
    BY <1>1, <1>2, <2>1, Restored
  <2>3. Probing(b)'
    BY <1>1, <1>3, <2>2 DEF Probing
  <2>4. Probe(b)'
    <3>1. 3 - b = 2
      BY <2>1
    <3>2. bars[b].kind # "io16" => saved.found.size = P!Size(bars[b])
      BY <1>3, <1>4 DEF Probe
    <3>3. P!Size(bars'[b]) = P!Size(bars[b]) /\ bars'[b].kind = bars[b].kind
      BY <2>2 DEF P!Size
    <3> QED BY <1>1, <2>1, <2>2, <3>1, <3>2, <3>3 DEF Probe, P!Size
  <2>5. pc' \in Probes
    BY <2>1 DEF Probes
  <2> QED BY <1>1, <2>2, <2>3, <2>4, <2>5, ProbeGoesOn
<1>5. CASE pc = "restore_low"
  <2>1. P!WriteBar(b, assigned.bars[b].addr) /\ pc' = "restore_command" /\ bars[3 - b] = assigned.bars[3 - b]
    BY <1>3, <1>5 DEF P!restore_bar, Probing, Probe
  <2>2. /\ SameRegisters' /\ bars' # <<>> /\ bars'[b] = assigned.bars[b] /\ bars'[3 - b] = bars[3 - b]
        /\ \A j \in 1 .. 2 : bars'[j].kind = bars[j].kind /\ bars'[j].size = bars[j].size
    BY <1>1, <1>2, <2>1, Restored
  <2>3. Probing(b)'
    BY <1>1, <1>3, <2>2 DEF Probing
  <2>4. bars' = assigned.bars
    <3>1. bars' \in [1 .. 2 -> Reg] /\ assigned.bars \in [1 .. 2 -> Reg]
      BY <1>1, <1>2, <2>2 DEF SameRegisters, Settled
    <3>2. \A j \in 1 .. 2 : j = b \/ j = 3 - b
      OBVIOUS
    <3>3. \A j \in 1 .. 2 : bars'[j] = assigned.bars[j]
      BY <2>1, <2>2, <3>2
    <3> QED BY <3>1, <3>3
  <2>5. Probe(b)'
    <3>2. bars[b].kind # "io16" => saved.found.size = P!Size(bars[b])
      BY <1>3, <1>5 DEF Probe
    <3>3. P!Size(bars'[b]) = P!Size(bars[b]) /\ bars'[b].kind = bars[b].kind
      BY <2>2 DEF P!Size
    <3> QED BY <1>1, <2>1, <2>4, <3>2, <3>3 DEF Probe, P!Size
  <2>6. pc' \in Probes
    BY <2>1 DEF Probes
  <2> QED BY <1>1, <2>2, <2>3, <2>5, <2>6, ProbeGoesOn
<1> QED BY <1>1, <1>4, <1>5

(* the command comes back last, and the call returns *)
LEMMA CommandKeeps ==
  ASSUME Wide, ProbeInv, P!restore_command PROVE ProbeInv'
<1>1. /\ pc = "restore_command" /\ pc' = "idle" /\ result' = saved.found /\ command' = saved.command
      /\ UNCHANGED <<bars, assigned>> /\ pc \in Probes
  BY DEF P!restore_command, P!WriteCommand, P!Return, Probes
<1>2. Settled(assigned.bars) /\ SameRegisters /\ bars # <<>>
  BY <1>1 DEF ProbeInv
<1>3. PICK b \in 1 .. 2 : Probing(b) /\ Probe(b)
  BY <1>1 DEF ProbeInv
<1>4. bars = assigned.bars /\ command' = assigned.command /\ (bars[b].kind # "io16" => saved.found.size = P!Size(bars[b]))
  BY <1>1, <1>3 DEF Probing, Probe
<1>5. result'.bar = b /\ result'.probed = TRUE /\ result'.size = saved.found.size
      /\ result'.address = saved.high * P!Power[Width] + saved.low
  BY <1>1, <1>3 DEF Probing
<1>6. result'.address = bars[b].addr + (IF bars[b].kind = "mem64" THEN bars[2].addr * P!Power[Width] ELSE 0)
  <2>1. P!Power[Width] \in Nat /\ P!All \in Int
    <3>1. Width \in 0 .. 2 * Width
      BY DEF Wide
    <3> QED BY <3>1, PowerPositive DEF P!All
  <2>2. bars[b].addr \in Nat /\ bars[2].addr \in Nat
    BY <1>2, <2>1 DEF SameRegisters, Reg
  <2>3. saved.low = bars[b].addr /\ saved.high = (IF bars[b].kind = "mem64" THEN bars[2].addr ELSE 0)
    BY <1>3, <1>4 DEF Probing
  <2> QED BY <1>5, <2>1, <2>2, <2>3
<1> QED BY <1>1, <1>2, <1>4, <1>5, <1>6 DEF ProbeInv, Calm, Probes, SameRegisters, P!Size

(* every step of the function and of the driver keeps the invariant *)
LEMMA ProbeSteps == Wide /\ ProbeInv /\ [P!Next]_(P!vars) => ProbeInv'
<1> SUFFICES ASSUME Wide, ProbeInv, [P!Next]_(P!vars) PROVE ProbeInv'
  OBVIOUS
<1>1. CASE UNCHANGED P!vars
  BY <1>1 DEF P!vars, P!config, P!given, ProbeInv, SameRegisters, Probing, Probe
<1> QED BY <1>1, CallsKeep, ReadKeeps, DecodeOffKeeps, OnesKeep, SizeKeeps, RestoreKeeps, CommandKeeps DEF P!Next

(* a behaviour of the PCI function keeps the invariant of the probes *)
LEMMA ProbeInvariance == MCSpec => [](part = "Pci" => ProbeInv)
<1>0. Wide
  BY PciAssumption DEF Wide
<1>1. MCInit => (part = "Pci" => ProbeInv)
  BY <1>0, ProbeStarts DEF MCInit
<1>2. (part = "Pci" => ProbeInv) /\ [MCNext]_allVars => (part = "Pci" => ProbeInv)'
  <2> SUFFICES ASSUME part = "Pci" => ProbeInv, [MCNext]_allVars, part' = "Pci" PROVE ProbeInv'
    OBVIOUS
  <2>1. CASE MCNext
    <3>1. part = "Pci" /\ P!Next
      BY <2>1 DEF MCNext
    <3> QED
      BY <3>1, <1>0, ProbeSteps
  <2>2. CASE UNCHANGED allVars
    <3>1. UNCHANGED P!vars
      BY <2>2 DEF allVars, PVars, P!vars, P!config, P!given
    <3> QED
      BY <2>2, <3>1, <1>0, ProbeSteps DEF allVars
  <2> QED
    BY <2>1, <2>2
<1> QED
  BY <1>1, <1>2, PTL DEF MCSpec

(* While a base address register is sized the function decodes nothing; when pci_read_bar is done every *)
(* register and the command are as before, and address and size are right, for registers of any width.  *)
THEOREM PciProbeSafeHolds == MCSpec => []PciProbeSafe
<1>1. (part = "Pci" => ProbeInv) => PciProbeSafe
  BY ProbeInvSafe DEF PciProbeSafe
<1> QED
  BY <1>1, ProbeInvariance, PTL

-----------------------------------------------------------------------------
(* The drives of an IDE channel.  How far a transfer is can be told from the drive's own count as long *)
(* as the drive was at rest when the call began: the sectors moved so far are the first of those asked *)
(* for, and the drive is at the next one.                                                              *)

(* the driver's view never has more sectors than 48-bit addresses reach, if it uses them *)
ViewInv ==
  /\ model \in Models /\ selected \in A!Drives
  /\ drive = [d \in A!Drives |-> [type |-> drive[d].type, lba28 |-> drive[d].lba28, lba48 |-> drive[d].lba48,
                                sectors |-> drive[d].sectors]]
  /\ \A d \in A!Drives : drive[d].sectors \in Nat /\ (drive[d].lba48 => drive[d].sectors <= A!Lba48)

(* no command is at work that cannot address its sectors *)
InReach(c) == c.lba \in Int /\ c.left \in Int /\ c.limit \in Int /\ c.lba + c.left <= c.limit
DevInv ==
  /\ dev = [d \in A!Drives |-> [phase |-> dev[d].phase, op |-> dev[d].op, lba |-> dev[d].lba, left |-> dev[d].left,
                              limit |-> dev[d].limit]]
  /\ cache = [d \in A!Drives |-> cache[d]]
  /\ \A d \in A!Drives : dev[d].op \in {"read", "write"} => InReach(dev[d])

(* the registers hold the address and the count that are asked for *)
Encoded ==
  /\ A!Mode = 28 => /\ A!ToLba(<<regs.low[1], regs.mid[1], regs.high[1], regs.head>>) = call.lba
                  /\ regs.count[1] = call.count
  /\ A!Mode = 48 => /\ A!ToLba(<<regs.low[1], regs.mid[1], regs.high[1], regs.low[2], regs.mid[2], regs.high[2]>>) = call.lba
                  /\ regs.count[1] = call.count /\ regs.count[2] = 0

(* the call at work: what it was given passed the checks, and it has the lock *)
CallInv ==
  /\ pc \in {"idle", "configure", "command", "sector", "finish", "flush", "probe", "identify", "packet"}
  /\ pc = "idle" => ~locked
  /\ pc # "idle" => call.drive \in A!Drives
  /\ pc \in {"configure", "command", "sector", "finish", "flush"} =>
       /\ call.op \in {"read", "write"} /\ call.lba \in Nat /\ call.count \in Nat \ {0}
       /\ call.lba + call.count <= drive[call.drive].sectors
  /\ pc \in {"command", "sector", "finish", "flush"} => selected = call.drive
  /\ pc = "command" => A!Mode \in {28, 48} /\ Encoded
  /\ pc \in {"probe", "identify", "packet"} => call.op = "identify"

(* the first n sectors that were asked for *)
First(n) == [j \in 1 .. n |-> [op |-> call.op, drive |-> call.drive, lba |-> call.lba + j - 1]]

(* how far a call is whose drive was at rest when it began *)
Before == moved = << >> /\ ~A!Working(call.drive)
During ==
  LET c == dev[call.drive] IN
  \E k \in 0 .. call.count - 1 :
    /\ moved = First(k)
    /\ c.phase \in {"busy", "drq"} => c.op = call.op /\ c.lba = call.lba + k /\ c.left = call.count - k
Behind ==
  LET c == dev[call.drive] IN
  /\ moved = First(call.count) /\ c.phase \in {"busy", "ready", "err"}
  /\ c.phase = "busy" => c.op = "write" /\ c.left = 0
Flushing ==
  LET c == dev[call.drive] IN
  /\ call.op = "write" /\ moved = First(call.count) /\ c.phase \in {"busy", "ready", "err"}
  /\ c.phase = "busy" => c.op = "flush"
  /\ c.phase = "ready" => ~cache[call.drive]
Over == moved = First(call.count) /\ (call.op = "write" => ~cache[call.drive])

ProgressInv ==
  /\ pc \in {"configure", "command"} /\ ~call.stale => Before
  /\ pc = "sector" /\ ~call.stale => During
  /\ pc = "finish" /\ ~call.stale => Behind
  /\ pc = "flush" /\ ~call.stale => Flushing
  /\ pc = "idle" /\ call # None /\ call.op # "identify" /\ ata_status = "SUCCESS" /\ ~call.stale =>
       call.drive \in A!Drives /\ Over

AtaInv == ViewInv /\ DevInv /\ CallInv /\ ProgressInv

(* four digits make a 28-bit address, six a 48-bit one *)
LEMMA Digits ==
  /\ \A n \in 0 .. A!Lba28 - 1 : A!ToLba(<<A!Digit(n, 1), A!Digit(n, 2), A!Digit(n, 4), A!Digit(n, 8)>>) = n
  /\ \A n \in 0 .. A!Lba48 - 1 :
       A!ToLba(<<A!Digit(n, 1), A!Digit(n, 2), A!Digit(n, 4), A!Digit(n, 8), A!Digit(n, 16), A!Digit(n, 32)>>) = n
<1>1. \A a, b, c, d : A!ToLba(<<a, b, c, d>>) = a + 2 * b + 4 * c + 8 * d + 0
  BY DEF A!ToLba
<1>2. \A a, b, c, d, x, y : A!ToLba(<<a, b, c, d, x, y>>) = a + 2 * b + 4 * c + 8 * d + (16 * x + 32 * y)
  BY DEF A!ToLba
<1>3. \A n \in 0 .. 15 : A!Digit(n, 1) + 2 * A!Digit(n, 2) + 4 * A!Digit(n, 4) + 8 * A!Digit(n, 8) + 0 = n
  BY DEF A!Digit
<1>4. \A n \in 0 .. 63 : A!Digit(n, 1) + 2 * A!Digit(n, 2) + 4 * A!Digit(n, 4) + 8 * A!Digit(n, 8)
                           + (16 * A!Digit(n, 16) + 32 * A!Digit(n, 32)) = n
  BY DEF A!Digit
<1>5. A!Lba28 - 1 = 15 /\ A!Lba48 - 1 = 63
  BY DEF A!Lba28, A!Lba48
<1> QED
  BY <1>1, <1>2, <1>3, <1>4, <1>5

(* one sector more *)
LEMMA FirstOn ==
  ASSUME NEW n \in Nat
  PROVE  /\ First(n) \in Seq({First(n)[j] : j \in 1 .. n}) /\ Len(First(n)) = n
         /\ Append(First(n), [op |-> call.op, drive |-> call.drive, lba |-> call.lba + (n + 1) - 1]) = First(n + 1)
<1> DEFINE f(j) == [op |-> call.op, drive |-> call.drive, lba |-> call.lba + j - 1]
<1>0. \A m \in Nat : First(m) = [j \in 1 .. m |-> f(j)]
  BY DEF First
<1> HIDE DEF f
<1>1. First(n) \in Seq({First(n)[j] : j \in 1 .. n}) /\ Len(First(n)) = n
  BY <1>0
<1>2. Append(First(n), f(n + 1)) = First(n + 1)
  BY <1>0
<1> QED
  BY <1>1, <1>2 DEF f

(* a drive goes on with a command, of this call or of one that gave it up *)
LEMMA WorksKeeps ==
  ASSUME NEW d \in A!Drives, A!drive_works(d), AtaInv
  PROVE  AtaInv'
<1> DEFINE c == dev[d]
<1>1. c.phase = "busy" /\ UNCHANGED <<model, drive, locked, selected, regs, call, pc, ata_status, moved>>
  BY DEF A!drive_works
<1>2. PICK p : /\ dev' = [dev EXCEPT ![d] = IF p = "drq" THEN [c EXCEPT !.phase = p] ELSE A!Idle(p)]
               /\ cache' = IF c.op = "flush" /\ p = "ready" THEN [cache EXCEPT ![d] = FALSE] ELSE cache
               /\ c.op \in {"read", "write"} => p = (IF c.left = 0 THEN "ready" ELSE "drq") \/ p = "err"
               /\ c.op = "flush" => p \in {"ready", "err"}
  <2>1. c.op \in {"read", "write"} \/ c.op = "flush" \/ c.op \notin {"read", "write", "flush"}
    OBVIOUS
  <2>2. CASE c.op \in {"read", "write"}
    <3>1. /\ c.op # "identify" /\ c.op # "identify_packet" /\ c.op # "flush"
      BY <2>2
    <3> QED
      BY <2>2, <3>1 DEF A!drive_works
  <2>3. CASE c.op = "flush"
    BY <2>3 DEF A!drive_works
  <2>4. CASE c.op \notin {"read", "write", "flush"}
    BY <2>4 DEF A!drive_works
  <2> QED
    BY <2>1, <2>2, <2>3, <2>4
<1>3. /\ DOMAIN dev = A!Drives /\ DOMAIN dev' = A!Drives
      /\ c = [phase |-> c.phase, op |-> c.op, lba |-> c.lba, left |-> c.left, limit |-> c.limit]
      /\ dev'[d] = IF p = "drq" THEN [c EXCEPT !.phase = p] ELSE A!Idle(p)
      /\ \A e \in A!Drives \ {d} : dev'[e] = dev[e]
  BY <1>2 DEF AtaInv, DevInv
<1>4. /\ dev'[d].phase = p
      /\ p = "drq" => dev'[d].op = c.op /\ dev'[d].lba = c.lba /\ dev'[d].left = c.left /\ dev'[d].limit = c.limit
      /\ p # "drq" => dev'[d].lba = 0 /\ dev'[d].left = 0 /\ dev'[d].limit = 0
      /\ dev'[d] = [phase |-> dev'[d].phase, op |-> dev'[d].op, lba |-> dev'[d].lba, left |-> dev'[d].left, limit |-> dev'[d].limit]
  <2>1. CASE p = "drq"
    BY <1>3, <2>1
  <2>2. CASE p # "drq"
    <3>1. dev'[d] = [phase |-> p, op |-> None, lba |-> 0, left |-> 0, limit |-> 0]
      BY <1>3, <2>2 DEF A!Idle
    <3> QED
      BY <2>2, <3>1
  <2> QED
    BY <2>1, <2>2
<1>5. DOMAIN cache = A!Drives /\ cache' = [e \in A!Drives |-> cache'[e]] /\ \A e \in A!Drives : cache'[e] = cache[e] \/ ~cache'[e]
  BY <1>2 DEF AtaInv, DevInv
<1>6. DevInv'
  <2>1. dev' = [e \in A!Drives |-> [phase |-> dev'[e].phase, op |-> dev'[e].op, lba |-> dev'[e].lba, left |-> dev'[e].left,
                                  limit |-> dev'[e].limit]]
    <3>1. ASSUME NEW e \in A!Drives
          PROVE dev'[e] = [phase |-> dev'[e].phase, op |-> dev'[e].op, lba |-> dev'[e].lba, left |-> dev'[e].left,
                           limit |-> dev'[e].limit]
      <4>1. CASE e = d
        BY <1>4, <4>1
      <4>2. CASE e # d
        BY <1>3, <4>2 DEF AtaInv, DevInv
      <4> QED
        BY <4>1, <4>2
    <3>2. dev' = [e \in A!Drives |-> dev'[e]]
      BY <1>2, <1>3
    <3> QED
      BY <3>1, <3>2
  <2>2. ASSUME NEW e \in A!Drives, dev'[e].op \in {"read", "write"} PROVE InReach(dev'[e])
    <3>1. CASE e = d /\ p = "drq"
      BY <1>4, <2>2, <3>1 DEF AtaInv, DevInv, InReach
    <3>2. CASE e = d /\ p # "drq"
      BY <1>4, <3>2 DEF InReach
    <3>3. CASE e # d
      BY <1>3, <2>2, <3>3 DEF AtaInv, DevInv
    <3> QED
      BY <3>1, <3>2, <3>3
  <2> QED
    BY <1>5, <2>1, <2>2 DEF DevInv
<1>7. ViewInv' /\ CallInv'
  BY <1>1 DEF AtaInv, ViewInv, CallInv, Encoded, A!Mode, A!Fits28
<1>8. \A n : First(n)' = First(n)
  BY <1>1 DEF First
<1>9. ASSUME pc \in {"configure", "command"}, ~call.stale PROVE Before'
  <2>1. ~A!Working(call.drive) /\ call.drive \in A!Drives /\ moved = << >>
    BY <1>9 DEF AtaInv, ProgressInv, Before, CallInv
  <2>2. d # call.drive
    BY <1>1, <2>1 DEF A!Working
  <2> QED
    BY <1>1, <1>3, <2>1, <2>2 DEF Before, A!Working
<1>10. ASSUME pc = "sector", ~call.stale PROVE During'
  <2>1. call.drive \in A!Drives /\ call.op \in {"read", "write"} /\ call.count \in Nat
    BY <1>10 DEF AtaInv, CallInv
  <2>2. PICK k \in 0 .. call.count - 1 :
          /\ moved = First(k)
          /\ dev[call.drive].phase \in {"busy", "drq"} =>
               dev[call.drive].op = call.op /\ dev[call.drive].lba = call.lba + k /\ dev[call.drive].left = call.count - k
    BY <1>10 DEF AtaInv, ProgressInv, During
  <2>3. dev'[call.drive].phase \in {"busy", "drq"} =>
          dev'[call.drive].op = call.op /\ dev'[call.drive].lba = call.lba + k /\ dev'[call.drive].left = call.count - k
    <3>1. CASE d = call.drive
      <4>1. c.op = call.op /\ c.left = call.count - k /\ c.left # 0
        BY <1>1, <2>1, <2>2, <3>1
      <4>2. p \in {"drq", "err"}
        BY <1>2, <2>1, <4>1
      <4> QED
        BY <1>1, <1>4, <2>2, <3>1, <4>2
    <3>2. CASE d # call.drive
      BY <1>3, <2>1, <2>2, <3>2
    <3> QED
      BY <3>1, <3>2
  <2> QED
    BY <1>1, <1>8, <2>2, <2>3 DEF During
<1>11. ASSUME pc = "finish", ~call.stale PROVE Behind'
  <2>1. call.drive \in A!Drives /\ Behind
    BY <1>11 DEF AtaInv, CallInv, ProgressInv
  <2>2. CASE d = call.drive
    <3>1. p \in {"ready", "err"}
      BY <1>1, <1>2, <2>1, <2>2 DEF Behind
    <3> QED
      BY <1>1, <1>4, <1>8, <2>1, <2>2, <3>1 DEF Behind
  <2>3. CASE d # call.drive
    BY <1>1, <1>3, <1>8, <2>1, <2>3 DEF Behind
  <2> QED
    BY <2>2, <2>3
<1>12. ASSUME pc = "flush", ~call.stale PROVE Flushing'
  <2>1. call.drive \in A!Drives /\ Flushing
    BY <1>12 DEF AtaInv, CallInv, ProgressInv
  <2>2. CASE d = call.drive
    <3>1. p \in {"ready", "err"} /\ c.op = "flush"
      BY <1>1, <1>2, <2>1, <2>2 DEF Flushing
    <3>2. p = "ready" => ~cache'[d]
      BY <1>2, <1>5, <3>1
    <3> QED
      BY <1>1, <1>4, <1>8, <2>1, <2>2, <3>1, <3>2 DEF Flushing
  <2>3. CASE d # call.drive
    BY <1>1, <1>3, <1>5, <1>8, <2>1, <2>3 DEF Flushing
  <2> QED
    BY <2>2, <2>3
<1>13. ASSUME pc = "idle", call # None, call.op # "identify", ata_status = "SUCCESS", ~call.stale PROVE call.drive \in A!Drives /\ Over'
  <2>1. call.drive \in A!Drives /\ Over
    BY <1>13 DEF AtaInv, ProgressInv
  <2> QED
    BY <1>1, <1>5, <1>8, <2>1 DEF Over
<1>14. ProgressInv'
  BY <1>1, <1>9, <1>10, <1>11, <1>12, <1>13 DEF ProgressInv
<1> QED
  BY <1>6, <1>7, <1>14 DEF AtaInv

(* a call begins, or is rejected *)
LEMMA StartKeeps ==
  ASSUME A!Attached, AtaInv, NEW d \in A!Drives,
         \/ A!ata_probe_device(d)
         \/ \E lba \in Lbas, count \in Counts, op \in {"read", "write"} : A!transfer(op, d, lba, count)
         \/ \E why : A!rejected(d, why)
  PROVE  AtaInv'
<1>1. CASE A!ata_probe_device(d)
  <2>1. /\ drive' = [drive EXCEPT ![d] = A!Unknown] /\ selected' = d /\ pc' = "probe"
        /\ call' = [op |-> "identify", drive |-> d] /\ UNCHANGED <<model, dev, cache>>
    BY <1>1 DEF A!ata_probe_device
  <2>2. ViewInv'
    <3>1. A!Unknown = [type |-> A!Unknown.type, lba28 |-> A!Unknown.lba28, lba48 |-> A!Unknown.lba48, sectors |-> A!Unknown.sectors]
      BY DEF A!Unknown
    <3>2. A!Unknown.sectors = 0 /\ ~A!Unknown.lba48
      BY DEF A!Unknown
    <3>3. DOMAIN drive = A!Drives /\ drive'[d] = A!Unknown /\ \A e \in A!Drives \ {d} : drive'[e] = drive[e]
      BY <2>1 DEF AtaInv, ViewInv
    <3>4. \A e \in A!Drives : drive'[e] = [type |-> drive'[e].type, lba28 |-> drive'[e].lba28, lba48 |-> drive'[e].lba48,
                                         sectors |-> drive'[e].sectors]
      BY <3>1, <3>3 DEF AtaInv, ViewInv
    <3>5. drive' = [e \in A!Drives |-> drive'[e]]
      BY <2>1, <3>3
    <3>6. \A e \in A!Drives : drive'[e].sectors \in Nat /\ (drive'[e].lba48 => drive'[e].sectors <= A!Lba48)
      BY <3>2, <3>3 DEF AtaInv, ViewInv
    <3> QED
      BY <2>1, <3>4, <3>5, <3>6 DEF AtaInv, ViewInv
  <2>3. DevInv'
    BY <2>1 DEF AtaInv, DevInv
  <2>4. CallInv'
    BY <2>1 DEF CallInv
  <2>5. ProgressInv'
    BY <2>1 DEF ProgressInv
  <2> QED
    BY <2>2, <2>3, <2>4, <2>5 DEF AtaInv
<1>2. CASE \E lba \in Lbas, count \in Counts, op \in {"read", "write"} : A!transfer(op, d, lba, count)
  <2>1. PICK lba \in Lbas, count \in Counts, op \in {"read", "write"} : A!transfer(op, d, lba, count)
    BY <1>2
  <2>2. /\ A!Invalid(d, lba, count, TRUE) = "no" /\ pc' = "configure" /\ moved' = << >>
        /\ call' = [op |-> op, drive |-> d, lba |-> lba, count |-> count, stale |-> A!Working(d)]
        /\ UNCHANGED <<model, drive, selected, regs, dev, cache>>
    BY <2>1 DEF A!transfer
  <2>3. lba \in Nat /\ count \in Nat
    BY DEF A!Attached
  <2>4. drive[d].sectors \in Nat
    BY DEF AtaInv, ViewInv
  <2>5. count # 0 /\ lba + count <= drive[d].sectors
    <3>1. CASE drive[d].type # "ata"
      BY <2>2, <3>1 DEF A!Invalid
    <3>2. CASE drive[d].type = "ata" /\ (count = 0 \/ lba >= drive[d].sectors \/ count > drive[d].sectors - lba)
      BY <2>2, <3>2 DEF A!Invalid
    <3>3. CASE drive[d].type = "ata" /\ ~(count = 0 \/ lba >= drive[d].sectors \/ count > drive[d].sectors - lba)
      BY <2>3, <2>4, <3>3
    <3> QED
      BY <3>1, <3>2, <3>3
  <2>6. /\ call'.op = op /\ call'.drive = d /\ call'.lba = lba /\ call'.count = count /\ call'.stale = A!Working(d)
    BY <2>2
  <2>7. ViewInv' /\ DevInv'
    BY <2>2 DEF AtaInv, ViewInv, DevInv
  <2>8. CallInv'
    BY <2>2, <2>3, <2>5, <2>6 DEF CallInv
  <2>9. ProgressInv'
    BY <2>2, <2>6 DEF ProgressInv, Before, A!Working
  <2> QED
    BY <2>7, <2>8, <2>9 DEF AtaInv
<1>3. CASE \E why : A!rejected(d, why)
  <2>1. pc = "idle" /\ call' = None /\ UNCHANGED <<model, drive, locked, selected, regs, dev, cache, pc>>
    BY <1>3 DEF A!rejected
  <2>2. ViewInv' /\ DevInv' /\ CallInv'
    BY <2>1 DEF AtaInv, ViewInv, DevInv, CallInv
  <2>3. ProgressInv'
    BY <2>1 DEF ProgressInv
  <2> QED
    BY <2>2, <2>3 DEF AtaInv
<1> QED
  BY <1>1, <1>2, <1>3

(* a call ends without success: the lock is released *)
LEMMA ErrorKeeps ==
  ASSUME AtaInv, A!io_error
  PROVE  AtaInv'
<1>1. ata_status' = "ERR_IO" /\ locked' = FALSE /\ pc' = "idle" /\ UNCHANGED <<model, drive, selected, regs, dev, cache, call, moved>>
  BY DEF A!io_error, A!Unlock
<1>2. ViewInv' /\ DevInv'
  BY <1>1 DEF AtaInv, ViewInv, DevInv
<1>3. CallInv'
  BY <1>1 DEF CallInv
<1>4. ProgressInv'
  BY <1>1 DEF ProgressInv
<1> QED
  BY <1>2, <1>3, <1>4 DEF AtaInv

(* the address goes into the registers, 28 bits of it or 48 *)
LEMMA ConfigureKeeps ==
  ASSUME AtaInv, A!ata_configure_lba
  PROVE  AtaInv'
<1> DEFINE D(w) == A!Digit(call.lba, w)
<1>1. /\ pc = "configure" /\ pc' = "command" /\ selected' = call.drive /\ A!Mode # 0
      /\ UNCHANGED <<model, locked, call, ata_status, drive, dev, cache, moved>>
  BY DEF A!ata_configure_lba, A!Same
<1>2. regs' = IF A!Mode = 28
              THEN [count |-> A!Put(regs.count, call.count), low |-> A!Put(regs.low, D(1)), mid |-> A!Put(regs.mid, D(2)),
                    high |-> A!Put(regs.high, D(4)), head |-> D(8)]
              ELSE [count |-> <<call.count, 0>>, low |-> <<D(1), D(8)>>, mid |-> <<D(2), D(16)>>,
                    high |-> <<D(4), D(32)>>, head |-> 0]
  BY DEF A!ata_configure_lba
<1>3. call.op \in {"read", "write"} /\ call.lba \in Nat /\ call.count \in Nat \ {0} /\ call.drive \in A!Drives
  BY <1>1 DEF AtaInv, CallInv
<1>4. A!Mode \in {28, 48} /\ (A!Mode = 28 => call.lba < A!Lba28) /\ (A!Mode = 48 => call.lba < A!Lba48) /\ A!Mode' = A!Mode
  BY <1>1 DEF A!Mode, A!Fits28
<1> HIDE DEF D
<1>5. ASSUME A!Mode = 28 PROVE Encoded'
  <2>1. /\ regs'.count[1] = call.count /\ regs'.low[1] = D(1) /\ regs'.mid[1] = D(2) /\ regs'.high[1] = D(4) /\ regs'.head = D(8)
    BY <1>2, <1>5 DEF A!Put
  <2>2. call.lba \in 0 .. A!Lba28 - 1
    BY <1>3, <1>4, <1>5 DEF A!Lba28
  <2>3. A!ToLba(<<D(1), D(2), D(4), D(8)>>) = call.lba
    BY <2>2, Digits DEF D
  <2> QED
    BY <1>1, <1>4, <1>5, <2>1, <2>3 DEF Encoded
<1>6. ASSUME A!Mode = 48 PROVE Encoded'
  <2>1. /\ regs'.count[1] = call.count /\ regs'.count[2] = 0
        /\ regs'.low[1] = D(1) /\ regs'.mid[1] = D(2) /\ regs'.high[1] = D(4)
        /\ regs'.low[2] = D(8) /\ regs'.mid[2] = D(16) /\ regs'.high[2] = D(32)
    BY <1>2, <1>6
  <2>2. call.lba \in 0 .. A!Lba48 - 1
    BY <1>3, <1>4, <1>6 DEF A!Lba48
  <2>3. A!ToLba(<<D(1), D(2), D(4), D(8), D(16), D(32)>>) = call.lba
    BY <2>2, Digits DEF D
  <2> QED
    BY <1>1, <1>4, <1>6, <2>1, <2>3 DEF Encoded
<1> QED
  <2>1. ViewInv' /\ DevInv'
    BY <1>1, <1>3 DEF AtaInv, ViewInv, DevInv
  <2>2. Encoded'
    BY <1>4, <1>5, <1>6
  <2>3. CallInv'
    BY <1>1, <1>3, <1>4, <2>2 DEF AtaInv, CallInv
  <2>4. ProgressInv'
    BY <1>1 DEF AtaInv, ProgressInv, Before, A!Working
  <2> QED
    BY <2>1, <2>3, <2>4 DEF AtaInv

(* what a command leaves of a drive *)
LEMMA Commanded ==
  ASSUME DevInv, selected \in A!Drives, NEW op, NEW wide \in BOOLEAN, A!Command(selected, op, wide), UNCHANGED cache,
         dev[selected].phase \notin {"absent", "busy"} /\ op \in {"read", "write"} =>
           LET lba == IF wide THEN A!ToLba(<<regs.low[1], regs.mid[1], regs.high[1], regs.low[2], regs.mid[2], regs.high[2]>>)
                      ELSE A!ToLba(<<regs.low[1], regs.mid[1], regs.high[1], regs.head>>)
               left == regs.count[1] + IF wide THEN 256 * regs.count[2] ELSE 0
           IN lba \in Int /\ left \in Int /\ lba + left <= IF wide THEN A!Lba48 ELSE A!Lba28
  PROVE  /\ DevInv'
         /\ dev[selected].phase \in {"absent", "busy"} => dev' = dev
         /\ dev[selected].phase \notin {"absent", "busy"} =>
              /\ dev'[selected].phase = "busy" /\ dev'[selected].op = op
              /\ dev'[selected].lba = IF wide THEN A!ToLba(<<regs.low[1], regs.mid[1], regs.high[1], regs.low[2], regs.mid[2], regs.high[2]>>)
                                      ELSE A!ToLba(<<regs.low[1], regs.mid[1], regs.high[1], regs.head>>)
              /\ dev'[selected].left = regs.count[1] + IF wide THEN 256 * regs.count[2] ELSE 0
<1>1. CASE dev[selected].phase \in {"absent", "busy"}
  <2>1. dev' = dev
    BY <1>1 DEF A!Command
  <2> QED
    BY <1>1, <2>1 DEF DevInv
<1>2. CASE dev[selected].phase \notin {"absent", "busy"}
  <2>1. PICK lba, left, limit :
          /\ lba = IF wide THEN A!ToLba(<<regs.low[1], regs.mid[1], regs.high[1], regs.low[2], regs.mid[2], regs.high[2]>>)
                   ELSE A!ToLba(<<regs.low[1], regs.mid[1], regs.high[1], regs.head>>)
          /\ left = regs.count[1] + IF wide THEN 256 * regs.count[2] ELSE 0
          /\ limit = IF wide THEN A!Lba48 ELSE A!Lba28
          /\ dev' = [dev EXCEPT ![selected] = [phase |-> "busy", op |-> op, lba |-> lba, left |-> left, limit |-> limit]]
    BY <1>2, ZenonT(40) DEF A!Command
  <2>2. op \in {"read", "write"} => lba \in Int /\ left \in Int /\ limit \in Int /\ lba + left <= limit
    BY <1>2, <2>1 DEF A!Lba48, A!Lba28
  <2>3. PICK x : x = [phase |-> "busy", op |-> op, lba |-> lba, left |-> left, limit |-> limit]
    OBVIOUS
  <2>4. /\ x.phase = "busy" /\ x.op = op /\ x.lba = lba /\ x.left = left /\ x.limit = limit
        /\ x = [phase |-> x.phase, op |-> x.op, lba |-> x.lba, left |-> x.left, limit |-> x.limit]
    BY <2>3
  <2>5. DOMAIN dev = A!Drives /\ dev'[selected] = x /\ \A d \in A!Drives \ {selected} : dev'[d] = dev[d]
    BY <2>1, <2>3 DEF DevInv
  <2>6. dev' = [d \in A!Drives |-> dev'[d]]
    BY <2>1, <2>5
  <2>7. ASSUME NEW d \in A!Drives
        PROVE /\ dev'[d] = [phase |-> dev'[d].phase, op |-> dev'[d].op, lba |-> dev'[d].lba, left |-> dev'[d].left, limit |-> dev'[d].limit]
              /\ dev'[d].op \in {"read", "write"} => InReach(dev'[d])
    <3>1. CASE d = selected
      BY <2>2, <2>4, <2>5, <3>1 DEF InReach
    <3>2. CASE d # selected
      BY <2>5, <3>2 DEF DevInv
    <3> QED
      BY <3>1, <3>2
  <2>8. DevInv'
    BY <2>6, <2>7 DEF DevInv
  <2> QED
    BY <1>2, <2>1, <2>4, <2>5, <2>8
<1> QED
  BY <1>1, <1>2

(* the command of a transfer is sent *)
LEMMA SendKeeps ==
  ASSUME AtaInv, A!send_command
  PROVE  AtaInv'
<1>1. /\ pc = "command" /\ pc' = "sector" /\ A!Command(selected, call.op, A!Mode = 48)
      /\ UNCHANGED <<model, locked, call, ata_status, drive, selected, regs, cache, moved>>
  BY DEF A!send_command, A!Same
<1>2. /\ call.op \in {"read", "write"} /\ call.lba \in Nat /\ call.count \in Nat \ {0} /\ call.drive \in A!Drives
      /\ call.lba + call.count <= drive[call.drive].sectors /\ selected = call.drive
      /\ A!Mode \in {28, 48} /\ Encoded /\ drive[call.drive].sectors \in Nat
      /\ (drive[call.drive].lba48 => drive[call.drive].sectors <= A!Lba48)
  BY <1>1 DEF AtaInv, CallInv, ViewInv
<1>3. /\ A!Mode = 28 => call.lba + call.count <= A!Lba28
      /\ A!Mode = 48 => call.lba + call.count <= A!Lba48
  BY <1>2 DEF A!Mode, A!Fits28, A!Lba28, A!Lba48
<1>4. PICK wide \in BOOLEAN : wide = (A!Mode = 48)
  OBVIOUS
<1>5. /\ (IF wide THEN A!ToLba(<<regs.low[1], regs.mid[1], regs.high[1], regs.low[2], regs.mid[2], regs.high[2]>>)
          ELSE A!ToLba(<<regs.low[1], regs.mid[1], regs.high[1], regs.head>>)) = call.lba
      /\ (regs.count[1] + IF wide THEN 256 * regs.count[2] ELSE 0) = call.count
  <2>1. CASE A!Mode = 28
    <3>a. A!Mode # 48
      BY <2>1
    <3>1. ~wide
      BY <1>4, <3>a, Zenon
    <3>2. /\ A!ToLba(<<regs.low[1], regs.mid[1], regs.high[1], regs.head>>) = call.lba
          /\ regs.count[1] = call.count
      BY <1>2, <2>1, Zenon DEF Encoded
    <3>3. regs.count[1] + 0 = call.count
      BY <1>2, <3>2
    <3> QED
      BY <3>1, <3>2, <3>3, Zenon
  <2>2. CASE A!Mode = 48
    <3>1. wide
      BY <1>4, <2>2
    <3>2. /\ A!ToLba(<<regs.low[1], regs.mid[1], regs.high[1], regs.low[2], regs.mid[2], regs.high[2]>>) = call.lba
          /\ regs.count[1] = call.count /\ regs.count[2] = 0
      BY <1>2, <2>2, Zenon DEF Encoded
    <3>3. regs.count[1] + 256 * regs.count[2] = call.count
      BY <1>2, <3>2
    <3> QED
      BY <3>1, <3>2, <3>3, Zenon
  <2> QED
    BY <1>2, <2>1, <2>2
<1>6. call.lba + call.count <= IF wide THEN A!Lba48 ELSE A!Lba28
  BY <1>2, <1>3, <1>4
<1>7. /\ DevInv'
      /\ dev[selected].phase \in {"absent", "busy"} => dev' = dev
      /\ dev[selected].phase \notin {"absent", "busy"} =>
           /\ dev'[selected].phase = "busy" /\ dev'[selected].op = call.op
           /\ dev'[selected].lba = call.lba /\ dev'[selected].left = call.count
  <2>1. DevInv /\ selected \in A!Drives /\ UNCHANGED cache
    BY <1>1, <1>2 DEF AtaInv
  <2>2. PICK op : op = call.op
    OBVIOUS
  <2>3. A!Command(selected, op, wide)
    BY <1>1, <1>4, <2>2
  <2>4. call.lba \in Int /\ call.count \in Int
    BY <1>2
  <2> QED
    BY <1>5, <1>6, <2>1, <2>2, <2>3, <2>4, Commanded
<1>8. ViewInv' /\ CallInv'
  BY <1>1 DEF AtaInv, ViewInv, CallInv
<1>9. ASSUME ~call.stale PROVE During'
  <2>1. moved = << >> /\ ~A!Working(call.drive)
    BY <1>1, <1>9 DEF AtaInv, ProgressInv, Before
  <2>2. 0 \in 0 .. call.count - 1 /\ call.lba + 0 = call.lba /\ call.count - 0 = call.count
    BY <1>2
  <2>3. First(0)' = << >>
    BY DEF First
  <2>4. dev'[call.drive].phase \in {"busy", "drq"} =>
          dev'[call.drive].op = call.op /\ dev'[call.drive].lba = call.lba + 0 /\ dev'[call.drive].left = call.count - 0
    BY <1>2, <1>7, <2>1, <2>2 DEF A!Working
  <2> QED
    BY <1>1, <2>1, <2>2, <2>3, <2>4 DEF During
<1> QED
  BY <1>1, <1>7, <1>8, <1>9 DEF AtaInv, ProgressInv

(* a sector goes through the data register *)
LEMMA SectorKeeps ==
  ASSUME AtaInv, A!sector
  PROVE  AtaInv'
<1> DEFINE c == dev[selected]
<1>1. /\ pc = "sector" /\ c.phase = "drq" /\ A!MoveSector(selected)
      /\ pc' = IF Len(moved') = call.count THEN "finish" ELSE "sector"
      /\ UNCHANGED <<model, locked, call, ata_status, drive, selected, regs>>
  BY DEF A!sector, A!Same, A!Status
<1>2. /\ call.op \in {"read", "write"} /\ call.lba \in Nat /\ call.count \in Nat \ {0} /\ call.drive \in A!Drives
      /\ selected = call.drive /\ selected \in A!Drives
  BY <1>1 DEF AtaInv, CallInv
<1>3. /\ dev' = [dev EXCEPT ![selected] = IF c.op = "read" /\ c.left = 1 THEN A!Idle("ready")
                                          ELSE [c EXCEPT !.phase = "busy", !.lba = @ + 1, !.left = @ - 1]]
      /\ cache' = IF c.op = "write" THEN [cache EXCEPT ![selected] = TRUE] ELSE cache
      /\ moved' = Append(moved, [op |-> c.op, drive |-> selected, lba |-> c.lba])
  BY <1>1, SMTT(30) DEF A!MoveSector
<1>4. /\ DOMAIN dev = A!Drives /\ DOMAIN cache = A!Drives
      /\ c = [phase |-> c.phase, op |-> c.op, lba |-> c.lba, left |-> c.left, limit |-> c.limit]
      /\ dev'[selected] = IF c.op = "read" /\ c.left = 1 THEN A!Idle("ready")
                          ELSE [c EXCEPT !.phase = "busy", !.lba = @ + 1, !.left = @ - 1]
      /\ \A d \in A!Drives \ {selected} : dev'[d] = dev[d]
  BY <1>2, <1>3, ZenonT(40) DEF AtaInv, DevInv
<1>5. PICK x : x = dev'[selected]
  OBVIOUS
<1>6. /\ x = [phase |-> x.phase, op |-> x.op, lba |-> x.lba, left |-> x.left, limit |-> x.limit]
      /\ c.op = "read" /\ c.left = 1 => x.phase = "ready" /\ x.lba = 0 /\ x.left = 0 /\ x.limit = 0
      /\ ~(c.op = "read" /\ c.left = 1) =>
           x.phase = "busy" /\ x.op = c.op /\ x.lba = c.lba + 1 /\ x.left = c.left - 1 /\ x.limit = c.limit
  <2>1. CASE c.op = "read" /\ c.left = 1
    BY <1>4, <1>5, <2>1 DEF A!Idle
  <2>2. CASE ~(c.op = "read" /\ c.left = 1)
    BY <1>4, <1>5, <2>2
  <2> QED
    BY <2>1, <2>2
<1>7. DevInv'
  <2>1. dev' = [d \in A!Drives |-> dev'[d]] /\ cache' = [d \in A!Drives |-> cache'[d]]
    BY <1>2, <1>3, <1>4, ZenonT(40) DEF AtaInv, DevInv
  <2>2. ASSUME NEW d \in A!Drives
        PROVE /\ dev'[d] = [phase |-> dev'[d].phase, op |-> dev'[d].op, lba |-> dev'[d].lba, left |-> dev'[d].left, limit |-> dev'[d].limit]
              /\ dev'[d].op \in {"read", "write"} => InReach(dev'[d])
    <3>1. CASE d = selected
      <4>1. c.op \in {"read", "write"} => InReach(c)
        BY <1>2 DEF AtaInv, DevInv
      <4>2. x.op \in {"read", "write"} => InReach(x)
        BY <1>6, <4>1 DEF InReach
      <4> QED
        BY <1>5, <1>6, <3>1, <4>2
    <3>2. CASE d # selected
      <4>1. DevInv /\ dev'[d] = dev[d]
        BY <1>4, <3>2 DEF AtaInv
      <4>2. /\ dev[d] = [phase |-> dev[d].phase, op |-> dev[d].op, lba |-> dev[d].lba, left |-> dev[d].left, limit |-> dev[d].limit]
            /\ dev[d].op \in {"read", "write"} => InReach(dev[d])
        BY <4>1 DEF DevInv
      <4> QED
        BY <4>1, <4>2
    <3> QED
      BY <3>1, <3>2
  <2> QED
    BY <2>1, <2>2 DEF DevInv
<1>8. ViewInv' /\ CallInv'
  BY <1>1 DEF AtaInv, ViewInv, CallInv
<1>9. ASSUME ~call.stale PROVE (pc' = "sector" => During') /\ (pc' = "finish" => Behind')
  <2>1. PICK k \in 0 .. call.count - 1 :
          moved = First(k) /\ c.op = call.op /\ c.lba = call.lba + k /\ c.left = call.count - k
    BY <1>1, <1>2, <1>9 DEF AtaInv, ProgressInv, During
  <2>2. moved' = First(k + 1) /\ Len(moved') = k + 1
    <3>1. k \in Nat /\ k + 1 \in Nat /\ call.lba + (k + 1) - 1 = call.lba + k
      BY <1>2
    <3>2. moved' = Append(First(k), [op |-> call.op, drive |-> call.drive, lba |-> call.lba + (k + 1) - 1])
      BY <1>2, <1>3, <2>1, <3>1
    <3> QED
      BY <3>1, <3>2, FirstOn
  <2>3. \A n : First(n)' = First(n)
    BY <1>1 DEF First
  <2>4. CASE k + 1 = call.count
    <3>1. pc' = "finish" /\ c.left = 1
      BY <1>1, <1>2, <2>1, <2>2, <2>4
    <3>2. x.phase \in {"busy", "ready", "err"} /\ (x.phase = "busy" => x.op = "write" /\ x.left = 0)
      BY <1>2, <1>6, <2>1, <3>1
    <3> QED
      BY <1>1, <1>2, <1>5, <2>2, <2>3, <2>4, <3>1, <3>2 DEF Behind
  <2>5. CASE k + 1 # call.count
    <3>1. pc' = "sector" /\ c.left # 1 /\ k + 1 \in 0 .. call.count - 1
      BY <1>1, <1>2, <2>1, <2>2, <2>5
    <3>2. x.op = call.op /\ x.lba = call.lba + (k + 1) /\ x.left = call.count - (k + 1)
      BY <1>2, <1>6, <2>1, <3>1
    <3> QED
      BY <1>1, <1>2, <1>5, <2>2, <2>3, <3>1, <3>2 DEF During
  <2> QED
    BY <2>4, <2>5
<1> QED
  BY <1>1, <1>7, <1>8, <1>9 DEF AtaInv, ProgressInv

(* the end of a transfer; a write has the cache flushed before it succeeds *)
LEMMA FinishKeeps ==
  ASSUME AtaInv, A!finish \/ A!flushed
  PROVE  AtaInv'
<1>1. CASE A!Succeed /\ ((pc = "finish" /\ call.op = "read") \/ (pc = "flush" /\ A!Status \in {"ready", "drq"}))
  <2>1. ata_status' = "SUCCESS" /\ locked' = FALSE /\ pc' = "idle" /\ UNCHANGED <<model, drive, selected, regs, dev, cache, call, moved>>
    BY <1>1 DEF A!Succeed, A!Unlock
  <2>2. ViewInv' /\ DevInv'
    BY <2>1 DEF AtaInv, ViewInv, DevInv
  <2>3. CallInv'
    BY <2>1 DEF CallInv
  <2>4. ASSUME ~call.stale PROVE call.drive \in A!Drives /\ Over
    <3>1. call.drive \in A!Drives /\ selected = call.drive
      BY <1>1 DEF AtaInv, CallInv
    <3>2. CASE pc = "finish" /\ call.op = "read"
      BY <2>4, <3>1, <3>2 DEF AtaInv, ProgressInv, Behind, Over
    <3>3. CASE pc = "flush" /\ A!Status \in {"ready", "drq"}
      <4>1. Flushing
        BY <2>4, <3>3 DEF AtaInv, ProgressInv
      <4> QED
        BY <3>1, <3>3, <4>1 DEF Flushing, Over, A!Status
    <3> QED
      BY <1>1, <3>2, <3>3
  <2>5. Over' <=> Over
    BY <2>1 DEF Over, First
  <2>6. ProgressInv'
    BY <2>1, <2>4, <2>5 DEF ProgressInv
  <2> QED
    BY <2>2, <2>3, <2>6 DEF AtaInv
<1>2. CASE /\ A!Same("finish") /\ call.op = "write" /\ A!Status \in {"ready", "drq"}
           /\ A!Command(selected, "flush", FALSE) /\ pc' = "flush" /\ UNCHANGED <<drive, selected, regs, cache, moved>>
  <2>1. pc = "finish" /\ UNCHANGED <<model, locked, call, ata_status>> /\ selected = call.drive /\ call.drive \in A!Drives
    BY <1>2 DEF A!Same, AtaInv, CallInv
  <2>2. dev[selected].phase \notin {"absent", "busy"}
    BY <1>2 DEF A!Status
  <2>3. PICK wide \in BOOLEAN, op \in {"flush"} : wide = FALSE
    OBVIOUS
  <2>4. DevInv' /\ dev'[selected].phase = "busy" /\ dev'[selected].op = "flush"
    BY <1>2, <2>1, <2>2, <2>3, Commanded DEF AtaInv
  <2>5. ViewInv' /\ CallInv'
    BY <1>2, <2>1 DEF AtaInv, ViewInv, CallInv
  <2>6. ASSUME ~call.stale PROVE Flushing'
    <3>1. moved = First(call.count)
      BY <2>1, <2>6 DEF AtaInv, ProgressInv, Behind
    <3>2. First(call.count)' = First(call.count)
      BY <2>1 DEF First
    <3> QED
      BY <1>2, <2>1, <2>4, <3>1, <3>2 DEF Flushing
  <2> QED
    BY <1>2, <2>1, <2>4, <2>5, <2>6 DEF AtaInv, ProgressInv
<1> QED
  BY <1>1, <1>2 DEF A!finish, A!flushed

(* probing a drive ends without an answer *)
LEMMA ProbeFailsKeeps ==
  ASSUME AtaInv, A!probe_fails
  PROVE  AtaInv'
<1>1. /\ pc \in {"probe", "identify", "packet"} /\ locked' = FALSE /\ pc' = "idle"
      /\ UNCHANGED <<model, drive, selected, regs, dev, cache, call, ata_status, moved>>
  BY DEF A!probe_fails, A!Unlock
<1>2. ViewInv' /\ DevInv'
  BY <1>1 DEF AtaInv, ViewInv, DevInv
<1>3. CallInv'
  BY <1>1 DEF CallInv
<1>4. call.op = "identify"
  BY <1>1 DEF AtaInv, CallInv
<1>5. ProgressInv'
  BY <1>1, <1>4 DEF ProgressInv
<1> QED
  BY <1>2, <1>3, <1>5 DEF AtaInv

(* the commands of a probe *)
LEMMA IdentifyKeeps ==
  ASSUME AtaInv, A!identify
  PROVE  AtaInv'
<1>1. /\ pc \in {"probe", "identify"} /\ pc' \in {"identify", "packet"}
      /\ UNCHANGED <<model, locked, call, ata_status, drive, selected, cache, moved>>
  BY DEF A!identify, A!Same
<1>2. PICK op \in {"identify", "identify_packet"}, wide \in BOOLEAN : A!Command(selected, op, wide)
  <2>1. A!Command(selected, "identify", FALSE) \/ A!Command(selected, "identify_packet", FALSE)
    BY DEF A!identify
  <2> QED
    BY <2>1
<1>3. DevInv'
  BY <1>1, <1>2, Commanded DEF AtaInv, ViewInv
<1>4. ViewInv' /\ CallInv' /\ ProgressInv'
  BY <1>1 DEF AtaInv, ViewInv, CallInv, ProgressInv
<1> QED
  BY <1>3, <1>4 DEF AtaInv

(* the answer to a probe: the sectors the driver counts on can be addressed *)
LEMMA IdentifiedKeeps ==
  ASSUME A!Attached, AtaInv, A!identified
  PROVE  AtaInv'
<1> DEFINE m == model[selected]
           D == call.drive
           sectors == IF m.lba48 /\ m.s48 # 0 THEN m.s48 ELSE IF m.lba28 THEN m.s28 ELSE 0
<1>1. /\ pc \in {"identify", "packet"} /\ locked' = FALSE /\ pc' = "idle"
      /\ dev' = [dev EXCEPT ![selected] = A!Idle("ready")]
      /\ UNCHANGED <<model, selected, regs, cache, call, ata_status, moved>>
  BY DEF A!identified, A!Unlock
<1>2. D \in A!Drives /\ selected \in A!Drives /\ call.op = "identify"
  BY <1>1 DEF AtaInv, CallInv, ViewInv
<1>3. PICK x : /\ drive' = drive \/ drive' = [drive EXCEPT ![D] = x]
               /\ \/ x = [drive[D] EXCEPT !.type = "atapi"]
                  \/ x = [type |-> "ata", lba28 |-> m.lba28, lba48 |-> m.lba48, sectors |-> sectors]
  <2>1. drive[D] = [type |-> drive[D].type, lba28 |-> drive[D].lba28, lba48 |-> drive[D].lba48, sectors |-> drive[D].sectors]
    BY <1>2 DEF AtaInv, ViewInv
  <2>2. DOMAIN drive = A!Drives
    BY DEF AtaInv, ViewInv
  <2>3. \/ UNCHANGED drive
        \/ drive' = [drive EXCEPT ![D].type = "atapi"]
        \/ drive' = [drive EXCEPT ![D] = [type |-> "ata", lba28 |-> m.lba28, lba48 |-> m.lba48, sectors |-> sectors]]
    BY DEF A!identified
  <2> QED
    BY <1>2, <2>1, <2>2, <2>3
<1>4. /\ x = [type |-> x.type, lba28 |-> x.lba28, lba48 |-> x.lba48, sectors |-> x.sectors]
      /\ x.sectors \in Nat /\ (x.lba48 => x.sectors <= A!Lba48)
  <2>1. CASE x = [drive[D] EXCEPT !.type = "atapi"]
    <3>1. drive[D] = [type |-> drive[D].type, lba28 |-> drive[D].lba28, lba48 |-> drive[D].lba48, sectors |-> drive[D].sectors]
      BY <1>2 DEF AtaInv, ViewInv
    <3>2. x = [type |-> "atapi", lba28 |-> drive[D].lba28, lba48 |-> drive[D].lba48, sectors |-> drive[D].sectors]
      BY <2>1, <3>1
    <3>3. drive[D].sectors \in Nat /\ (drive[D].lba48 => drive[D].sectors <= A!Lba48)
      BY <1>2 DEF AtaInv, ViewInv
    <3> QED
      BY <3>2, <3>3
  <2>2. CASE x = [type |-> "ata", lba28 |-> m.lba28, lba48 |-> m.lba48, sectors |-> sectors]
    <3>1. m.s28 \in Nat /\ m.s48 \in Nat /\ (m.lba48 => m.s28 <= A!Lba48 /\ m.s48 <= A!Lba48)
      BY <1>2 DEF A!Attached, AtaInv, ViewInv
    <3>2. sectors \in Nat /\ (m.lba48 => sectors <= A!Lba48)
      BY <3>1 DEF A!Lba48
    <3> HIDE DEF m, sectors
    <3> QED
      BY <2>2, <3>2
  <2> QED
    BY <1>3, <2>1, <2>2
<1>5. ViewInv'
  <2>1. CASE drive' = drive
    BY <1>1, <2>1 DEF AtaInv, ViewInv
  <2>2. CASE drive' = [drive EXCEPT ![D] = x]
    <3>1. DOMAIN drive = A!Drives /\ drive'[D] = x /\ \A e \in A!Drives \ {D} : drive'[e] = drive[e]
      BY <1>2, <2>2 DEF AtaInv, ViewInv
    <3>2. drive' = [e \in A!Drives |-> drive'[e]]
      BY <2>2, <3>1
    <3>3. ASSUME NEW e \in A!Drives
          PROVE /\ drive'[e] = [type |-> drive'[e].type, lba28 |-> drive'[e].lba28, lba48 |-> drive'[e].lba48, sectors |-> drive'[e].sectors]
                /\ drive'[e].sectors \in Nat /\ (drive'[e].lba48 => drive'[e].sectors <= A!Lba48)
      <4>1. CASE e = D
        BY <1>4, <3>1, <4>1
      <4>2. CASE e # D
        BY <3>1, <4>2 DEF AtaInv, ViewInv
      <4> QED
        BY <4>1, <4>2
    <3> QED
      BY <1>1, <3>2, <3>3 DEF AtaInv, ViewInv
  <2> QED
    BY <1>3, <2>1, <2>2
<1>6. DevInv'
  <2>1. DOMAIN dev = A!Drives /\ dev'[selected] = A!Idle("ready") /\ \A d \in A!Drives \ {selected} : dev'[d] = dev[d]
    BY <1>1, <1>2 DEF AtaInv, DevInv
  <2>2. dev' = [d \in A!Drives |-> dev'[d]]
    BY <1>1, <2>1
  <2>3. ASSUME NEW d \in A!Drives
        PROVE /\ dev'[d] = [phase |-> dev'[d].phase, op |-> dev'[d].op, lba |-> dev'[d].lba, left |-> dev'[d].left, limit |-> dev'[d].limit]
              /\ dev'[d].op \in {"read", "write"} => InReach(dev'[d])
    <3>1. CASE d = selected
      <4>1. dev'[d] = [phase |-> "ready", op |-> None, lba |-> 0, left |-> 0, limit |-> 0]
        BY <2>1, <3>1 DEF A!Idle
      <4> QED
        BY <4>1 DEF InReach
    <3>2. CASE d # selected
      BY <2>1, <3>2 DEF AtaInv, DevInv
    <3> QED
      BY <3>1, <3>2
  <2>4. cache' = [d \in A!Drives |-> cache'[d]]
    BY <1>1 DEF AtaInv, DevInv
  <2> QED
    BY <2>2, <2>3, <2>4 DEF DevInv
<1>7. CallInv' /\ ProgressInv'
  BY <1>1, <1>2 DEF CallInv, ProgressInv
<1> QED
  BY <1>5, <1>6, <1>7 DEF AtaInv

(* transfers and probes in every step *)
LEMMA NextTransfers == A!Attached /\ AtaInv /\ [A!Next]_(A!vars) => AtaInv'
<1> SUFFICES ASSUME A!Attached, AtaInv, [A!Next]_(A!vars) PROVE AtaInv'
  OBVIOUS
<1>1. CASE \E d \in A!Drives : A!drive_works(d)
  BY <1>1, WorksKeeps
<1>2. CASE \E d \in A!Drives :
             \/ A!ata_probe_device(d)
             \/ \E lba \in Lbas, count \in Counts, op \in {"read", "write"} : A!transfer(op, d, lba, count)
             \/ \E why : A!rejected(d, why)
  <2>1. PICK d \in A!Drives :
             \/ A!ata_probe_device(d)
             \/ \E lba \in Lbas, count \in Counts, op \in {"read", "write"} : A!transfer(op, d, lba, count)
             \/ \E why : A!rejected(d, why)
    BY <1>2
  <2> QED
    BY <2>1, StartKeeps
<1>3. CASE A!io_error
  BY <1>3, ErrorKeeps
<1>4. CASE A!ata_configure_lba
  BY <1>4, ConfigureKeeps
<1>5. CASE A!send_command
  BY <1>5, SendKeeps
<1>6. CASE A!sector
  BY <1>6, SectorKeeps
<1>7. CASE A!finish \/ A!flushed
  BY <1>7, FinishKeeps
<1>8. CASE A!probe_fails
  BY <1>8, ProbeFailsKeeps
<1>9. CASE A!identify
  BY <1>9, IdentifyKeeps
<1>10. CASE A!identified
  BY <1>10, IdentifiedKeeps
<1>11. CASE UNCHANGED A!vars
  <2>1. UNCHANGED <<model, drive, locked, selected, regs, dev, cache, call, pc, ata_status, moved>>
    BY <1>11 DEF A!vars
  <2>2. ViewInv' /\ DevInv'
    BY <2>1 DEF AtaInv, ViewInv, DevInv
  <2>3. CallInv'
    BY <2>1 DEF AtaInv, CallInv, Encoded, A!Mode, A!Fits28
  <2>4. ProgressInv'
    <3>1. \A n : First(n)' = First(n)
      BY <2>1 DEF First
    <3>2. /\ Before' <=> Before
          /\ During' <=> During
          /\ Behind' <=> Behind
          /\ Flushing' <=> Flushing
          /\ Over' <=> Over
      BY <2>1, <3>1 DEF Before, During, Behind, Flushing, Over, A!Working
    <3> QED
      BY <2>1, <3>2 DEF AtaInv, ProgressInv
  <2> QED
    BY <2>2, <2>3, <2>4 DEF AtaInv
<1> QED
  BY <1>1, <1>2, <1>3, <1>4, <1>5, <1>6, <1>7, <1>8, <1>9, <1>10, <1>11
     DEF A!Next, A!poll_timeout, A!NoDrive, A!DriveError, A!NoData, A!NoMode

(* at first no drive is known and none at work *)
LEMMA InitTransfers == A!Init => AtaInv
<1> SUFFICES ASSUME A!Init PROVE AtaInv
  OBVIOUS
<1>1. /\ model \in Models /\ drive = [d \in A!Drives |-> A!Unknown] /\ locked = FALSE /\ selected = "master"
      /\ cache = [d \in A!Drives |-> FALSE] /\ call = None /\ pc = "idle"
  BY DEF A!Init
<1>2. ViewInv
  <2>1. \A d \in A!Drives : drive[d] = A!Unknown
    BY <1>1
  <2>2. A!Unknown = [type |-> A!Unknown.type, lba28 |-> A!Unknown.lba28, lba48 |-> A!Unknown.lba48, sectors |-> A!Unknown.sectors]
    BY DEF A!Unknown
  <2>3. A!Unknown.sectors = 0 /\ ~A!Unknown.lba48
    BY DEF A!Unknown
  <2>4. drive = [d \in A!Drives |-> [type |-> drive[d].type, lba28 |-> drive[d].lba28, lba48 |-> drive[d].lba48,
                                   sectors |-> drive[d].sectors]]
    BY <1>1, <2>1, <2>2
  <2> QED
    BY <1>1, <2>1, <2>3, <2>4 DEF ViewInv, A!Drives
<1>3. DevInv
  <2>1. dev = [d \in A!Drives |-> A!Idle(IF model[d].type = None THEN "absent" ELSE "ready")]
    BY DEF A!Init
  <2>2. ASSUME NEW d \in A!Drives
        PROVE /\ dev[d] = [phase |-> dev[d].phase, op |-> dev[d].op, lba |-> dev[d].lba, left |-> dev[d].left, limit |-> dev[d].limit]
              /\ InReach(dev[d])
    <3>1. PICK p : dev[d] = [phase |-> p, op |-> None, lba |-> 0, left |-> 0, limit |-> 0]
      BY <2>1 DEF A!Idle
    <3> QED
      BY <3>1 DEF InReach
  <2>3. cache = [d \in A!Drives |-> cache[d]]
    BY <1>1
  <2>4. dev = [d \in A!Drives |-> dev[d]]
    BY <2>1
  <2> QED
    BY <2>2, <2>3, <2>4 DEF DevInv
<1>4. CallInv /\ ProgressInv
  BY <1>1 DEF CallInv, ProgressInv
<1> QED
  BY <1>2, <1>3, <1>4 DEF AtaInv

(* what the invariant tells of a transfer that succeeded *)
LEMMA Transfers == AtaInv => A!TransfersMatch
<1> SUFFICES ASSUME AtaInv PROVE A!TransfersMatch
  OBVIOUS
<1>1. pc = "idle" => ~locked
  BY DEF AtaInv, CallInv
<1>2. \A d \in A!Drives : dev[d].op \in {"read", "write"} => dev[d].lba + dev[d].left <= dev[d].limit
  BY DEF AtaInv, DevInv, InReach
<1>3. ASSUME pc = "idle", call # None, call.op # "identify", ata_status = "SUCCESS", ~call.stale PROVE Over
  BY <1>3 DEF AtaInv, ProgressInv
<1> QED
  BY <1>1, <1>2, <1>3 DEF A!TransfersMatch, Over, First

-----------------------------------------------------------------------------
(* a behaviour of a channel and its drives keeps the invariant *)
LEMMA TransferInvariance == MCSpec => [](part = "Ata" => AtaInv)
<1>1. MCInit => (part = "Ata" => AtaInv)
  BY AtaAssumption, InitTransfers DEF MCInit
<1>2. (part = "Ata" => AtaInv) /\ [MCNext]_allVars => (part = "Ata" => AtaInv)'
  <2> SUFFICES ASSUME part = "Ata" => AtaInv, [MCNext]_allVars, part' = "Ata" PROVE AtaInv'
    OBVIOUS
  <2>1. CASE MCNext
    <3>1. part = "Ata" /\ A!Next
      BY <2>1 DEF MCNext
    <3> QED
      BY <3>1, AtaAssumption, NextTransfers
  <2>2. CASE UNCHANGED allVars
    <3>1. UNCHANGED A!vars
      BY <2>2 DEF allVars, AVars, A!vars
    <3> QED
      BY <2>2, <3>1, AtaAssumption, NextTransfers DEF allVars
  <2> QED
    BY <2>1, <2>2
<1> QED
  BY <1>1, <1>2, PTL DEF MCSpec

(* A transfer that succeeds moved the sectors asked for, at any address, and what was written left the cache; *)
(* no command goes beyond what it can address, and the lock is released on every way out (ata_read, ata_write). *)
THEOREM AtaTransfersMatchHolds == MCSpec => []AtaTransfersMatch
<1>1. (part = "Ata" => AtaInv) => AtaTransfersMatch
  BY Transfers DEF AtaTransfersMatch
<1> QED
  BY <1>1, TransferInvariance, PTL

-----------------------------------------------------------------------------
(* a behaviour of the heap keeps the invariant *)
LEMMA HeapInvariance == MCSpec => [](part = "Kmalloc" => HeapInv)
<1>1. MCInit => (part = "Kmalloc" => HeapInv)
  BY HeapAssumption, InitHeap DEF MCInit
<1>2. (part = "Kmalloc" => HeapInv) /\ [MCNext]_allVars => (part = "Kmalloc" => HeapInv)'
  <2> SUFFICES ASSUME part = "Kmalloc" => HeapInv, [MCNext]_allVars, part' = "Kmalloc" PROVE HeapInv'
    OBVIOUS
  <2>1. CASE MCNext
    <3>1. part = "Kmalloc" /\ Next
      BY <2>1 DEF MCNext
    <3> QED
      BY <3>1, HeapAssumption, StepHeap
  <2>2. CASE UNCHANGED allVars
    <3>1. UNCHANGED vars
      BY <2>2 DEF allVars, HVars, vars, shape
    <3> QED
      BY <2>2, <3>1, HeapAssumption, StepHeap DEF allVars
  <2> QED
    BY <2>1, <2>2
<1> QED
  BY <1>1, <1>2, PTL DEF MCSpec

(* Two live blocks have no unit and no page in common, whatever was allocated and given back before, and none *)
(* reaches into a slab page or its caches: kmalloc never hands out memory that something else has. *)
THEOREM HeapBlocksDisjointHolds == MCSpec => []HeapBlocksDisjoint
<1>1. (part = "Kmalloc" => HeapInv) => HeapBlocksDisjoint
  BY InvDisjoint DEF HeapBlocksDisjoint
<1> QED
  BY <1>1, HeapInvariance, PTL

(* Between calls every page taken from va_alloc has a use or is among those known to be lost, and pages in use were *)
(* not given back; where the next slab goes is where createSlab looks for it, behind the latest one. *)
THEOREM HeapPagesAccountedHolds == MCSpec => []HeapPagesAccounted
<1>1. (part = "Kmalloc" => HeapInv) => HeapPagesAccounted
  BY InvAccounted DEF HeapPagesAccounted
<1> QED
  BY <1>1, HeapInvariance, PTL

-----------------------------------------------------------------------------
(* a behaviour of the readers keeps their invariant *)
LEMMA TreeInvariance == MCSpec => [](part = "UsbTree" => TreeInv)
<1>1. MCInit => (part = "UsbTree" => TreeInv)
  <2> SUFFICES ASSUME MCInit, part = "UsbTree" PROVE TreeInv
    OBVIOUS
  <2>1. T!Init
    BY DEF MCInit
  <2> QED BY <2>1, UsbTreeAssumption, TreeStarts
<1>2. (part = "UsbTree" => TreeInv) /\ [MCNext]_allVars => (part = "UsbTree" => TreeInv)'
  <2> SUFFICES ASSUME part = "UsbTree" => TreeInv, [MCNext]_allVars, part' = "UsbTree" PROVE TreeInv'
    OBVIOUS
  <2>1. CASE MCNext
    <3>1. part = "UsbTree" /\ T!Next
      BY <2>1 DEF MCNext
    <3> QED BY <3>1, UsbTreeAssumption, TreeSteps
  <2>2. CASE UNCHANGED allVars
    <3>1. UNCHANGED T!vars /\ part' = part
      BY <2>2 DEF allVars, TVars, T!vars
    <3> QED BY <3>1, UsbTreeAssumption, TreeSteps
  <2> QED BY <2>1, <2>2
<1> QED BY <1>1, <1>2, PTL DEF MCSpec

(* Whatever lengths and types a device sends, nothing behind its configuration is read, and the *)
(* device is used, with all its interfaces and endpoints, exactly when each interface has the   *)
(* endpoints it announces (count_tree, fill_interfaces, get_device).                            *)
THEOREM UsbTreeReadHolds == MCSpec => []UsbTreeRead
<1>1. (part = "UsbTree" => TreeInv) => UsbTreeRead
  BY TreeIsRead DEF UsbTreeRead
<1> QED
  BY <1>1, TreeInvariance, PTL

(* a behaviour of the loaders keeps their invariant *)
LEMMA LoaderInvariance == MCSpec => [](part = "Loader" => LoaderInv)
<1>1. MCInit => (part = "Loader" => LoaderInv)
  <2> SUFFICES ASSUME MCInit, part = "Loader" PROVE LoaderInv
    OBVIOUS
  <2>1. B!Init
    BY DEF MCInit
  <2> QED BY <2>1, LoaderAssumption, LoaderStarts
<1>2. (part = "Loader" => LoaderInv) /\ [MCNext]_allVars => (part = "Loader" => LoaderInv)'
  <2> SUFFICES ASSUME part = "Loader" => LoaderInv, [MCNext]_allVars, part' = "Loader" PROVE LoaderInv'
    OBVIOUS
  <2>1. CASE MCNext
    <3>1. part = "Loader" /\ B!Next
      BY <2>1 DEF MCNext
    <3> QED BY <3>1, LoaderSteps
  <2>2. CASE UNCHANGED allVars
    <3>1. UNCHANGED B!vars /\ part' = part
      BY <2>2 DEF allVars, LVars, B!vars
    <3> QED BY <3>1, LoaderSteps
  <2> QED BY <2>1, <2>2
<1> QED BY <1>1, <1>2, PTL DEF MCSpec

(* For any memory map, kernel and cluster size, on both boot paths: the map gives the whole usable  *)
(* pages and no others, and the kernel is entered with all its segments, map and parameters in      *)
(* place, in usable memory (convert_e820_to_efi, load_kernel, elf_allocator).                       *)
THEOREM KernelLoadedHolds == MCSpec => []KernelLoaded
<1>1. (part = "Loader" => LoaderInv) => KernelLoaded
  BY MapIsRight, LoaderComplete DEF KernelLoaded, LoaderInv
<1> QED
  BY <1>1, LoaderInvariance, PTL
=============================================================================
