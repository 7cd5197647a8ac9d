-------------------------------- MODULE Keyboard --------------------------------
(***************************************************************************)
(* The PS/2 keyboard (drivers/keyboard/ps2.cpp) and its reader, the loop   *)
(* at the end of kernel_main.  ps2_controller_init starts the keyboard and *)
(* then its interrupt.  Each byte of a scan code comes in an interrupt of  *)
(* its own: keyboard_handler keeps it, decodes it with the modifier keys   *)
(* and prefixes of the bytes before, and counts it.  Interrupts come long  *)
(* before the loop starts; from then on the loop prints the characters     *)
(* whenever the count has grown, and interrupts come in between.           *)
(***************************************************************************)
EXTENDS Integers, Sequences, FiniteSets

CONSTANTS
  RingSize,   \* places of the rings of scan codes and characters, 256
  MaxEvents,  \* bound: keys pressed and released
  MaxHeld     \* bound: keys held down

VARIABLES
  stage,      \* how far ps2_controller_init is
  line,       \* bytes from the keyboard that were not read yet
  held, caps_on, num_on,  \* keys that are down; how often Caps Lock and Num Lock were pressed, odd or even
  presses,    \* how many events so far
  early,      \* history: a key moved before the interrupt was on
  decoder,    \* the static variables of scancode_to_ascii
  set,        \* globalkeyboard, and the rings in it, were allocated
  ascii, ascii_top, scancode_top, irq_count,
  power,      \* "off" once the handler called AcpiReset, "fault" once it used a keyboard it did not get
  loop,       \* "before" the loop starts, "started", and, as history, "fresh" once a byte came since
  old_count, place, screen  \* the loop: its copy of the count, the next character to print, what it printed

keys == <<line, held, caps_on, num_on, presses, early>>
rings == <<set, ascii, ascii_top, scancode_top, irq_count>>
main == <<old_count, place, screen>>
vars == <<stage, keys, decoder, rings, power, loop, main>>

-----------------------------------------------------------------------------
(* The keyboard.  A byte is a scan code with its release bit, or a prefix. *)
Byte(code, up) == [code |-> code, up |-> up]
Prefix(code) == Byte(code, TRUE)
ACK == Byte("FA", TRUE)

(* plain keys and their code *)
Plain == [left_shift |-> "2A", right_shift |-> "36", caps |-> "3A", num |-> "45",
          a |-> "1E", one |-> "02", keypad7 |-> "47", minus |-> "4A", reset |-> "57"]
(* keys with a prefix; some put a shift around themselves that nobody pressed *)
Extended == [enter |-> "1C", slash |-> "35", up |-> "48"]
Keys == DOMAIN Plain \cup DOMAIN Extended \cup {"pause"}

Sent(k, up) ==
  CASE k \in DOMAIN Plain -> {<<Byte(Plain[k], up)>>}
    [] k \in DOMAIN Extended ->
         LET code == <<Prefix("E0"), Byte(Extended[k], up)>>
             shift == <<Prefix("E0"), Byte("2A", up)>>
         IN {code, IF up THEN code \o shift ELSE shift \o code}
    [] k = "pause" ->
         IF up THEN {<<>>}
         ELSE {<<Prefix("E1"), Byte("1D", FALSE), Byte("45", FALSE), Prefix("E1"), Byte("1D", TRUE), Byte("45", TRUE)>>}

(* what a place of memory holds that nobody wrote *)
Garbage == "?"

Init ==
  /\ stage = "disable" /\ line = <<>> /\ held = {} /\ caps_on = FALSE /\ num_on = FALSE /\ presses = 0 /\ early = FALSE
  /\ decoder = [left_shift |-> FALSE, right_shift |-> FALSE, caps_lock |-> FALSE, caps_down |-> FALSE,
                num_lock |-> FALSE, num_down |-> FALSE, extended |-> FALSE, pause_bytes |-> 0]
  /\ set = FALSE /\ ascii = [i \in 0 .. RingSize - 1 |-> Garbage] /\ ascii_top = 0 /\ scancode_top = 0 /\ irq_count = 0
  /\ power = "on" /\ loop = "before" /\ old_count = 0 /\ place = RingSize /\ screen = [i \in 0 .. RingSize - 1 |-> ""]

(* a key goes down or up, or repeats while it is down *)
KeyMoves(k) ==
  /\ power = "on" /\ presses < MaxEvents
  /\ \/ /\ k \notin held /\ Cardinality(held) < MaxHeld /\ held' = held \cup {k}
        /\ \E s \in Sent(k, FALSE) : line' = line \o s
        /\ caps_on' = (caps_on # (k = "caps")) /\ num_on' = (num_on # (k = "num"))
     \/ /\ k \in held /\ held' = held \ {k}
        /\ \E s \in Sent(k, TRUE) : line' = line \o s
        /\ UNCHANGED <<caps_on, num_on>>
     \/ /\ k \in held /\ k # "pause" /\ UNCHANGED held
        /\ \E s \in Sent(k, FALSE) : line' = line \o s
        /\ UNCHANGED <<caps_on, num_on>>
  /\ presses' = presses + 1 /\ early' = (early \/ stage # "on")
  /\ UNCHANGED <<stage, decoder, rings, power, loop, main>>

-----------------------------------------------------------------------------
(* ps2_controller_init.  Any of its accesses may time out, and the keyboard then *)
(* stays without its interrupt.                                                  *)
init_fails ==
  /\ stage \in {"disable", "config", "ack"} /\ stage' = "failed"
  /\ UNCHANGED <<keys, decoder, rings, power, loop, main>>

(* the ports are disabled and what is there is dropped *)
drain ==
  /\ stage = "disable" /\ stage' = "config" /\ line' = <<>>
  /\ UNCHANGED <<held, caps_on, num_on, presses, early, decoder, rings, power, loop, main>>

(* the port is enabled and the keyboard told to start scanning; it acknowledges *)
start_scanning ==
  /\ stage = "config" /\ stage' = "ack" /\ line' = Append(line, ACK)
  /\ UNCHANGED <<held, caps_on, num_on, presses, early, decoder, rings, power, loop, main>>

(* the first byte has to be the acknowledgement; then the interrupt is enabled *)
acknowledged ==
  /\ stage = "ack" /\ line # <<>> /\ line' = Tail(line)
  /\ stage' = IF Head(line) = ACK THEN "on" ELSE "failed"
  /\ UNCHANGED <<held, caps_on, num_on, presses, early, decoder, rings, power, loop, main>>

-----------------------------------------------------------------------------
Shift(d) == d.left_shift \/ d.right_shift

(* the character of a code, "" for none *)
lookup_scancode(code, d) ==
  CASE code = "1E" -> IF d.caps_lock # Shift(d) THEN "A" ELSE "a"
    [] code = "02" -> IF Shift(d) THEN "!" ELSE "1"
    [] code = "47" -> IF d.num_lock # Shift(d) THEN "7" ELSE ""
    [] code = "4A" -> "-"
    [] OTHER -> ""

(* a lock key: it counts once while it is held down *)
Toggle(d, lock, down, up) == [d EXCEPT ![lock] = (@ # (~up /\ ~d[down])), ![down] = ~up]

(* what a byte without a prefix does to the modifiers *)
Modifier(d, b) ==
  CASE b.code = "2A" -> [d EXCEPT !.left_shift = ~b.up]
    [] b.code = "36" -> [d EXCEPT !.right_shift = ~b.up]
    [] b.code = "3A" -> Toggle(d, "caps_lock", "caps_down", b.up)
    [] b.code = "45" -> Toggle(d, "num_lock", "num_down", b.up)
    [] OTHER -> d

(* mutant of Decode: the code after E0 is treated like any other *)
DecodePrefixed(d, b) ==
  CASE d.pause_bytes > 0 -> [d EXCEPT !.pause_bytes = @ - 1]
    [] d.pause_bytes = 0 /\ b = Prefix("E1") -> [d EXCEPT !.pause_bytes = 5, !.extended = FALSE]
    [] d.pause_bytes = 0 /\ b = Prefix("E0") -> [d EXCEPT !.extended = TRUE]
    [] OTHER -> Modifier([d EXCEPT !.extended = FALSE], b)

(* scancode_to_ascii: the state of the decoder after a byte *)
Decode(d, b) ==
  CASE d.pause_bytes > 0 -> [d EXCEPT !.pause_bytes = @ - 1]
    [] d.pause_bytes = 0 /\ b = Prefix("E1") -> [d EXCEPT !.pause_bytes = 5, !.extended = FALSE]
    [] d.pause_bytes = 0 /\ b = Prefix("E0") -> [d EXCEPT !.extended = TRUE]
    [] d.pause_bytes = 0 /\ b.code \notin {"E0", "E1"} /\ d.extended -> [d EXCEPT !.extended = FALSE]
    [] OTHER -> Modifier(d, b)

(* scancode_to_ascii: its result *)
Character(d, b) ==
  CASE d.pause_bytes > 0 \/ b.up -> ""
    [] d.pause_bytes = 0 /\ ~b.up /\ d.extended -> (CASE b.code = "1C" -> "enter" [] b.code = "35" -> "/" [] OTHER -> "")
    [] OTHER -> lookup_scancode(b.code, d)

(* mutant of Advance: an index that grows for ever *)
AdvanceOn(top) == top + 1

(* a ring starts again at its end *)
Advance(top) == (top + 1) % RingSize

(* the handler finds no byte, as when one was read before its interrupt came *)
no_byte == line = <<>> /\ UNCHANGED <<line, decoder, ascii, ascii_top, scancode_top, irq_count, power, loop>>

(* F11: AcpiReset does not return, whether or not the firmware can reset *)
reset ==
  /\ line # <<>> /\ Head(line) = Byte("57", FALSE) /\ line' = Tail(line) /\ power' = "off"
  /\ UNCHANGED <<decoder, ascii, ascii_top, scancode_top, irq_count, loop>>

(* any other byte is kept, decoded and counted, and both rings start again at their end *)
take_byte ==
  LET b == Head(line)
      c == Character(decoder, b)
  IN
  /\ line # <<>> /\ b # Byte("57", FALSE) /\ line' = Tail(line)
  /\ scancode_top' = Advance(scancode_top)
  /\ decoder' = Decode(decoder, b)
  /\ IF c # ""
     THEN ascii' = [ascii EXCEPT ![ascii_top] = c] /\ ascii_top' = Advance(ascii_top)
     ELSE UNCHANGED <<ascii, ascii_top>>
  /\ irq_count' = irq_count + 1
  /\ loop' = (IF loop = "before" THEN loop ELSE "fresh")
  /\ UNCHANGED power

(* One interrupt, once the processor takes them.  The first one allocates the keyboard, *)
(* whose rings are not written, and uses it whether or not there was memory for it.     *)
keyboard_handler ==
  /\ stage = "on" /\ power = "on"
  /\ \/ ~set /\ power' = "fault" /\ UNCHANGED <<line, decoder, rings, loop>>
     \/ set' = TRUE /\ (no_byte \/ reset \/ take_byte)
  /\ UNCHANGED <<stage, held, caps_on, num_on, presses, early, main>>

-----------------------------------------------------------------------------
(* kernel_main gets to its loop and takes the count of that moment *)
start_loop ==
  /\ power = "on" /\ stage \in {"on", "failed"} /\ loop = "before"
  /\ loop' = "started" /\ old_count' = irq_count /\ UNCHANGED <<place, screen>>

(* the loop sees that the count has grown and remembers it *)
notice ==
  /\ power = "on" /\ loop # "before" /\ place = RingSize /\ irq_count > old_count
  /\ old_count' = irq_count /\ place' = 0 /\ UNCHANGED <<loop, screen>>

print_characters ==
  /\ power = "on" /\ place < RingSize
  /\ screen' = [screen EXCEPT ![place] = ascii[place]] /\ place' = place + 1
  /\ UNCHANGED <<loop, old_count>>

main_loop ==
  /\ start_loop \/ notice \/ print_characters
  /\ UNCHANGED <<stage, keys, decoder, rings, power>>

Next ==
  \/ \E k \in Keys : KeyMoves(k)
  \/ init_fails \/ drain \/ start_scanning \/ acknowledged
  \/ keyboard_handler \/ main_loop

Spec == Init /\ [][Next]_vars

-----------------------------------------------------------------------------
TypeOK ==
  /\ stage \in {"disable", "config", "ack", "on", "failed"} /\ held \subseteq Keys /\ presses \in 0 .. MaxEvents
  /\ decoder.pause_bytes \in 0 .. 5 /\ \A f \in DOMAIN decoder \ {"pause_bytes"} : decoder[f] \in BOOLEAN
  /\ set \in BOOLEAN /\ power \in {"on", "off", "fault"} /\ loop \in {"before", "started", "fresh"}
  /\ ascii_top \in 0 .. RingSize - 1 /\ scancode_top \in 0 .. RingSize - 1 /\ place \in 0 .. RingSize

(* When no byte is under way the decoder knows the keys that are down and the locks, *)
(* and expects no prefix's remainder: sequences of several bytes, repeated keys and  *)
(* shifts that no key caused leave no trace (scancode_to_ascii).                     *)
ModifiersFollowKeys ==
  (stage = "on" /\ power = "on" /\ line = <<>> /\ ~early) =>
    /\ decoder.left_shift = ("left_shift" \in held) /\ decoder.right_shift = ("right_shift" \in held)
    /\ decoder.caps_lock = caps_on /\ decoder.num_lock = num_on
    /\ ~decoder.extended /\ decoder.pause_bytes = 0

(* When the loop has nothing to print the screen shows the characters as they are, *)
(* those from before the loop among them, though interrupts come between its       *)
(* reading of the count and its last character; and it prints only from a keyboard *)
(* that was allocated (kernel_main, keyboard_handler).  Until a byte comes after   *)
(* the loop started nothing is printed, whatever came before.                      *)
ScreenCurrent ==
  /\ place < RingSize => set
  /\ (loop = "fresh" /\ place = RingSize /\ old_count = irq_count) => screen = ascii
=============================================================================
