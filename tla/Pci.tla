---------------------------------- MODULE Pci ----------------------------------
(***************************************************************************)
(* Configuration of a PCI function (drivers/pci/pci.c): access through the *)
(* memory window of its bus or through the two ports, the command bits,    *)
(* reading and sizing a base address register, and the search of the two   *)
(* lists of capabilities.  Every access that changes the function is a     *)
(* step; the function sets error bits of its status in between.            *)
(*                                                                         *)
(* Of a base address register only the address part is a number, of Width  *)
(* bits; the bits below it tell the type and cannot be written.            *)
(***************************************************************************)
EXTENDS Integers, FiniteSets

CONSTANTS
  Width,        \* address bits of a dword
  Places,       \* capabilities may lie at places 1 .. Places, 48 and 960 in the two lists
  Ids,          \* capability identifiers
  None

VARIABLES
  regions,      \* buses with a memory window
  command, status,  \* dword 1: command bits below, error bits above
  bars,         \* the two base address registers; none if no function answers
  assigned,     \* history: addresses and command as the firmware and the kernel set them
  list, ext,    \* the two lists: first place, and place -> identifier and next place
  pc, saved,    \* the next access of the call at work, and what it has read
  result        \* what the last call returned

config == <<command, status, bars>>
given == <<regions, list, ext>>
vars == <<config, given, assigned, pc, saved, result>>

-----------------------------------------------------------------------------
(* The function.  A 64-bit register takes both dwords; "io16" has half of the bits. *)
Power[n \in 0 .. 2 * Width] == IF n = 0 THEN 1 ELSE 2 * Power[n - 1]
All == Power[Width] - 1
Register(kind, size) == [kind |-> kind, size |-> size]
Layouts ==
  {<<Register("mem64", s), Register("high", s)>> : s \in 1 .. 2 * Width - 1} \cup
  {<<Register(k, s), Register("mem32", 1)>> : k \in {"mem32", "io"}, s \in 1 .. Width - 1} \cup
  {<<Register("io16", 1), Register("mem64", 1)>>, <<Register("none", 0), Register("none", 0)>>}

(* how many low bits of its dword a register does not decode *)
Fixed(r) ==
  CASE r.kind = "high" -> IF r.size > Width THEN r.size - Width ELSE 0
    [] r.kind # "high" -> IF r.size > Width THEN Width ELSE r.size

(* what a register keeps of a value written to it *)
Kept(r, v) ==
  CASE r.kind = "none" -> 0
    [] r.kind = "io16" -> (v % Power[Width - 1]) - (v % Power[Fixed(r)])
    [] OTHER -> v - (v % Power[Fixed(r)])

Lists(tails) == [first : 0 .. Places, at : [1 .. Places -> (Ids \X (0 .. Places)) \cup tails]]
NoList == [first |-> 0, at |-> [p \in 1 .. Places |-> None]]

(* the function sees an error on its bus *)
bus_error ==
  /\ status = {} /\ status' = {"error"}
  /\ UNCHANGED <<command, bars, given, assigned, pc, saved, result>>

-----------------------------------------------------------------------------
(* pci_init: the windows of the MCFG table whose buses are the right way round *)
pci_init(mcfg) == {r \in mcfg : r[1] <= r[2]}
Tables == {{}, {<<0, 0>>, <<1, 0>>}, {<<0, 1>>}}

(* the function is on bus 1 *)
find_ecam_region == {r \in regions : r[1] <= 1 /\ 1 <= r[2]}

Init ==
  /\ \E mcfg \in Tables : regions = pci_init(mcfg)
  /\ command \in SUBSET {"io", "mem", "master"} /\ status = {}
  /\ \/ bars = <<>> /\ list = NoList /\ ext = NoList
     \/ /\ \E l \in Layouts, v \in 0 .. All, w \in 0 .. All :
             bars = [i \in 1 .. 2 |-> [kind |-> l[i].kind, size |-> l[i].size, addr |-> Kept(l[i], IF i = 1 THEN v ELSE w)]]
        /\ list = NoList /\ ext = NoList
     \/ /\ bars = [i \in 1 .. 2 |-> [kind |-> "none", size |-> 0, addr |-> 0]] /\ command = {}
        /\ \/ list \in Lists({}) /\ ext = NoList /\ regions = {}
           \/ list = NoList /\ ext \in {e \in Lists({None}) : e.first = 1} /\ find_ecam_region # {}
  /\ assigned = [bars |-> bars, command |-> command]
  /\ pc = "idle" /\ saved = None /\ result = None

Return(r) == result' = r /\ pc' = "idle" /\ saved' = None

(* pci_config_write of the command: the ports take the whole dword only, so the *)
(* error bits are written back as they were read, which clears them             *)
WriteCommand(c) == command' = c /\ status' = IF find_ecam_region = {} THEN {} ELSE status

-----------------------------------------------------------------------------
(* pci_enable_device, pci_enable_bus_mastering, pci_disable_bus_mastering *)
pci_set_command_bits(set, clear) ==
  /\ pc = "idle"
  /\ \/ bars = <<>> /\ UNCHANGED <<config, assigned>>
     \/ /\ bars # <<>> /\ WriteCommand((command \cup set) \ clear) /\ UNCHANGED bars
        /\ assigned' = [assigned EXCEPT !.command = command']
  /\ Return(None) /\ UNCHANGED given

(* the calls of pci_read_bar that fail: no function, or a 64-bit register in the last dword *)
bad_bar(i) ==
  /\ pc = "idle" /\ (IF bars = <<>> THEN TRUE ELSE i = 2 /\ bars[i].kind = "mem64")
  /\ Return([bar |-> None]) /\ UNCHANGED <<config, given, assigned>>

(* pci_read_bar(i, probe), until it changes something; no caller asks for an upper half *)
pci_read_bar(i, probe) ==
  LET is_64bit == bars[i].kind = "mem64"
      high == IF is_64bit THEN bars[2].addr ELSE 0
      found == [bar |-> i, address |-> high * Power[Width] + bars[i].addr, size |-> 0, probed |-> probe]
  IN
  /\ pc = "idle" /\ bars # <<>> /\ bars[i].kind # "high" /\ ~(is_64bit /\ i = 2)
  /\ \/ ~probe /\ Return(found)
     \/ /\ probe /\ pc' = "decode_off" /\ result' = None
        /\ saved' = [found |-> found, low |-> bars[i].addr, high |-> high, is_64bit |-> is_64bit, command |-> command]
  /\ UNCHANGED <<config, given, assigned>>

decode_off ==
  /\ pc = "decode_off" /\ pc' = "ones"
  /\ WriteCommand(command \ {"io", "mem"})
  /\ UNCHANGED <<bars, given, assigned, saved, result>>

WriteBar(i, v) == bars' = [bars EXCEPT ![i].addr = Kept(bars[i], v)]

(* all ones are written to each dword, the lower one first *)
write_ones ==
  /\ \/ pc = "ones" /\ WriteBar(saved.found.bar, All) /\ pc' = IF saved.is_64bit THEN "ones_high" ELSE "read_size"
     \/ pc = "ones_high" /\ WriteBar(2, All) /\ pc' = "read_size"
  /\ UNCHANGED <<command, status, given, assigned, saved, result>>

(* the size is the two's complement of the bits that stayed *)
read_size ==
  LET mask == bars[saved.found.bar].addr + (IF saved.is_64bit THEN bars[2].addr * Power[Width] ELSE 0)
      top == Power[IF saved.is_64bit THEN 2 * Width ELSE Width]
  IN
  /\ pc = "read_size" /\ pc' = IF saved.is_64bit THEN "restore_high" ELSE "restore_low"
  /\ saved' = [saved EXCEPT !.found.size = IF mask = 0 THEN 0 ELSE top - mask]
  /\ UNCHANGED <<config, given, assigned, result>>

restore_bar ==
  /\ \/ pc = "restore_high" /\ WriteBar(2, saved.high) /\ pc' = "restore_low"
     \/ pc = "restore_low" /\ WriteBar(saved.found.bar, saved.low) /\ pc' = "restore_command"
  /\ UNCHANGED <<command, status, given, assigned, saved, result>>

(* mutant of restore_command: the command comes back before the lower dword *)
RestoreEarly ==
  /\ pc = "restore_low" /\ WriteCommand(saved.command)
  /\ UNCHANGED <<bars, given, assigned, pc, saved, result>>

restore_command ==
  /\ pc = "restore_command" /\ WriteCommand(saved.command) /\ Return(saved.found)
  /\ UNCHANGED <<bars, given, assigned>>

-----------------------------------------------------------------------------
(* A search starts at the first place of a list; the extended list is searched *)
(* through the memory window only.                                             *)
find_capability(l, id) ==
  /\ pc = "idle" /\ (l = list \/ find_ecam_region # {})
  /\ pc' = "walk" /\ saved' = [list |-> l, id |-> id, pointer |-> l.first, visited |-> 0]
  /\ result' = None /\ UNCHANGED <<config, given, assigned>>

(* mutant of Visits: one visit less than there are places *)
VisitsLess == Places - 1

(* as many visits as there are places: 48 and 960 *)
Visits == Places

Answer(place) == Return([list |-> saved.list, id |-> saved.id, place |-> place])

(* one round of pci_find_capability or pci_find_extended_capability; the second *)
(* also ends at an empty header and at one that points to itself                *)
visit ==
  LET here == saved.list.at[saved.pointer]
      last == saved.list = ext /\ here[2] = saved.pointer
  IN
  /\ pc = "walk"
  /\ IF saved.pointer = 0 \/ saved.visited = Visits THEN Answer(0)
     ELSE IF here = None THEN Answer(0)
     ELSE \/ here[1] = saved.id /\ Answer(saved.pointer)
          \/ here[1] # saved.id /\ last /\ Answer(0)
          \/ /\ here[1] # saved.id /\ ~last
             /\ saved' = [saved EXCEPT !.pointer = here[2], !.visited = @ + 1]
             /\ UNCHANGED <<pc, result>>
  /\ UNCHANGED <<config, given, assigned>>

Next ==
  \/ bus_error
  \/ \E bits \in {{"io", "mem"}, {"master"}} : pci_set_command_bits(bits, {})
  \/ pci_set_command_bits({}, {"master"})
  \/ \E i \in 1 .. 2 : bad_bar(i) \/ \E probe \in BOOLEAN : pci_read_bar(i, probe)
  \/ decode_off \/ write_ones \/ read_size \/ restore_bar \/ restore_command
  \/ \E l \in {list, ext} \ {NoList}, id \in Ids : find_capability(l, id)
  \/ visit

Spec == Init /\ [][Next]_vars

-----------------------------------------------------------------------------
TypeOK ==
  /\ command \subseteq {"io", "mem", "master"} /\ status \subseteq {"error"}
  /\ \A i \in DOMAIN bars : bars[i].addr \in 0 .. All
  /\ pc \in {"idle", "decode_off", "ones", "ones_high", "read_size", "restore_high", "restore_low", "restore_command", "walk"}

Size(r) == IF r.kind = "none" THEN 0 ELSE Power[r.size]

(* While a base address register holds anything but its address the function decodes *)
(* no address; when pci_read_bar is done the registers are as before, and address    *)
(* and size are right for every type and size but a 16-bit I/O register.             *)
ProbeSafe ==
  /\ bars # assigned.bars => command \cap {"io", "mem"} = {}
  /\ pc = "idle" => bars = assigned.bars /\ command = assigned.command
  /\ (result # None /\ "size" \in DOMAIN result) =>
       LET r == bars[result.bar] IN
         (pc = "idle" /\ r.kind # "io16") =>
           /\ result.address = r.addr + (IF r.kind = "mem64" THEN bars[2].addr * Power[Width] ELSE 0)
           /\ result.size = IF result.probed THEN Size(r) ELSE 0

(* places that the list does not lead out of *)
Closed(l, S) ==
  /\ l.first \in S \cup {0}
  /\ \A p \in S : l.at[p] # None => l.at[p][2] \in S \cup {0}

(* the places a list leads to *)
Reached(l) == {p \in 1 .. Places : \A S \in SUBSET (1 .. Places) : Closed(l, S) => p \in S}

(* Whatever the links of a list, circles included, a search ends with a place that *)
(* has the identifier if and only if the list leads to one                         *)
(* (pci_find_capability, pci_find_extended_capability).                            *)
CapabilityFound ==
  (result # None /\ "place" \in DOMAIN result) =>
    LET places == {p \in Reached(result.list) : result.list.at[p] # None /\ result.list.at[p][1] = result.id}
    IN IF places = {} THEN result.place = 0 ELSE result.place \in places
=============================================================================
