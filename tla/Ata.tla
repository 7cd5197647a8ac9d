---------------------------------- MODULE Ata ----------------------------------
(***************************************************************************)
(* The drives of an IDE channel (drivers/storage/ide): ata_probe_device,   *)
(* ata_read and ata_write.  The two drives share the registers of the      *)
(* channel; a command goes to the one selected last.  The driver polls,    *)
(* and gives up after a million readings of the status, while a drive may  *)
(* take as long as it likes.                                               *)
(*                                                                         *)
(* A byte register holds a digit below 2 and has a copy of the value it    *)
(* held before, which the 48-bit commands use.  A 28-bit address has four  *)
(* digits, one of them in the head register, a 48-bit address six.         *)
(***************************************************************************)
EXTENDS Integers, Sequences, FiniteSets

CONSTANTS
  Models,   \* what may be attached: type, addressing and sizes of both drives
  Lbas,     \* sectors that are asked for
  Counts,   \* how many
  None

VARIABLES
  model,    \* the drives that are attached
  drive,    \* the driver's view: type, addressing and sector_count
  locked,   \* the lock of the channel
  selected, regs,  \* the registers of the channel: <<value, value before>>
  dev,      \* the drives: phase, and the command at work
  cache,    \* whether a drive has sectors in its cache that are not on its medium
  call, pc, \* the call at work, or the last one
  ata_status,  \* what the last call left in the ata_status of its drive
  moved     \* history: the sectors it moved, as the drive knows them

vars == <<model, drive, locked, selected, regs, dev, cache, call, pc, ata_status, moved>>

Drives == {"master", "slave"}
Lba28 == 16
Lba48 == 64

(* Parameters of a call are not negative, and a drive with 48-bit addresses has no more *)
(* sectors than they reach.                                                              *)
Attached ==
  /\ Lbas \subseteq Nat /\ Counts \subseteq Nat
  /\ \A m \in Models, d \in Drives :
       m[d].s28 \in Nat /\ m[d].s48 \in Nat /\ (m[d].lba48 => m[d].s28 <= Lba48 /\ m[d].s48 <= Lba48)

Unknown == [type |-> None, lba28 |-> FALSE, lba48 |-> FALSE, sectors |-> 0]

(* a digit of an address, by its weight *)
Digit(lba, weight) == (lba \div weight) % 2
ToLba(d) == d[1] + 2 * d[2] + 4 * d[3] + 8 * d[4] + (IF Len(d) = 4 THEN 0 ELSE 16 * d[5] + 32 * d[6])

Idle(phase) == [phase |-> phase, op |-> None, lba |-> 0, left |-> 0, limit |-> 0]

Init ==
  /\ model \in Models
  /\ drive = [d \in Drives |-> Unknown]
  /\ locked = FALSE /\ selected = "master"
  /\ regs = [count |-> <<0, 0>>, low |-> <<0, 0>>, mid |-> <<0, 0>>, high |-> <<0, 0>>, head |-> 0]
  /\ dev = [d \in Drives |-> Idle(IF model[d].type = None THEN "absent" ELSE "ready")]
  /\ cache = [d \in Drives |-> FALSE]
  /\ call = None /\ pc = "idle" /\ ata_status = "SUCCESS" /\ moved = <<>>

-----------------------------------------------------------------------------
(* The drives.  One is at work when a call gave it up too early. *)
Working(d) == dev[d].phase \in {"busy", "drq"}
Sectors(m) == IF m.s48 > m.s28 THEN m.s48 ELSE m.s28

(* A drive that is at work does not take a command.  It decodes the registers by the command. *)
Command(d, op, wide) ==
  LET r == regs
      lba == IF wide THEN ToLba(<<r.low[1], r.mid[1], r.high[1], r.low[2], r.mid[2], r.high[2]>>)
             ELSE ToLba(<<r.low[1], r.mid[1], r.high[1], r.head>>)
      left == r.count[1] + IF wide THEN 256 * r.count[2] ELSE 0
  IN dev' = IF dev[d].phase \in {"absent", "busy"} THEN dev
            ELSE [dev EXCEPT ![d] = [phase |-> "busy", op |-> op, lba |-> lba, left |-> left,
                                     limit |-> IF wide THEN Lba48 ELSE Lba28]]

(* A busy drive comes to data, to the end, or to an error; a sector it does not have *)
(* or that the command cannot address is an error.  Only ata_probe_device tells a    *)
(* fault from other errors.                                                          *)
drive_works(d) ==
  LET c == dev[d]
      answers == CASE c.op = "identify" -> {IF model[d].type = "atapi" THEN "err" ELSE "drq"}
                   [] c.op = "identify_packet" -> {"drq"}
                   [] c.op \in {"read", "write"} -> {IF c.left = 0 THEN "ready" ELSE IF c.lba < Sectors(model[d]) /\ c.lba < c.limit
                                                   THEN "drq" ELSE "err"}
                   [] c.op = "flush" -> {"ready"}
  IN
  /\ c.phase = "busy"
  /\ \E p \in answers \cup {"err"} \cup (IF c.op \in {"identify", "identify_packet"} THEN {"df"} ELSE {}) :
       /\ dev' = [dev EXCEPT ![d] = IF p = "drq" THEN [c EXCEPT !.phase = p] ELSE Idle(p)]
       /\ cache' = IF c.op = "flush" /\ p = "ready" THEN [cache EXCEPT ![d] = FALSE] ELSE cache
  /\ UNCHANGED <<model, drive, locked, selected, regs, call, pc, ata_status, moved>>

(* a sector goes through the data register *)
MoveSector(d) ==
  LET c == dev[d] IN
  /\ dev' = [dev EXCEPT ![d] = IF c.op = "read" /\ c.left = 1 THEN Idle("ready")
                               ELSE [c EXCEPT !.phase = "busy", !.lba = @ + 1, !.left = @ - 1]]
  /\ cache' = IF c.op = "write" THEN [cache EXCEPT ![d] = TRUE] ELSE cache
  /\ moved' = Append(moved, [op |-> c.op, drive |-> d, lba |-> c.lba])

-----------------------------------------------------------------------------
Unlock == locked' = FALSE /\ pc' = "idle"

io_error ==
  /\ ata_status' = "ERR_IO"
  /\ Unlock /\ UNCHANGED <<model, drive, selected, regs, dev, cache, call, moved>>

(* what ata_wait_not_busy and ata_poll_drq see: the drive that is selected *)
Status == dev[selected].phase
AtWait == pc \in {"configure", "sector", "finish", "flush"}

(* a million readings are over *)
poll_timeout == AtWait /\ Status = "busy" /\ io_error
NoDrive == AtWait /\ Status = "absent" /\ io_error
DriveError == pc \in {"sector", "finish", "flush"} /\ Status \in {"err", "df"} /\ io_error
(* a drive that expects no data and gives none *)
NoData == pc = "sector" /\ Status = "ready" /\ io_error

-----------------------------------------------------------------------------
Same(p) == pc = p /\ UNCHANGED <<model, locked, call, ata_status>>

(* ata_read and ata_write: the checks before the lock *)
Invalid(d, lba, count, buffer) ==
  CASE drive[d].type # "ata" -> "ERR_INVALID_TYPE"
    [] drive[d].type = "ata" /\ ~buffer -> "ERR_INVALID_BUFFER"
    [] drive[d].type = "ata" /\ buffer /\ (count = 0 \/ lba >= drive[d].sectors \/ count > drive[d].sectors - lba) -> "ERR_INVALID_COUNT"
    [] OTHER -> "no"

rejected(d, why) ==
  /\ pc = "idle" /\ why # "no" /\ ata_status' = why /\ call' = None /\ moved' = <<>>
  /\ UNCHANGED <<model, drive, locked, selected, regs, dev, cache, pc>>

transfer(op, d, lba, count) ==
  /\ pc = "idle" /\ Invalid(d, lba, count, TRUE) = "no" /\ ~locked
  /\ locked' = TRUE /\ pc' = "configure" /\ moved' = <<>>
  /\ call' = [op |-> op, drive |-> d, lba |-> lba, count |-> count, stale |-> Working(d)]
  /\ ata_status' = None /\ UNCHANGED <<model, drive, selected, regs, dev, cache>>

Put(r, new) == <<new, r[1]>>
Fits28 == drive[call.drive].lba28 /\ call.lba < Lba28 /\ call.count <= Lba28 - call.lba

(* mutant of Mode: a transfer that begins below the 28-bit limit may end above it *)
ModeByStart ==
  IF drive[call.drive].lba28 /\ call.lba < Lba28 THEN 28
  ELSE IF drive[call.drive].lba48 THEN 48 ELSE 0

(* the choice of ata_configure_lba, 0 for none *)
Mode == IF Fits28 THEN 28 ELSE IF drive[call.drive].lba48 /\ call.lba < Lba48 THEN 48 ELSE 0

(* the registers; for a 48-bit address the upper digits first *)
ata_configure_lba ==
  LET D(weight) == Digit(call.lba, weight)
      once == [count |-> Put(regs.count, call.count), low |-> Put(regs.low, D(1)), mid |-> Put(regs.mid, D(2)),
               high |-> Put(regs.high, D(4)), head |-> D(8)]
      twice == [count |-> <<call.count, 0>>, low |-> <<D(1), D(8)>>, mid |-> <<D(2), D(16)>>,
                high |-> <<D(4), D(32)>>, head |-> 0]
  IN
  /\ Same("configure") /\ Status \in {"ready", "drq", "err", "df"} /\ Mode # 0
  /\ selected' = call.drive /\ regs' = IF Mode = 28 THEN once ELSE twice
  /\ pc' = "command" /\ UNCHANGED <<drive, dev, cache, moved>>

NoMode == pc = "configure" /\ Status # "busy" /\ Status # "absent" /\ Mode = 0 /\ io_error

send_command ==
  /\ Same("command") /\ Command(selected, call.op, Mode = 48) /\ pc' = "sector"
  /\ UNCHANGED <<drive, selected, regs, cache, moved>>

sector ==
  /\ Same("sector") /\ Status = "drq" /\ MoveSector(selected)
  /\ pc' = IF Len(moved') = call.count THEN "finish" ELSE "sector"
  /\ UNCHANGED <<drive, selected, regs>>

Succeed ==
  /\ ata_status' = "SUCCESS"
  /\ Unlock /\ UNCHANGED <<model, drive, selected, regs, dev, cache, call, moved>>

(* the status after the last sector; a write then has the cache flushed *)
finish ==
  \/ pc = "finish" /\ call.op = "read" /\ Status \in {"ready", "drq"} /\ Succeed
  \/ /\ Same("finish") /\ call.op = "write" /\ Status \in {"ready", "drq"}
     /\ Command(selected, "flush", FALSE) /\ pc' = "flush"
     /\ UNCHANGED <<drive, selected, regs, cache, moved>>

flushed == pc = "flush" /\ Status \in {"ready", "drq"} /\ Succeed

-----------------------------------------------------------------------------
(* ata_probe_device: the view is cleared, the drive selected *)
ata_probe_device(d) ==
  /\ pc = "idle" /\ ~locked /\ locked' = TRUE
  /\ drive' = [drive EXCEPT ![d] = Unknown] /\ selected' = d /\ ata_status' = "SUCCESS"
  /\ call' = [op |-> "identify", drive |-> d] /\ pc' = "probe" /\ moved' = <<>>
  /\ UNCHANGED <<model, regs, dev, cache>>

(* nothing there, a time limit, a fault, or an answer that makes no sense *)
probe_fails ==
  /\ \/ pc \in {"probe", "identify", "packet"} /\ Status \in {"absent", "busy"}
     \/ pc \in {"identify", "packet"} /\ Status \in {"df", "ready"}
     \/ pc = "identify" /\ Status = "err" /\ model[selected].type # "atapi"
     \/ pc = "packet" /\ Status = "err"
  /\ Unlock /\ UNCHANGED <<model, drive, selected, regs, dev, cache, call, ata_status, moved>>

(* IDENTIFY, and IDENTIFY PACKET after an error with the signature of a packet device *)
identify ==
  /\ \/ /\ Same("probe") /\ Status \in {"ready", "drq", "err", "df"} /\ pc' = "identify"
        /\ regs' = [r \in DOMAIN regs |-> IF r = "head" THEN 0 ELSE Put(regs[r], 0)]
        /\ Command(selected, "identify", FALSE)
     \/ /\ Same("identify") /\ Status = "err" /\ model[selected].type = "atapi" /\ pc' = "packet"
        /\ Command(selected, "identify_packet", FALSE) /\ UNCHANGED regs
  /\ UNCHANGED <<drive, selected, cache, moved>>

(* 256 words are read; when they are of the wrong type the view stays cleared *)
identified ==
  LET m == model[selected]
      type == IF pc = "packet" THEN "atapi" ELSE "ata"
      sectors == IF m.lba48 /\ m.s48 # 0 THEN m.s48 ELSE IF m.lba28 THEN m.s28 ELSE 0
  IN
  /\ pc \in {"identify", "packet"} /\ Status = "drq"
  /\ \/ UNCHANGED drive
     \/ type = "atapi" /\ drive' = [drive EXCEPT ![call.drive].type = type]
     \/ /\ type = "ata"
        /\ drive' = [drive EXCEPT ![call.drive] = [type |-> type, lba28 |-> m.lba28, lba48 |-> m.lba48,
                                                   sectors |-> sectors]]
  /\ dev' = [dev EXCEPT ![selected] = Idle("ready")]
  /\ Unlock /\ UNCHANGED <<model, selected, regs, cache, call, ata_status, moved>>

Next ==
  \/ \E d \in Drives :
       \/ drive_works(d) \/ ata_probe_device(d)
       \/ \E lba \in Lbas, count \in Counts, op \in {"read", "write"} : transfer(op, d, lba, count)
       \/ \E why \in {Invalid(d, lba, count, buffer) : lba \in Lbas, count \in Counts, buffer \in BOOLEAN} : rejected(d, why)
  \/ poll_timeout \/ NoDrive \/ DriveError \/ NoData \/ NoMode
  \/ ata_configure_lba \/ send_command \/ sector \/ finish \/ flushed
  \/ probe_fails \/ identify \/ identified

Spec == Init /\ [][Next]_vars

-----------------------------------------------------------------------------
TypeOK ==
  /\ locked \in BOOLEAN /\ selected \in Drives
  /\ \A d \in Drives : dev[d].phase \in {"absent", "ready", "busy", "drq", "err", "df"} /\ cache[d] \in BOOLEAN
  /\ \A r \in DOMAIN regs \ {"count", "head"} : regs[r] \in (0 .. 1) \X (0 .. 1)

(* A call that reports SUCCESS moved exactly the sectors it was asked for, in order and *)
(* of the right drive, across the limit of 28-bit addresses too, and left nothing it    *)
(* wrote in the cache of the drive; no drive gets a command for a sector that the       *)
(* command cannot address; and every way out of a call releases the lock (ata_read,     *)
(* ata_write).  A drive that an earlier call left at work is excepted.                  *)
TransfersMatch ==
  /\ pc = "idle" => ~locked
  /\ \A d \in Drives : dev[d].op \in {"read", "write"} => dev[d].lba + dev[d].left <= dev[d].limit
  /\ (pc = "idle" /\ call # None /\ call.op # "identify" /\ ata_status = "SUCCESS" /\ ~call.stale) =>
       /\ moved = [i \in 1 .. call.count |-> [op |-> call.op, drive |-> call.drive, lba |-> call.lba + i - 1]]
       /\ call.op = "write" => ~cache[call.drive]
=============================================================================
