--------------------------------- MODULE MCUsb ---------------------------------
(***************************************************************************)
(* The drivers of three classes of host controllers under the same         *)
(* enumeration: a behaviour chooses one class and follows its driver.      *)
(* construct_controller gives each controller a driver object of its own,  *)
(* and GlobalUSB scans them one after another; the only thing two of them  *)
(* share is next_usb_address of their class, which starts at any value.    *)
(*                                                                         *)
(* UHCI is run on two instances: two ports, and one port with two          *)
(* endpoints.  Neither is followed beyond the first buffer that was freed  *)
(* while the frame list pointed to it, and the device of the second stays  *)
(* where it is once it is enumerated.                                      *)
(***************************************************************************)
EXTENDS Ehci, TLC

CONSTANTS DataTds, MoreBufs

ASSUME MoreAssumption == Nil \notin MoreBufs /\ DataTds \in Nat \ {0}

VARIABLES
  class,
  run, halted, frame_list, backup, anchor, link, scheduled, uhc, toggled, received, late, left,
  cle, enabled, control_head, old_head, skip, work, done, hcca, retired, ticked

UVars == <<run, halted, frame_list, backup, anchor, link, scheduled, uhc, toggled, received, late, left>>
OVars == <<cle, enabled, control_head, old_head, skip, work, done, hcca, retired, ticked>>
allVars == <<class, vars, UVars, OVars>>

U == INSTANCE UhciProofs WITH hc <- uhc, Bufs <- MoreBufs, MaxAddress <- 1
E == INSTANCE UhciProofs WITH hc <- uhc, Bufs <- MoreBufs, MaxAddress <- 1, NPorts <- 1, MaxEndpoints <- 2
O == INSTANCE OhciProofs WITH MaxAddress <- 1

NoEhci == next = Nil /\ bell = Nil /\ hc = Nil
NoUhci ==
  /\ run = Nil /\ halted = Nil /\ frame_list = Nil /\ backup = Nil /\ anchor = Nil
  /\ link = Nil /\ scheduled = Nil /\ uhc = Nil /\ toggled = Nil /\ received = Nil
  /\ late = Nil /\ left = Nil
NoOhci ==
  /\ cle = Nil /\ enabled = Nil /\ control_head = Nil /\ old_head = Nil /\ skip = Nil
  /\ work = Nil /\ done = Nil /\ hcca = Nil /\ retired = Nil /\ ticked = Nil

MCInit ==
  \/ class = "EHCI" /\ Init /\ NoUhci /\ NoOhci
  \/ class = "UHCI" /\ U!Init /\ NoEhci /\ NoOhci
  \/ class = "UHCI endpoints" /\ E!Init /\ NoEhci /\ NoOhci
  \/ class = "OHCI" /\ O!Init /\ NoEhci /\ NoUhci

MCNext ==
  /\ UNCHANGED class
  /\ \/ class = "EHCI" /\ Next /\ UNCHANGED <<UVars, OVars>>
     \/ class = "UHCI" /\ late = {} /\ U!Next /\ UNCHANGED <<bus, OVars>>
     \/ /\ class = "UHCI endpoints" /\ late = {} /\ E!Next /\ UNCHANGED <<bus, OVars>>
        /\ port > 1 => UNCHANGED dev
     \/ class \in {"UHCI", "UHCI endpoints"} /\ (late # {} \/ port > 1) /\ UNCHANGED <<vars, UVars, OVars>>
     \/ class = "OHCI" /\ O!Next /\ UNCHANGED <<bus, UVars>>

MCSpec == MCInit /\ [][MCNext]_allVars

BufSymmetry == Permutations(Bufs)

-----------------------------------------------------------------------------
(* Ehci!NoUseAfterFree: no queue head the EHCI controller holds or can reach *)
(* was freed, however late the controller is (unlink_async_qh, quarantine).  *)
EhciNoUseAfterFree == class = "EHCI" => NoUseAfterFree

(* Ehci!RingCloses: the asynchronous schedule stays a ring through async_head *)
(* around whatever given-up transfers left in it (insert and unlink_async_qh). *)
EhciRingCloses == class = "EHCI" => RingCloses

(* Uhci!NoUseAfterFree: nothing in the UHCI frame list or at work was freed, *)
(* but for a transfer during which the controller did not halt or start.     *)
UhciNoUseAfterFree ==
  /\ class = "UHCI" => U!NoUseAfterFree
  /\ class = "UHCI endpoints" => E!NoUseAfterFree

(* Uhci!BetweenCalls: no call leaves its queue head in the schedule or the *)
(* toggles of host and device apart, unless it reports LINK_ERROR or       *)
(* UNLINK_ERROR (link_qh, unlink_qh, usb_transfer).                        *)
UhciBetweenCalls ==
  /\ class = "UHCI" => U!BetweenCalls
  /\ class = "UHCI endpoints" => E!BetweenCalls

(* Ohci!NoUseAfterFree: with one TD for the data stage, what the control list, *)
(* the controller and the done queue refer to is never in a freed buffer       *)
(* (restore_control_schedule).                                                 *)
OhciNoUseAfterFree == class = "OHCI" => O!NoUseAfterFree

(* In every class two devices answer to one address only after a mishap. *)
DistinctAddresses ==
  CASE class = "UHCI endpoints" -> E!AddressesDistinct
    [] OTHER -> AddressesDistinct
=============================================================================
