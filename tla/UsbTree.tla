-------------------------------- MODULE UsbTree --------------------------------
(***************************************************************************)
(* The configuration of a USB device as the device sends it: a sequence of *)
(* descriptors, each with its length and its type in front (drivers/usb/   *)
(* usb.cpp).  get_device counts the interfaces (count_tree) and then reads *)
(* each with its endpoints (fill_interfaces); the lengths are the device's *)
(* and need not fit.                                                       *)
(*                                                                         *)
(* Of an interface the third byte is the number of its endpoints, of an    *)
(* endpoint its address.                                                   *)
(***************************************************************************)
EXTENDS Integers, Sequences, FiniteSets

CONSTANTS
  Trees,          \* sequences of bytes
  DescriptorSize  \* size of the structure of an interface, an endpoint and a companion

VARIABLES
  tree,           \* the bytes
  pc, offset,     \* where the reader is
  interfaces_count, interfaces,  \* how many were counted; what was read
  wanted, endpoints,  \* the interface at work: its number of endpoints, those that were read
  held,           \* whether the memory of the interfaces is held
  result,         \* get_device: whether the device may be used
  no_memory,      \* history: an allocation failed
  furthest        \* history: bytes up to here were read

vars == <<tree, pc, offset, interfaces_count, interfaces, wanted, endpoints, held, result, no_memory, furthest>>

Interface == 4
Endpoint == 5
Companion == 48

max_length == Len(tree)
At(n) == IF n < max_length THEN tree[n + 1] ELSE 0
Reading(n) == furthest' = IF n > furthest THEN n ELSE furthest
Heading(o) == IF max_length - o < 2 THEN 0 ELSE o + 2

Init ==
  /\ tree \in Trees /\ pc = "count" /\ offset = 0 /\ interfaces_count = 0 /\ interfaces = <<>>
  /\ wanted = 0 /\ endpoints = <<>> /\ held = FALSE /\ result = FALSE /\ no_memory = FALSE /\ furthest = 0

-----------------------------------------------------------------------------
(* mutant of Fits: a length beyond the end is taken *)
FitsAnyhow(o) == max_length - o >= 2 /\ At(o) >= 2

(* the tests in front of every descriptor *)
Fits(o) == max_length - o >= 2 /\ At(o) >= 2 /\ At(o) <= max_length - o

(* count_tree: one round; it ends at the end or where the lengths stop to make sense *)
count_tree ==
  /\ pc = "count" /\ Reading(Heading(offset))
  /\ IF Fits(offset)
     THEN /\ interfaces_count' = interfaces_count + (IF At(offset + 1) = Interface THEN 1 ELSE 0)
          /\ offset' = offset + At(offset) /\ UNCHANGED pc
     ELSE /\ pc' = IF interfaces_count = 0 THEN "done" ELSE "allocate"
          /\ offset' = 0 /\ UNCHANGED interfaces_count
  /\ UNCHANGED <<tree, interfaces, wanted, endpoints, held, result, no_memory>>

(* get_device takes the memory for the interfaces, or gives the device up *)
allocate ==
  /\ pc = "allocate"
  /\ \/ pc' = "next" /\ held' = TRUE /\ UNCHANGED no_memory
     \/ pc' = "done" /\ no_memory' = TRUE /\ UNCHANGED held
  /\ UNCHANGED <<tree, offset, interfaces_count, interfaces, wanted, endpoints, result, furthest>>

(* fill_interfaces returns; after a failure get_device frees what was taken *)
Done(ok) == pc' = "done" /\ result' = ok /\ held' = ok /\ UNCHANGED <<offset, interfaces, wanted, endpoints>>
Stay == UNCHANGED <<held, result>>

(* the loop over all descriptors ends, or cannot go on *)
interfaces_end ==
  /\ pc = "next" /\ UNCHANGED <<tree, interfaces_count, no_memory>>
  /\ \/ /\ offset >= max_length \/ Len(interfaces) = interfaces_count
        /\ Done(Len(interfaces) = interfaces_count) /\ UNCHANGED furthest
     \/ /\ offset < max_length /\ Len(interfaces) < interfaces_count
        /\ ~Fits(offset) \/ (At(offset + 1) = Interface /\ At(offset) < DescriptorSize)
        /\ Done(FALSE) /\ Reading(Heading(offset))

(* One round of it.  An interface without endpoints is complete; for one with      *)
(* endpoints memory is taken, which may fail; anything else is passed over.        *)
next_interface ==
  LET found == At(offset + 1) = Interface IN
  /\ pc = "next" /\ offset < max_length /\ Len(interfaces) < interfaces_count
  /\ Fits(offset) /\ (found => At(offset) >= DescriptorSize)
  /\ Reading(offset + IF found THEN DescriptorSize ELSE 2) /\ UNCHANGED <<tree, interfaces_count>>
  /\ \/ /\ found /\ At(offset + 2) > 0 /\ pc' = "skip"
        /\ wanted' = At(offset + 2) /\ endpoints' = <<>> /\ Stay /\ UNCHANGED <<offset, interfaces, no_memory>>
     \/ found /\ At(offset + 2) > 0 /\ Done(FALSE) /\ no_memory' = TRUE
     \/ /\ ~(found /\ At(offset + 2) > 0)
        /\ interfaces' = IF found THEN Append(interfaces, <<>>) ELSE interfaces
        /\ offset' = offset + At(offset) /\ Stay /\ UNCHANGED <<pc, wanted, endpoints, no_memory>>

(* the descriptors between an interface and its first endpoint *)
skip_to_endpoint ==
  LET after == offset + At(offset) IN
  /\ pc = "skip" /\ Reading(Heading(after)) /\ UNCHANGED <<tree, interfaces_count, no_memory>>
  /\ IF Fits(after) /\ At(after + 1) # Interface
     THEN /\ offset' = after /\ pc' = IF At(after + 1) = Endpoint THEN "endpoint" ELSE "skip"
          /\ Stay /\ UNCHANGED <<interfaces, wanted, endpoints>>
     ELSE Done(FALSE)

HasCompanion(after) == max_length - after >= 2 /\ At(after + 1) = Companion
CompanionFits(after) == At(after) >= DescriptorSize /\ At(after) <= max_length - after

(* One round of the loop over the endpoints of an interface; descriptors of other  *)
(* types are passed over, and the companion of an endpoint is read with it.        *)
read_endpoint ==
  LET after == offset + At(offset)
      type == At(offset + 1)
      companion == HasCompanion(after)
      read == IF type = Endpoint THEN Append(endpoints, [address |-> At(offset + 2), companion |-> companion]) ELSE endpoints
  IN
  /\ pc = "endpoint" /\ UNCHANGED <<tree, interfaces_count, no_memory>>
  /\ Reading(IF type # Endpoint THEN Heading(after)
             ELSE IF At(offset) < DescriptorSize THEN offset + 2
             ELSE IF companion /\ CompanionFits(after) THEN after + DescriptorSize
             ELSE IF offset + DescriptorSize > Heading(after) THEN offset + DescriptorSize ELSE Heading(after))
  /\ IF \/ type = Interface
        \/ type = Endpoint /\ (At(offset) < DescriptorSize \/ (companion /\ ~CompanionFits(after)))
        \/ Len(read) < wanted /\ ~Fits(after)
     THEN Done(FALSE)
     ELSE /\ offset' = after /\ Stay /\ UNCHANGED wanted
          /\ IF Len(read) = wanted
             THEN pc' = "next" /\ interfaces' = Append(interfaces, read) /\ endpoints' = <<>>
             ELSE endpoints' = read /\ UNCHANGED <<pc, interfaces>>

Next ==
  \/ count_tree \/ allocate \/ interfaces_end \/ next_interface \/ skip_to_endpoint \/ read_endpoint

Spec == Init /\ [][Next]_vars

-----------------------------------------------------------------------------
TypeOK ==
  /\ pc \in {"count", "allocate", "next", "skip", "endpoint", "done"} /\ offset \in 0 .. max_length
  /\ Len(interfaces) <= interfaces_count /\ Len(endpoints) <= wanted
  /\ held \in BOOLEAN /\ result \in BOOLEAN

(* where a descriptor may begin: it has a length that makes sense *)
Whole == {o \in 0 .. max_length - 2 : At(o) \in 2 .. max_length - o}
(* the place after n descriptors, or where they end *)
begin[n \in 0 .. max_length] ==
  IF n = 0 THEN 0 ELSE LET o == begin[n - 1] IN IF o \in Whole THEN o + At(o) ELSE o
(* where the descriptors begin, up to the first whose length makes no sense *)
Descriptors == {begin[n] : n \in 0 .. max_length} \cap Whole
OfType(t) == {o \in Descriptors : At(o + 1) = t}

(* the endpoints of an interface: the first ones before the next interface *)
After(o) == {e \in OfType(Endpoint) : e > o /\ \A i \in OfType(Interface) : ~(o < i /\ i < e)}
Below(S, o) == {p \in S : p < o}
Own(o) == {e \in After(o) : Cardinality(Below(After(o), e)) < At(o + 2)}
InOrder(S) == [n \in 1 .. Cardinality(S) |-> CHOOSE o \in S : Cardinality(Below(S, o)) = n - 1]

(* what is to be read of an endpoint, and of an interface *)
Read(e) == [address |-> At(e + 2), companion |-> HasCompanion(e + At(e))]
EndpointsOf(o) == [m \in 1 .. Cardinality(Own(o)) |-> Read(InOrder(Own(o))[m])]

Complete(o) ==
  /\ At(o) >= DescriptorSize /\ Cardinality(Own(o)) = At(o + 2)
  /\ \A e \in Own(o) : LET after == e + At(e) IN
       At(e) >= DescriptorSize /\ (HasCompanion(after) => CompanionFits(after))

(* Whatever lengths and types a device sends: no byte behind the tree is read; the device *)
(* is used if and only if it has interfaces and each has its endpoints (and there was     *)
(* memory), and then all of them were read in order, each with its own; and no memory is  *)
(* held for a device that is not used (count_tree, fill_interfaces, get_device).          *)
TreeRead ==
  /\ furthest <= max_length
  /\ pc = "done" =>
       /\ held = result
       /\ ~no_memory => (result <=> OfType(Interface) # {} /\ \A o \in OfType(Interface) : Complete(o))
       /\ result =>
            interfaces = [n \in 1 .. Cardinality(OfType(Interface)) |-> EndpointsOf(InOrder(OfType(Interface))[n])]
=============================================================================
