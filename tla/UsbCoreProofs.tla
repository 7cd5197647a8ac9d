----------------------------- MODULE UsbCoreProofs -----------------------------
(***************************************************************************)
(* The USB addresses, for any number of ports, buffers and addresses: what *)
(* enumeration keeps in order whichever driver carries out its transfers.  *)
(***************************************************************************)
EXTENDS UsbCore, TLAPS

TransferOK(q) ==
  /\ {"n", "value", "done", "halted", "flagged"} \subseteq DOMAIN q
  /\ q.n \in Nat /\ q.value \in Nat /\ q.done \in 0 .. q.n

(* a SET_ADDRESS in b that a device can still hear *)
Pending(b) == qh[b].value # 0 /\ qh[b].done < qh[b].n

(* from allocate_usb_address until it is known whether the device has the address *)
InHand == step = "descriptor" \/ (step = "address" /\ pc # "ready")

AddressTypes ==
  /\ DOMAIN qh = Bufs /\ \A b \in Bufs : TransferOK(qh[b])
  /\ dev \in [Ports -> [here : BOOLEAN, on : BOOLEAN, addr : Nat]] /\ mishap \in BOOLEAN
  /\ next_usb_address \in Nat \ {0} /\ address \in Nat
  /\ port \in Nat \ {0} /\ (step # "reset" => port \in Ports)
  /\ step = "address" /\ pc # "ready" => cur \in Bufs
  /\ InHand => address # 0

(* an address is below next_usb_address, and has one device or one SET_ADDRESS *)
OneEach ==
  /\ \A p, q \in Ports : p # q /\ dev[p].on /\ dev[q].on => dev[p].addr # dev[q].addr
  /\ \A p \in Ports : dev[p].on => dev[p].addr < next_usb_address
  /\ \A b \in Bufs : Pending(b) =>
       /\ qh[b].value < next_usb_address
       /\ \A p \in Ports : dev[p].on => dev[p].addr # qh[b].value
  /\ \A b, c \in Bufs : b # c /\ Pending(b) /\ Pending(c) => qh[b].value # qh[c].value

(* only the device being enumerated can have the address in hand *)
InOrder ==
  /\ step # "reset" => \A p \in Ports \ {port} : dev[p].on => dev[p].addr # 0
  /\ InHand => /\ address = next_usb_address - 1
               /\ \A p \in Ports \ {port} : dev[p].on => dev[p].addr # address
               /\ \A b \in Bufs : Pending(b) /\ qh[b].value = address => b = cur /\ step = "address"
  /\ step = "address" /\ pc # "ready" => qh[cur].value = address

AddressInv == AddressTypes /\ (~mishap => OneEach /\ InOrder)

-----------------------------------------------------------------------------
Device == [here : BOOLEAN, on : BOOLEAN, addr : Nat]

(* at first no port is enabled and no SET_ADDRESS was sent *)
LEMMA InitAddress == CoreInit => AddressInv
  <1> SUFFICES ASSUME CoreInit PROVE AddressInv OBVIOUS
  <1>1. TransferOK(Blank) /\ Blank.value = 0 BY DEF Blank, Transfer, TransferOK
  <1>2. AddressTypes
    <2>1. next_usb_address \in Nat \ {0} BY UsbAssumption DEF CoreInit
    <2>2. [here |-> TRUE, on |-> FALSE, addr |-> 0] \in [here : BOOLEAN, on : BOOLEAN, addr : Nat] OBVIOUS
    <2>3. dev \in [Ports -> [here : BOOLEAN, on : BOOLEAN, addr : Nat]] BY <2>2 DEF CoreInit
    <2>4. DOMAIN qh = Bufs /\ \A b \in Bufs : TransferOK(qh[b]) BY <1>1 DEF CoreInit
    <2>5. mishap \in BOOLEAN /\ step = "reset" BY DEF CoreInit
    <2>6. port \in Nat \ {0} /\ address \in Nat BY DEF CoreInit
    <2> QED BY <2>1, <2>3, <2>4, <2>5, <2>6 DEF AddressTypes, InHand
  <1>3. OneEach BY <1>1 DEF CoreInit, OneEach, Pending
  <1>4. InOrder BY DEF CoreInit, InOrder, InHand
  <1> QED BY <1>2, <1>3, <1>4 DEF AddressInv

(* the devices stay, are disabled, or fall back to address 0 *)
LEMMA FewerAddresses ==
  ASSUME AddressTypes, OneEach, UNCHANGED <<qh, next_usb_address>>, dev' \in [Ports -> Device], ~Mishap(dev'),
         \A p \in Ports : dev'[p].on => dev'[p].addr = 0 \/ (dev[p].on /\ dev'[p].addr = dev[p].addr)
  PROVE  OneEach'
  <1>1. \A p, q \in Ports : p # q /\ dev'[p].on /\ dev'[q].on => dev'[p].addr # dev'[q].addr
    BY DEF OneEach, Mishap
  <1>2. \A p \in Ports : dev'[p].on => dev'[p].addr < next_usb_address BY DEF OneEach, AddressTypes
  <1>3. \A b \in Bufs : Pending(b) =>
          /\ qh[b].value < next_usb_address
          /\ \A p \in Ports : dev'[p].on => dev'[p].addr # qh[b].value
    BY DEF OneEach, Pending
  <1> QED BY <1>1, <1>2, <1>3 DEF OneEach, Pending

(* the driver moves within a transfer, or gives the port up without a word on its address *)
LEMMA QuietKeeps ==
  ASSUME AddressInv, UNCHANGED <<qh, dev, mishap, next_usb_address>>,
         \/ /\ UNCHANGED <<step, port, address>>
            /\ step = "address" /\ pc' # "ready" => pc # "ready" /\ cur' = cur
         \/ NextPort
  PROVE  AddressInv'
  <1>1. AddressTypes' BY DEF AddressInv, AddressTypes, NextPort, InHand
  <1>2. ASSUME ~mishap PROVE OneEach' /\ InOrder'
    <2>1. OneEach' BY <1>2 DEF AddressInv, OneEach, Pending
    <2>2. InOrder' BY <1>2 DEF AddressInv, InOrder, InHand, Pending, NextPort
    <2> QED BY <2>1, <2>2
  <1> QED BY <1>1, <1>2 DEF AddressInv

(* ResetOk and ResetFails *)
LEMMA ResetDevices ==
  ASSUME AddressTypes, port \in Ports, ResetOk \/ ResetFails
  PROVE  /\ dev' \in [Ports -> Device] /\ mishap' = (mishap \/ Mishap(dev'))
         /\ \A p \in Ports \ {port} : dev'[p] = dev[p]
         /\ \/ dev'[port].on => dev[port].on /\ dev'[port].addr = dev[port].addr
            \/ dev'[port].addr = 0
         /\ ResetOk => dev'[port].on /\ dev'[port].addr = 0
  <1>1. dev[port] \in Device BY DEF AddressTypes, Device
  <1>2. CASE ResetOk
    <2>1. dev' = [dev EXCEPT ![port].on = TRUE, ![port].addr = 0] /\ mishap' = (mishap \/ Mishap(dev'))
      BY <1>2 DEF ResetOk, Devices
    <2> QED BY <1>1, <2>1 DEF AddressTypes, Device
  <1>3. CASE ~ResetOk /\ Devices(dev) BY <1>3 DEF Devices, AddressTypes, Device
  <1>4. CASE ~ResetOk /\ Devices([dev EXCEPT ![port].on = FALSE])
    <2>1. dev' = [dev EXCEPT ![port].on = FALSE] /\ mishap' = (mishap \/ Mishap(dev'))
      BY <1>4 DEF Devices
    <2> QED BY <1>1, <1>4, <2>1 DEF AddressTypes, Device
  <1> QED BY <1>2, <1>3, <1>4 DEF ResetFails, ResetLeaves

(* reset_port: the device at the port is the only one at address 0, unless there was a mishap *)
LEMMA ResetKeeps ==
  ASSUME AddressInv, AtStep("reset"), (ResetOk /\ Proceed) \/ (ResetFails /\ GiveUp),
         UNCHANGED <<qh, next_usb_address>>
  PROVE  AddressInv'
  <1>1. port \in Ports /\ step = "reset" /\ pc = "ready" BY UsbAssumption DEF AddressInv, AddressTypes, AtStep, Ports
  <1>2. /\ dev' \in [Ports -> Device] /\ mishap' = (mishap \/ Mishap(dev'))
        /\ \A p \in Ports \ {port} : dev'[p] = dev[p]
        /\ \/ dev'[port].on => dev[port].on /\ dev'[port].addr = dev[port].addr
           \/ dev'[port].addr = 0
        /\ ResetOk => dev'[port].on /\ dev'[port].addr = 0
    BY <1>1, ResetDevices DEF AddressInv
  <1>3. \/ step' = "reset" /\ port' = port + 1 /\ address' = 0
        \/ ResetOk /\ step' = "identify" /\ UNCHANGED <<port, address>>
    BY <1>1 DEF Proceed, GiveUp, NextPort, Steps
  <1>4. AddressTypes'
    BY <1>1, <1>2, <1>3 DEF AddressInv, AddressTypes, Device, InHand
  <1>5. ASSUME ~mishap' PROVE OneEach' /\ InOrder'
    <2>1. ~mishap /\ ~Mishap(dev') BY <1>2, <1>5
    <2>2. OneEach' BY <1>2, <2>1, FewerAddresses DEF AddressInv
    <2>3. InOrder' BY <1>1, <1>2, <1>3, <2>1 DEF InOrder, InHand, Mishap
    <2> QED BY <2>2, <2>3
  <1> QED BY <1>4, <1>5 DEF AddressInv

(* a request is filled in, SET_ADDRESS with a new address *)
LEMMA TakeKeeps ==
  ASSUME AddressInv, NEW b \in Bufs, NEW r, TransferOK(r), r.value = IF step = "address" THEN address' ELSE 0,
         Take(b), qh' = [qh EXCEPT ![b] = r], pc' # "ready", UNCHANGED <<dev, scan, mishap>>
  PROVE  AddressInv'
  <1>1. /\ pc = "ready" /\ step \notin {"reset", "endpoints"} /\ cur' = b
        /\ UNCHANGED <<step, port, found>>
        /\ IF step = "address" THEN address' = next_usb_address /\ next_usb_address' = next_usb_address + 1
                               ELSE UNCHANGED <<address, next_usb_address>>
    BY DEF Take, AtTransfer, allocate_usb_address, addresses, scan
  <1>2. DOMAIN qh' = Bufs /\ qh'[b] = r /\ \A c \in Bufs \ {b} : qh'[c] = qh[c] BY DEF AddressInv, AddressTypes
  <1>3. AddressTypes' BY <1>1, <1>2 DEF AddressInv, AddressTypes, InHand
  <1>4. ASSUME ~mishap PROVE OneEach' /\ InOrder'
    <2> USE DEF Pending
    <2>1. OneEach /\ InOrder /\ AddressTypes BY <1>4 DEF AddressInv
    <2>2. CASE step = "address"
      <3>1. r.value = next_usb_address BY <1>1, <2>2
      <3>2. OneEach'
        <4>1. \A p \in Ports : dev[p].on => dev[p].addr < next_usb_address /\ dev[p].addr \in Nat
          BY <2>1 DEF OneEach, AddressTypes
        <4>2. \A c \in Bufs \ {b} : Pending(c) => qh[c].value < next_usb_address /\ qh[c].value \in Nat
          BY <2>1 DEF OneEach, AddressTypes, TransferOK
        <4>3. next_usb_address \in Nat /\ next_usb_address' = next_usb_address + 1 /\ dev' = dev
          BY <1>1, <2>1, <2>2 DEF AddressTypes
        <4>4. \A p \in Ports : dev'[p].on => dev'[p].addr < next_usb_address' BY <4>1, <4>3
        <4>5. \A c \in Bufs : Pending(c)' =>
                /\ qh'[c].value < next_usb_address'
                /\ \A p \in Ports : dev'[p].on => dev'[p].addr # qh'[c].value
          BY <1>2, <2>1, <3>1, <4>1, <4>2, <4>3 DEF OneEach
        <4>6. \A c, e \in Bufs : c # e /\ Pending(c)' /\ Pending(e)' => qh'[c].value # qh'[e].value
          BY <1>2, <2>1, <3>1, <4>2, <4>3 DEF OneEach
        <4> QED BY <2>1, <4>3, <4>4, <4>5, <4>6 DEF OneEach
      <3>3. InOrder' BY <1>1, <1>2, <2>1, <2>2, <3>1 DEF InOrder, OneEach, InHand, AddressTypes
      <3> QED BY <3>2, <3>3
    <2>3. CASE step # "address"
      <3>2. OneEach' BY <1>1, <1>2, <2>1, <2>3 DEF OneEach
      <3>3. InOrder' BY <1>1, <1>2, <2>1, <2>3 DEF InOrder, InHand
      <3> QED BY <3>2, <3>3
    <2> QED BY <2>2, <2>3
  <1> QED BY <1>3, <1>4 DEF AddressInv

(* what is over is no longer pending, and nothing becomes pending *)
LEMMA FreedTransfer ==
  ASSUME AddressTypes, NEW b, qh' = [qh EXCEPT ![b] = Blank]
  PROVE  /\ DOMAIN qh' = Bufs /\ \A c \in Bufs : TransferOK(qh'[c])
         /\ \A c \in Bufs : Pending(c)' => c # b /\ qh'[c] = qh[c] /\ Pending(c)
  <1>1. TransferOK(Blank) /\ Blank.value = 0 BY DEF Blank, Transfer, TransferOK
  <1> QED BY <1>1 DEF AddressTypes, Pending

(* as QuietKeeps, when transfers end or change and none becomes pending *)
LEMMA EasedKeeps ==
  ASSUME AddressInv, UNCHANGED <<dev, mishap, next_usb_address>>,
         DOMAIN qh' = Bufs, \A c \in Bufs : TransferOK(qh'[c]),
         \A c \in Bufs : Pending(c)' => Pending(c) /\ qh'[c].value = qh[c].value,
         \/ /\ UNCHANGED <<step, port, address>>
            /\ step = "address" /\ pc' # "ready" => pc # "ready" /\ cur' = cur /\ qh'[cur].value = qh[cur].value
         \/ NextPort
  PROVE  AddressInv'
  <1>1. AddressTypes' BY DEF AddressInv, AddressTypes, NextPort, InHand
  <1>2. ASSUME ~mishap PROVE OneEach' /\ InOrder'
    <2>1. OneEach' BY <1>2 DEF AddressInv, OneEach
    <2>2. InOrder'
      <3>1. CASE NextPort BY <3>1 DEF InOrder, InHand, NextPort
      <3>2. CASE UNCHANGED <<step, port, address>> BY <1>2, <3>2 DEF AddressInv, InOrder, InHand, NextPort
      <3> QED BY <3>1, <3>2
    <2> QED BY <2>1, <2>2
  <1> QED BY <1>1, <1>2 DEF AddressInv

(* identify_device and control_transfer do not touch the addresses *)
LEMMA PlainEnd ==
  ASSUME AddressInv, pc # "ready", Free(cur), identify_done \/ packet_done PROVE AddressInv'
  <1>1. /\ qh' = [qh EXCEPT ![cur] = Blank] /\ UNCHANGED <<dev, next_usb_address, mishap>>
        /\ pc' = "ready" /\ step \in {"identify", "config", "tree", "setconf"}
        /\ \/ step' = "reset" /\ port' = port + 1 /\ address' = 0
           \/ step' \in {"address", "tree", "setconf", "endpoints"} /\ UNCHANGED <<port, address>>
    BY DEF Free, identify_done, packet_done, Proceed, GiveUp, Return, NextPort, Steps
  <1>2. /\ DOMAIN qh' = Bufs /\ \A c \in Bufs : TransferOK(qh'[c])
        /\ \A c \in Bufs : Pending(c)' => qh'[c] = qh[c] /\ Pending(c)
    BY <1>1, FreedTransfer DEF AddressInv
  <1>3. AddressTypes' BY <1>1, <1>2 DEF AddressInv, AddressTypes, InHand
  <1>4. ASSUME ~mishap PROVE OneEach' /\ InOrder'
    <2>1. OneEach' BY <1>1, <1>2, <1>4 DEF AddressInv, OneEach
    <2>2. InOrder' BY <1>1, <1>4 DEF AddressInv, InOrder, InHand
    <2> QED BY <2>1, <2>2
  <1> QED BY <1>1, <1>3, <1>4 DEF AddressInv

(* set_address: the address stays in hand, or goes back and no device has it *)
LEMMA AddressEnd ==
  ASSUME AddressInv, pc # "ready", Free(cur), address_done PROVE AddressInv'
  <1>1. /\ qh' = [qh EXCEPT ![cur] = Blank] /\ UNCHANGED dev /\ pc' = "ready" /\ step = "address"
        /\ \/ /\ step' = "descriptor" /\ UNCHANGED <<port, address, next_usb_address, mishap>>
           \/ /\ step' = "reset" /\ port' = port + 1 /\ address' = 0 /\ next_usb_address' = address
              /\ mishap' = (mishap \/ qh[cur].done = qh[cur].n)
    BY DEF Free, address_done, AddressFails, Proceed, GiveUp, Return, NextPort, Steps
  <1>2. /\ DOMAIN qh' = Bufs /\ \A c \in Bufs : TransferOK(qh'[c])
        /\ \A c \in Bufs : Pending(c)' => c # cur /\ qh'[c] = qh[c] /\ Pending(c)
    BY <1>1, FreedTransfer DEF AddressInv
  <1>3. AddressTypes'
    <2>1. next_usb_address' \in Nat \ {0} BY <1>1 DEF AddressInv, AddressTypes, InHand
    <2>2. mishap' \in BOOLEAN BY <1>1 DEF AddressInv, AddressTypes
    <2> QED BY <1>1, <1>2, <2>1, <2>2 DEF AddressInv, AddressTypes, InHand
  <1>4. ASSUME ~mishap', step' = "descriptor" PROVE OneEach' /\ InOrder'
    <2>1. OneEach /\ InOrder BY <1>1, <1>4 DEF AddressInv
    <2>2. OneEach' BY <1>1, <1>2, <1>4, <2>1 DEF OneEach
    <2>3. InOrder' BY <1>1, <1>2, <1>4, <2>1 DEF InOrder, InHand
    <2> QED BY <2>2, <2>3
  <1>5. ASSUME ~mishap', step' = "reset" PROVE OneEach' /\ InOrder'
    <2>1. OneEach /\ InOrder /\ AddressTypes BY <1>1, <1>5 DEF AddressInv
    <2>2. Pending(cur) /\ qh[cur].value = address /\ cur \in Bufs
      <3>1. cur \in Bufs /\ qh[cur].value = address /\ address # 0 /\ TransferOK(qh[cur])
        BY <1>1, <2>1 DEF InOrder, AddressTypes, InHand
      <3>2. qh[cur].done # qh[cur].n BY <1>1, <1>5
      <3> QED BY <3>1, <3>2 DEF Pending, TransferOK
    <2>3. address = next_usb_address - 1 /\ address \in Nat /\ next_usb_address \in Nat /\ next_usb_address' = address
      BY <1>1, <1>5, <2>1 DEF InOrder, InHand, AddressTypes
    <2>4. \A p \in Ports : dev[p].on => dev[p].addr < address
      BY <2>1, <2>2, <2>3 DEF OneEach, AddressTypes
    <2>5. \A c \in Bufs \ {cur} : Pending(c) => qh[c].value < address
      BY <2>1, <2>2, <2>3 DEF OneEach, AddressTypes, TransferOK
    <2>6. OneEach' BY <1>1, <1>2, <2>1, <2>3, <2>4, <2>5 DEF OneEach
    <2>7. InOrder' BY <1>1, <1>5 DEF InOrder, InHand
    <2> QED BY <2>6, <2>7
  <1> QED BY <1>1, <1>3, <1>4, <1>5 DEF AddressInv

(* get_descriptor: the address is the device's, or goes back once the device was reset, *)
(* or is not used again                                                                 *)
LEMMA DescriptorEnd ==
  ASSUME AddressInv, pc # "ready", Free(cur), NEW ACTION Fails, Fails => ResetFails, descriptor_done(Fails)
  PROVE  AddressInv'
  <1>0. step = "descriptor" /\ port \in Ports BY DEF descriptor_done, AddressInv, AddressTypes
  <1>1. /\ qh' = [qh EXCEPT ![cur] = Blank] /\ pc' = "ready"
        /\ \/ /\ UNCHANGED <<next_usb_address, dev, mishap>>
              /\ \/ step' = "config" /\ UNCHANGED <<port, address>>
                 \/ step' = "reset" /\ port' = port + 1 /\ address' = 0
           \/ /\ step' = "reset" /\ port' = port + 1 /\ address' = 0
              /\ \/ ResetOk /\ next_usb_address' = address
                 \/ ResetFails /\ UNCHANGED next_usb_address
    BY <1>0 DEF Free, descriptor_done, Proceed, GiveUp, Return, NextPort, Steps
  <1>2. /\ DOMAIN qh' = Bufs /\ \A c \in Bufs : TransferOK(qh'[c])
        /\ \A c \in Bufs : Pending(c)' => qh'[c] = qh[c] /\ Pending(c)
    BY <1>1, FreedTransfer DEF AddressInv
  <1>3. CASE UNCHANGED <<next_usb_address, dev, mishap>>
    <2>1. AddressTypes' BY <1>0, <1>1, <1>2, <1>3 DEF AddressInv, AddressTypes, InHand
    <2>2. ASSUME ~mishap PROVE OneEach' /\ InOrder'
      <3>1. OneEach' BY <1>2, <1>3, <2>2 DEF AddressInv, OneEach
      <3>2. InOrder' BY <1>0, <1>1, <1>2, <1>3, <2>2 DEF AddressInv, InOrder, InHand
      <3> QED BY <3>1, <3>2
    <2> QED BY <1>3, <2>1, <2>2 DEF AddressInv
  <1>4. CASE /\ step' = "reset" /\ port' = port + 1 /\ address' = 0
             /\ \/ ResetOk /\ next_usb_address' = address
                \/ ResetFails /\ UNCHANGED next_usb_address
    <2>1. /\ dev' \in [Ports -> Device] /\ mishap' = (mishap \/ Mishap(dev'))
          /\ \A p \in Ports \ {port} : dev'[p] = dev[p]
          /\ \/ dev'[port].on => dev[port].on /\ dev'[port].addr = dev[port].addr
             \/ dev'[port].addr = 0
          /\ ResetOk => dev'[port].on /\ dev'[port].addr = 0
      BY <1>0, <1>4, ResetDevices DEF AddressInv
    <2>2. next_usb_address' \in Nat \ {0} BY <1>0, <1>4 DEF AddressInv, AddressTypes, InHand
    <2>3. AddressTypes' BY <1>2, <1>4, <2>1, <2>2 DEF AddressInv, AddressTypes, InHand, Device
    <2>4. ASSUME ~mishap' PROVE OneEach' /\ InOrder'
      <3>1. OneEach /\ InOrder /\ AddressTypes /\ ~Mishap(dev') BY <2>1, <2>4 DEF AddressInv
      <3>2. /\ \A p \in Ports : dev'[p].on =>
                  dev'[p].addr = 0 \/ (dev[p].on /\ dev'[p].addr = dev[p].addr)
            /\ \A p, q \in Ports : p # q /\ dev'[p].on /\ dev'[q].on => dev'[p].addr # dev'[q].addr
        BY <1>0, <2>1, <3>1 DEF OneEach, Mishap
      <3>3. \A p \in Ports : dev'[p].on => dev'[p].addr < next_usb_address'
        <4> SUFFICES ASSUME NEW p \in Ports, dev'[p].on, dev'[p].addr # 0
                     PROVE  dev'[p].addr < next_usb_address'
          BY <2>1, <2>2 DEF Device
        <4>1. dev[p].on /\ dev'[p].addr = dev[p].addr /\ dev[p].addr < next_usb_address /\ dev[p].addr \in Nat
          BY <3>1, <3>2 DEF OneEach, AddressTypes
        <4>2. CASE UNCHANGED next_usb_address BY <4>1, <4>2
        <4>3. CASE ResetOk /\ next_usb_address' = address
          <5>1. p # port BY <2>1, <4>3
          <5>2. dev[p].addr # address /\ address = next_usb_address - 1
            BY <1>0, <3>1, <4>1, <5>1 DEF InOrder, InHand
          <5> QED BY <3>1, <4>1, <4>3, <5>2 DEF AddressTypes
        <4> QED BY <1>4, <4>2, <4>3
      <3>4. \A b \in Bufs : Pending(b)' =>
              /\ qh'[b].value < next_usb_address'
              /\ \A p \in Ports : dev'[p].on => dev'[p].addr # qh'[b].value
        <4> SUFFICES ASSUME NEW b \in Bufs, Pending(b)'
                     PROVE  /\ qh'[b].value < next_usb_address'
                            /\ \A p \in Ports : dev'[p].on => dev'[p].addr # qh'[b].value
          OBVIOUS
        <4>1. Pending(b) /\ qh'[b] = qh[b] /\ qh[b].value \in Nat /\ qh[b].value # 0
          BY <1>2, <3>1 DEF AddressTypes, TransferOK, Pending
        <4>2. qh[b].value < next_usb_address /\ \A p \in Ports : dev[p].on => dev[p].addr # qh[b].value
          BY <3>1, <4>1 DEF OneEach
        <4>3. qh[b].value # address /\ address = next_usb_address - 1
          BY <1>0, <3>1, <4>1 DEF InOrder, InHand
        <4>4. qh[b].value < next_usb_address' BY <1>4, <3>1, <4>1, <4>2, <4>3 DEF AddressTypes
        <4> QED BY <3>2, <4>1, <4>2, <4>4
      <3>5. \A b, c \in Bufs : b # c /\ Pending(b)' /\ Pending(c)' => qh'[b].value # qh'[c].value
        BY <1>2, <3>1 DEF OneEach
      <3>6. OneEach' BY <3>2, <3>3, <3>4, <3>5 DEF OneEach
      <3>7. InOrder' BY <1>1, <1>4 DEF InOrder, InHand
      <3> QED BY <3>6, <3>7
    <2> QED BY <2>3, <2>4 DEF AddressInv
  <1> QED BY <1>1, <1>3, <1>4

(* what a controller does with a transfer *)
LEMMA FailKeeps ==
  ASSUME AddressInv, NEW b \in Bufs, StageFails(b),
         UNCHANGED <<pc, step, port, cur, address, next_usb_address>>
  PROVE  AddressInv'
  <1>1. qh' = [qh EXCEPT ![b].halted = TRUE] /\ UNCHANGED <<dev, mishap>> BY DEF StageFails
  <1>2. TransferOK(qh[b]) BY DEF AddressInv, AddressTypes
  <1> DEFINE r == [qh[b] EXCEPT !.halted = TRUE]
  <1>3. DOMAIN qh' = Bufs /\ qh'[b] = r /\ \A c \in Bufs \ {b} : qh'[c] = qh[c]
    BY <1>1 DEF AddressInv, AddressTypes
  <1>4. r.n = qh[b].n /\ r.done = qh[b].done /\ r.value = qh[b].value /\ DOMAIN r = DOMAIN qh[b]
    BY <1>2 DEF TransferOK
  <1> HIDE DEF r
  <1>5. TransferOK(r) BY <1>2, <1>4 DEF TransferOK
  <1>6. \A c \in Bufs : TransferOK(qh'[c]) /\ Pending(c)' = Pending(c) /\ qh'[c].value = qh[c].value
    BY <1>3, <1>4, <1>5 DEF AddressInv, AddressTypes, Pending
  <1>7. AddressTypes' BY <1>1, <1>3, <1>6 DEF AddressInv, AddressTypes, InHand
  <1>8. ASSUME ~mishap PROVE OneEach' /\ InOrder'
    <2>1. OneEach' BY <1>1, <1>6, <1>8 DEF AddressInv, OneEach
    <2>2. InOrder' BY <1>1, <1>6, <1>8 DEF AddressInv, AddressTypes, InOrder, InHand
    <2> QED BY <2>1, <2>2
  <1> QED BY <1>1, <1>7, <1>8 DEF AddressInv

(* one stage more; after the last one of SET_ADDRESS the device at address 0 takes the address *)
LEMMA StageKeeps ==
  ASSUME AddressInv, NEW b \in Bufs, NEW f, StageDone(b, f),
         UNCHANGED <<pc, step, port, cur, address, next_usb_address>>
  PROVE  AddressInv'
  <1>1. qh' = [qh EXCEPT ![b].done = @ + 1, ![b].flagged = @ \/ f] /\ qh[b].done # qh[b].n
    BY DEF StageDone, Finished
  <1>2. TransferOK(qh[b]) BY DEF AddressInv, AddressTypes
  <1> DEFINE r == [qh[b] EXCEPT !.done = @ + 1, !.flagged = @ \/ f]
  <1>3. DOMAIN qh' = Bufs /\ qh'[b] = r /\ \A c \in Bufs \ {b} : qh'[c] = qh[c]
    BY <1>1 DEF AddressInv, AddressTypes
  <1>4. r.n = qh[b].n /\ r.done = qh[b].done + 1 /\ r.value = qh[b].value /\ DOMAIN r = DOMAIN qh[b]
    BY <1>2 DEF TransferOK
  <1> HIDE DEF r
  <1>5. TransferOK(r)
    <2>1. r.done \in 0 .. r.n BY <1>1, <1>2, <1>4 DEF TransferOK
    <2> QED BY <1>2, <1>4, <2>1 DEF TransferOK
  <1>6. \A c \in Bufs : TransferOK(qh'[c]) /\ qh'[c].value = qh[c].value /\ (Pending(c)' => Pending(c))
    <2> SUFFICES ASSUME NEW c \in Bufs
                 PROVE  TransferOK(qh'[c]) /\ qh'[c].value = qh[c].value /\ (Pending(c)' => Pending(c))
      OBVIOUS
    <2>1. CASE c = b BY <1>2, <1>3, <1>4, <1>5, <2>1 DEF Pending, TransferOK
    <2>2. CASE c # b BY <1>3, <2>2 DEF Pending, AddressInv, AddressTypes
    <2> QED BY <2>1, <2>2
  <1>7. CASE UNCHANGED <<dev, mishap>>
    <2>1. AddressTypes' BY <1>3, <1>6, <1>7 DEF AddressInv, AddressTypes, InHand
    <2>2. ASSUME ~mishap PROVE OneEach' /\ InOrder'
      <3>1. OneEach' BY <1>6, <1>7, <2>2 DEF AddressInv, OneEach
      <3>2. InOrder' BY <1>6, <1>7, <2>2 DEF AddressInv, AddressTypes, InOrder, InHand
      <3> QED BY <3>1, <3>2
    <2> QED BY <1>7, <2>1, <2>2 DEF AddressInv
  <1>8. ASSUME qh[b].value # 0, qh[b].done + 1 = qh[b].n, NEW L \in (SUBSET Listeners(0)) \ {{}},
               Devices([p \in Ports |-> IF p \in L THEN [dev[p] EXCEPT !.addr = qh[b].value] ELSE dev[p]])
        PROVE  AddressInv'
    <2>1. /\ dev' = [p \in Ports |-> IF p \in L THEN [dev[p] EXCEPT !.addr = qh[b].value] ELSE dev[p]]
          /\ mishap' = (mishap \/ Mishap(dev'))
      BY <1>8 DEF Devices
    <2>2. \A p \in Ports : dev[p] \in Device BY DEF AddressInv, AddressTypes, Device
    <2>3. /\ dev' \in [Ports -> Device]
          /\ \A p \in L : p \in Ports /\ dev[p].on /\ dev[p].addr = 0 /\ dev'[p].on /\ dev'[p].addr = qh[b].value
          /\ \A p \in Ports \ L : dev'[p] = dev[p]
      <3>1. \A p \in Ports : dev'[p] \in Device BY <1>2, <2>1, <2>2 DEF Device, TransferOK
      <3> QED BY <1>8, <2>1, <2>2, <3>1 DEF Listeners, Device
    <2>4. AddressTypes' BY <1>3, <1>6, <2>1, <2>3 DEF AddressInv, AddressTypes, InHand, Device
    <2>5. ASSUME ~mishap' PROVE OneEach' /\ InOrder'
      <3>1. OneEach /\ InOrder /\ AddressTypes BY <2>1, <2>5 DEF AddressInv
      <3>2. PICK h \in L : L = {h}
        <4>1. \A p, q \in L : p = q BY <2>3, <3>1 DEF OneEach
        <4>2. PICK h : h \in L BY <1>8
        <4> QED BY <4>1, <4>2
      <3>3. Pending(b)
        <4>1. qh[b].done < qh[b].n BY <1>2, <1>8 DEF TransferOK
        <4> QED BY <1>8, <4>1 DEF Pending
      <3>4. ~Pending(b)'
        <4>1. qh'[b].done = qh'[b].n /\ qh'[b].n \in Nat BY <1>2, <1>3, <1>4, <1>8 DEF TransferOK
        <4> QED BY <4>1 DEF Pending
      <3>5. h \in Ports /\ dev'[h].addr = qh[b].value /\ dev[h].on /\ dev[h].addr = 0
            /\ \A p \in Ports \ {h} : dev'[p] = dev[p]
        BY <2>3, <3>2
      <3>6. OneEach' BY <1>6, <3>1, <3>3, <3>4, <3>5 DEF OneEach
      <3>7. step # "reset" => h = port BY <3>1, <3>5 DEF InOrder
      <3>8. InOrder' BY <1>2, <1>6, <1>8, <3>1, <3>5, <3>7 DEF InOrder, InHand, AddressTypes
      <3> QED BY <3>6, <3>8
    <2> QED BY <2>4, <2>5 DEF AddressInv
  <1> QED BY <1>7, <1>8 DEF StageDone

(* a device that is pulled out or plugged in answers to nothing until its port is reset *)
LEMMA ConnectKeeps ==
  ASSUME AddressInv, NEW p \in Ports, connect_change(p) PROVE AddressInv'
  <1>1. /\ dev' = [dev EXCEPT ![p] = [here |-> ~dev[p].here, on |-> FALSE, addr |-> 0]]
        /\ mishap' = (mishap \/ Mishap(dev'))
        /\ UNCHANGED <<qh, pc, step, port, cur, address, next_usb_address>>
    BY DEF connect_change, Devices, scan, addresses
  <1>2. /\ dev' \in [Ports -> Device] /\ dev'[p].on = FALSE
        /\ \A q \in Ports \ {p} : dev'[q] = dev[q]
    BY <1>1 DEF AddressInv, AddressTypes, Device
  <1>3. AddressTypes' BY <1>1, <1>2 DEF AddressInv, AddressTypes, InHand, Device
  <1>4. ASSUME ~mishap' PROVE OneEach' /\ InOrder'
    <2>1. OneEach /\ InOrder /\ AddressTypes /\ ~Mishap(dev') BY <1>1, <1>4 DEF AddressInv
    <2>2. OneEach' BY <1>1, <1>2, <2>1, FewerAddresses
    <2>3. InOrder' BY <1>1, <1>2, <2>1 DEF InOrder, InHand, Pending
    <2> QED BY <2>2, <2>3
  <1> QED BY <1>3, <1>4 DEF AddressInv

(* the property *)
LEMMA Distinct == AddressInv => AddressesDistinct
  BY DEF AddressInv, OneEach, AddressesDistinct
=============================================================================
