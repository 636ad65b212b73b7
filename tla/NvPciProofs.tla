---------------------------- MODULE NvPciProofs -----------------------------
(***************************************************************************)
(* Proofs about the detection of the GPU and its configuration space, for  *)
(* both builds and any device lists that libpci may report.                *)
(*                                                                         *)
(* PciInv says what each round of nv_detect leaves behind: how far the     *)
(* loop has come and that nothing before was found (LoopOK, NoneBefore),   *)
(* where current_device comes from (SelectedOK) and where the BARs do      *)
(* (BarsOK).                                                               *)
(***************************************************************************)
EXTENDS NvPci, SequenceTheorems, WellFoundedInduction, TLAPS

\* The loop variable is one ahead of the entry probed last, except in the first round.
LoopOK ==
  /\ probe \in [i : Entries \cup {15}, info : Entries, outcome : {"pending", "found", "none"}]
  /\ probe.outcome = "pending" => (probe.i = 1 /\ probe.info = 1) \/ probe.i = probe.info + 1
  /\ probe.outcome = "found" => probe.i = probe.info
  /\ probe.outcome = "none" => probe.i = 15

NoneBefore == ~USE_VIRTUAL_PCI => \A e \in Entries : e < probe.i => Known(e) = {}

SelectedOK ==
  /\ registered \in {None} \cup Entries
  /\ selected \in [bus_number : 0 .. 255, function_number : 0 .. 63, device_info : {None} \cup Entries]
  /\ selected.device_info = IF probe.outcome = "found" THEN probe.info ELSE None
  /\ probe.outcome = "found" =>
       IF USE_VIRTUAL_PCI THEN registered = selected.device_info
       ELSE /\ Found \in Known(selected.device_info)
            /\ selected.bus_number = devices[Found].bus
            /\ selected.function_number = FunctionNumber(devices[Found])

BarsOK ==
  bars = NoBars \/ (/\ probe.outcome = "found"
                    /\ bars = <<BarBase(pci_read_config_32(16)), BarBase(pci_read_config_32(20))>>)

PciInv == devices \in Buses /\ LoopOK /\ NoneBefore /\ SelectedOK /\ BarsOK

-----------------------------------------------------------------------------
(***************************************************************************)
(* The operators of the model.                                             *)
(***************************************************************************)
\* A set of numbers that is not empty has a least one.
LEMMA LeastElement ==
  ASSUME NEW S, S \subseteq Nat, S # {}
  PROVE  \E k \in S : \A j \in S : k <= j
<1>1. PICK k \in S : \A j \in S : <<j, k>> \notin OpToRel(<, Nat)
  BY NatLessThanWellFounded, WFMin
<1>2. ASSUME NEW j \in S
      PROVE  k <= j
  <2>1. ~(j < k)
    BY <1>1, <1>2 DEF OpToRel
  <2>. QED  BY <2>1
<1>. QED  BY <1>2

\* The table: only the sentinel has vendor 0, and ends the loop.
LEMMA Table ==
  ASSUME NEW e \in Entries
  PROVE  /\ supported_devices[e].vendor_id \in Nat
         /\ supported_devices[e].device_id \in Nat
         /\ supported_devices[e].vendor_id = 0 <=> e = Sentinel
<1>1. supported_devices[1].device_id = \h0008 /\ supported_devices[1].vendor_id = PCI_VENDOR_SGS
  BY Zenon DEF supported_devices, Info
<1>2. supported_devices[2].device_id = \h0008 /\ supported_devices[2].vendor_id = PCI_VENDOR_NV
  BY Zenon DEF supported_devices, Info
<1>3. supported_devices[3].device_id = \h0010 /\ supported_devices[3].vendor_id = PCI_VENDOR_NV
  BY Zenon DEF supported_devices, Info
<1>4. supported_devices[4].device_id = \h0018 /\ supported_devices[4].vendor_id = PCI_VENDOR_SGS_NV
  BY Zenon DEF supported_devices, Info
<1>5. supported_devices[5].device_id = \h0019 /\ supported_devices[5].vendor_id = PCI_VENDOR_SGS_NV
  BY Zenon DEF supported_devices, Info
<1>6. supported_devices[6].device_id = \h0020 /\ supported_devices[6].vendor_id = PCI_VENDOR_NV
  BY Zenon DEF supported_devices, Info
<1>7. supported_devices[7].device_id = \h0028 /\ supported_devices[7].vendor_id = PCI_VENDOR_NV
  BY Zenon DEF supported_devices, Info
<1>8. supported_devices[8].device_id = \h0029 /\ supported_devices[8].vendor_id = PCI_VENDOR_NV
  BY Zenon DEF supported_devices, Info
<1>9. supported_devices[9].device_id = \h002C /\ supported_devices[9].vendor_id = PCI_VENDOR_NV
  BY Zenon DEF supported_devices, Info
<1>10. supported_devices[10].device_id = \h002D /\ supported_devices[10].vendor_id = PCI_VENDOR_NV
  BY Zenon DEF supported_devices, Info
<1>11. supported_devices[11].device_id = \h0100 /\ supported_devices[11].vendor_id = PCI_VENDOR_NV
  BY Zenon DEF supported_devices, Info
<1>12. supported_devices[12].device_id = \h0101 /\ supported_devices[12].vendor_id = PCI_VENDOR_NV
  BY Zenon DEF supported_devices, Info
<1>13. supported_devices[13].device_id = \h0103 /\ supported_devices[13].vendor_id = PCI_VENDOR_NV
  BY Zenon DEF supported_devices, Info
<1>14. supported_devices[14].device_id = \h0000 /\ supported_devices[14].vendor_id = 0
  BY Zenon DEF supported_devices, Info
<1>15. PCI_VENDOR_NV = 4318 /\ PCI_VENDOR_SGS = 4170 /\ PCI_VENDOR_SGS_NV = 4818 /\ Sentinel = 14
  BY DEF PCI_VENDOR_NV, PCI_VENDOR_SGS, PCI_VENDOR_SGS_NV, Sentinel
<1>16. e = 1 \/ e = 2 \/ e = 3 \/ e = 4 \/ e = 5 \/ e = 6 \/ e = 7 \/ e = 8 \/ e = 9 \/ e = 10
         \/ e = 11 \/ e = 12 \/ e = 13 \/ e = 14
  BY DEF Entries
<1>. QED
  BY <1>1, <1>2, <1>3, <1>4, <1>5, <1>6, <1>7, <1>8,
     <1>9, <1>10, <1>11, <1>12, <1>13, <1>14, <1>15, <1>16

\* The devices of a list, and what a configuration read can find there.
LEMMA DeviceFacts ==
  ASSUME devices \in Buses
  PROVE  /\ Len(devices) \in Nat
         /\ \A k \in 1 .. Len(devices) :
              /\ devices[k].bus \in 0 .. 255
              /\ FunctionNumber(devices[k]) \in 0 .. 63
              /\ BarBase(devices[k].bar0) \in 0 .. 255 /\ BarBase(devices[k].bar1) \in 0 .. 255
<1>1. Len(devices) \in Nat /\ \A k \in 1 .. Len(devices) : IsDevice(devices[k])
  BY ReportedDevices
<1>2. ASSUME NEW d, IsDevice(d)
      PROVE  /\ d.bus \in 0 .. 255 /\ FunctionNumber(d) \in 0 .. 63
             /\ BarBase(d.bar0) \in 0 .. 255 /\ BarBase(d.bar1) \in 0 .. 255
  <2>1. d.bus \in 0 .. 255 /\ d.dev \in 0 .. 31 /\ d.func \in 0 .. 7 /\ d.bar0 \in Word /\ d.bar1 \in Word
    BY <1>2 DEF IsDevice
  <2>2. \A a, b : BitOr(a, b) \in 0 .. 1
    BY DEF BitOr
  <2>3. /\ BitOr((d.dev \div 8) % 2, d.func % 2) \in 0 .. 1
        /\ BitOr((d.dev \div 16) % 2, (d.func \div 2) % 2) \in 0 .. 1
    BY <2>2
  <2>4. d.dev % 8 \in 0 .. 7 /\ d.func \div 4 \in 0 .. 1
    BY <2>1
  <2>5. FunctionNumber(d) \in 0 .. 63
    BY <2>3, <2>4 DEF FunctionNumber
  <2>6. BarBase(d.bar0) \in 0 .. 255 /\ BarBase(d.bar1) \in 0 .. 255
    BY <2>1 DEF Word, BarBase
  <2>. QED  BY <2>1, <2>5, <2>6
<1>. QED  BY <1>1, <1>2

\* pci_does_device_exist finds the first device with the entry's IDs.
LEMMA FindByIdFacts ==
  ASSUME devices \in Buses, NEW e \in Entries
  PROVE  LET k == FindById(supported_devices[e])
         IN /\ k = None <=> Known(e) = {}
            /\ k # None => k \in Known(e) /\ k \in 1 .. Len(devices)
<1>. DEFINE k == FindById(supported_devices[e])
<1>1. Known(e) \subseteq Nat \ {0} /\ Known(e) \subseteq 1 .. Len(devices)
  BY DeviceFacts DEF Known
<1>2. k = IF Known(e) = {} THEN None ELSE CHOOSE m \in Known(e) : \A j \in Known(e) : m <= j
  BY DEF FindById, FirstDevice, Known
<1>. HIDE DEF k
<1>3. CASE Known(e) = {}
  <2>1. k = None
    BY <1>2, <1>3
  <2>. QED  BY <1>3, <2>1 DEF k
<1>4. CASE Known(e) # {}
  <2>1. \E m \in Known(e) : \A j \in Known(e) : m <= j
    BY <1>1, <1>4, LeastElement
  <2>2. k \in Known(e)
    BY <1>2, <1>4, <2>1
  <2>. QED  BY <1>1, <1>4, <2>2 DEF k, None
<1>. QED  BY <1>3, <1>4

\* A configuration read reaches the first device at the bus and function.
LEMMA FindByAddressFacts ==
  ASSUME devices \in Buses, NEW bus, NEW function
  PROVE  LET k    == FindByAddress(bus, function)
             hits == {m \in 1 .. Len(devices) :
                        devices[m].bus = bus /\ FunctionNumber(devices[m]) = function}
         IN /\ k = None <=> hits = {}
            /\ k # None => k \in hits /\ \A j \in hits : k <= j
<1>. DEFINE k == FindByAddress(bus, function)
            hits == {m \in 1 .. Len(devices) :
                        devices[m].bus = bus /\ FunctionNumber(devices[m]) = function}
<1>1. hits \subseteq Nat \ {0}
  BY DeviceFacts
<1>2. k = IF hits = {} THEN None ELSE CHOOSE m \in hits : \A j \in hits : m <= j
  BY DEF FindByAddress, FirstDevice
<1>. HIDE DEF k, hits
<1>3. CASE hits = {}
  <2>1. k = None
    BY <1>2, <1>3
  <2>. QED  BY <1>3, <2>1 DEF k, hits
<1>4. CASE hits # {}
  <2>1. \E m \in hits : \A j \in hits : m <= j
    BY <1>1, <1>4, LeastElement
  <2>2. k \in hits /\ \A j \in hits : k <= j
    BY <1>2, <1>4, <2>1
  <2>3. k # None
    BY <1>1, <2>2 DEF None
  <2>. QED  BY <1>4, <2>2, <2>3 DEF k, hits
<1>. QED  BY <1>3, <1>4

\* The configuration space of a registered virtual device.
LEMMA VirtualBytes ==
  ASSUME registered \in Entries
  PROVE  /\ virtual_pci_config[0] = supported_devices[registered].vendor_id % 256
         /\ virtual_pci_config[1] = supported_devices[registered].vendor_id \div 256
         /\ virtual_pci_config[2] = supported_devices[registered].device_id % 256
         /\ virtual_pci_config[3] = supported_devices[registered].device_id \div 256
         /\ virtual_pci_config[19] = \hF0 /\ virtual_pci_config[23] = \hF8
<1>1. registered # None
  BY DEF Entries, None
<1>2. VirtualBar0[4] = \hF0 /\ VirtualBar1[4] = \hF8
  BY DEF VirtualBar0, VirtualBar1
<1>3. /\ virtual_pci_config[0] = supported_devices[registered].vendor_id % 256
      /\ virtual_pci_config[1] = supported_devices[registered].vendor_id \div 256
      /\ virtual_pci_config[2] = supported_devices[registered].device_id % 256
      /\ virtual_pci_config[3] = supported_devices[registered].device_id \div 256
  BY <1>1 DEF virtual_pci_config
<1>4. virtual_pci_config[19] = VirtualBar0[4] /\ virtual_pci_config[23] = VirtualBar1[4]
  BY <1>1 DEF virtual_pci_config
<1>. QED  BY <1>2, <1>3, <1>4

\* Before one is registered it is all zero.
LEMMA BlankBytes ==
  ASSUME registered = None
  PROVE  \A o \in 0 .. 255 : virtual_pci_config[o] = 0
BY DEF virtual_pci_config

\* A word of the virtual configuration space.
LEMMA VirtualWord ==
  ASSUME NEW o \in 0 .. 252, o % 4 = 0
  PROVE  /\ virtual_pci_read_config_32(o)[1] = virtual_pci_config[o]
         /\ virtual_pci_read_config_32(o)[2] = virtual_pci_config[o + 1]
         /\ virtual_pci_read_config_32(o)[3] = virtual_pci_config[o + 2]
         /\ virtual_pci_read_config_32(o)[4] = virtual_pci_config[o + 3]
<1>1. virtual_pci_read_config_32(o) = [k \in 1 .. 4 |-> virtual_pci_config[o + k - 1]]
  BY DEF virtual_pci_read_config_32
<1>2. o + 1 - 1 = o /\ o + 2 - 1 = o + 1 /\ o + 3 - 1 = o + 2 /\ o + 4 - 1 = o + 3
  OBVIOUS
<1>. QED  BY <1>1, <1>2

\* What the two reads of nv3_init return.
LEMMA BarReads ==
  LET k == FindByAddress(selected.bus_number, selected.function_number)
  IN /\ USE_VIRTUAL_PCI /\ registered \in Entries =>
          /\ BarBase(pci_read_config_32(16)) = \hF0
          /\ BarBase(pci_read_config_32(20)) = \hF8
     /\ USE_VIRTUAL_PCI /\ registered = None =>
          /\ BarBase(pci_read_config_32(16)) = 0
          /\ BarBase(pci_read_config_32(20)) = 0
     /\ ~USE_VIRTUAL_PCI /\ k # None =>
          /\ BarBase(pci_read_config_32(16)) = BarBase(devices[k].bar0)
          /\ BarBase(pci_read_config_32(20)) = BarBase(devices[k].bar1)
     /\ ~USE_VIRTUAL_PCI /\ k = None =>
          /\ BarBase(pci_read_config_32(16)) = 0
          /\ BarBase(pci_read_config_32(20)) = 0
<1>1. CASE USE_VIRTUAL_PCI
  <2>1. /\ BarBase(pci_read_config_32(16)) = virtual_pci_config[19]
        /\ BarBase(pci_read_config_32(20)) = virtual_pci_config[23]
    <3>1. /\ virtual_pci_read_config_32(16)[4] = virtual_pci_config[16 + 3]
          /\ virtual_pci_read_config_32(20)[4] = virtual_pci_config[20 + 3]
      BY VirtualWord
    <3>. QED  BY <1>1, <3>1 DEF BarBase, pci_read_config_32
  <2>. QED  BY <1>1, <2>1, VirtualBytes, BlankBytes
<1>2. CASE ~USE_VIRTUAL_PCI
  BY <1>2 DEF BarBase, pci_read_config_32
<1>. QED  BY <1>1, <1>2

\* They only depend on the lists and on what detection has selected.
LEMMA SameReads ==
  ASSUME UNCHANGED <<devices, selected, registered>>
  PROVE  /\ BarBase(pci_read_config_32(16))' = BarBase(pci_read_config_32(16))
         /\ BarBase(pci_read_config_32(20))' = BarBase(pci_read_config_32(20))
         /\ Found' = Found
         /\ \A e \in Entries : Known(e)' = Known(e)
<1>1. virtual_pci_config' = virtual_pci_config
  BY DEF virtual_pci_config
<1>2. \A b, f : FindByAddress(b, f)' = FindByAddress(b, f)
  BY DEF FindByAddress, FirstDevice
<1>3. /\ virtual_pci_read_config_32(16)' = virtual_pci_read_config_32(16)
      /\ virtual_pci_read_config_32(20)' = virtual_pci_read_config_32(20)
  BY <1>1 DEF virtual_pci_read_config_32
<1>4. /\ BarBase(pci_read_config_32(16))' = BarBase(pci_read_config_32(16))
      /\ BarBase(pci_read_config_32(20))' = BarBase(pci_read_config_32(20))
  BY <1>2, <1>3 DEF BarBase, pci_read_config_32
<1>5. Found' = Found
  BY DEF Found, FindById, FirstDevice
<1>6. \A e \in Entries : Known(e)' = Known(e)
  BY DEF Known
<1>. QED  BY <1>4, <1>5, <1>6

-----------------------------------------------------------------------------
(***************************************************************************)
(* The invariant.                                                          *)
(***************************************************************************)
\* Before the first round.
LEMMA DetectStarts == PciInit => PciInv
<1>. SUFFICES ASSUME PciInit
              PROVE  PciInv
  OBVIOUS
<1>1. /\ devices \in Buses /\ probe = [i |-> 1, info |-> 1, outcome |-> "pending"]
      /\ selected = [bus_number |-> 0, function_number |-> 0, device_info |-> None]
      /\ registered = None /\ bars = NoBars
  BY DEF PciInit
<1>2. LoopOK
  BY <1>1 DEF LoopOK, Entries
<1>3. NoneBefore
  BY <1>1 DEF NoneBefore, Entries
<1>4. SelectedOK
  BY <1>1 DEF SelectedOK, None
<1>. QED  BY <1>1, <1>2, <1>3, <1>4 DEF PciInv, BarsOK

\* One round of the loop.
LEMMA ProbeKeeps == PciInv /\ Probe => PciInv'
<1>. SUFFICES ASSUME PciInv, Probe
              PROVE  PciInv'
  OBVIOUS
<1>1. probe.i \in Entries
  <2>1. /\ probe.outcome = "pending" /\ supported_devices[probe.info].vendor_id # 0
        /\ probe.info \in Entries
    BY DEF Probe, PciInv, LoopOK
  <2>2. probe.info # 14
    BY <2>1, Table DEF Sentinel
  <2>3. (probe.i = 1 /\ probe.info = 1) \/ probe.i = probe.info + 1
    BY <2>1 DEF PciInv, LoopOK
  <2>. QED  BY <2>1, <2>2, <2>3 DEF Entries
<1>2. PICK entry \in Entries : entry = probe.i
  BY <1>1
<1>3. /\ probe.outcome = "pending"
      /\ registered' = IF USE_VIRTUAL_PCI THEN entry ELSE registered
      /\ devices' = devices /\ bars' = bars
      /\ \/ /\ DeviceExists(entry)
            /\ Select(entry)
            /\ probe' = [probe EXCEPT !.info = entry, !.outcome = "found"]
         \/ /\ ~DeviceExists(entry)
            /\ probe' = [probe EXCEPT !.info = entry, !.i = @ + 1]
            /\ selected' = selected
      /\ probe \in [i : Entries \cup {15}, info : Entries, outcome : {"pending", "found", "none"}]
  BY <1>2 DEF Probe, PciInv, LoopOK
<1>4. devices \in Buses /\ bars = NoBars
  BY <1>3 DEF PciInv, BarsOK
<1>5. selected.device_info = None /\ registered \in {None} \cup Entries
      /\ selected \in [bus_number : 0 .. 255, function_number : 0 .. 63, device_info : {None} \cup Entries]
  BY <1>3 DEF PciInv, SelectedOK
<1>6. ~USE_VIRTUAL_PCI => \A e \in Entries : e < entry => Known(e) = {}
  BY <1>2 DEF PciInv, NoneBefore
<1>7. \A e \in Entries : Known(e)' = Known(e)
  BY <1>3 DEF Known
<1>8. CASE /\ DeviceExists(entry) /\ Select(entry)
           /\ probe' = [probe EXCEPT !.info = entry, !.outcome = "found"]
  <2>1. /\ probe'.i = entry /\ probe'.info = entry /\ probe'.outcome = "found"
        /\ probe' \in [i : Entries \cup {15}, info : Entries, outcome : {"pending", "found", "none"}]
    BY <1>2, <1>3, <1>8
  <2>2. LoopOK'
    BY <2>1 DEF LoopOK
  <2>3. NoneBefore'
    BY <1>6, <1>7, <2>1 DEF NoneBefore
  <2>. DEFINE k == FindById(supported_devices[entry])
  <2>4. ~USE_VIRTUAL_PCI => k \in Known(entry) /\ k \in 1 .. Len(devices)
    <3>1. k # None => k \in Known(entry) /\ k \in 1 .. Len(devices)
      BY <1>3, <1>4, FindByIdFacts
    <3>2. ~USE_VIRTUAL_PCI => k # None
      BY <1>8 DEF DeviceExists
    <3>. QED  BY <3>1, <3>2
  <2>5. selected' = [bus_number      |-> IF USE_VIRTUAL_PCI THEN 0 ELSE devices[k].bus,
                     function_number |-> IF USE_VIRTUAL_PCI THEN 0 ELSE FunctionNumber(devices[k]),
                     device_info     |-> entry]
    BY <1>8 DEF Select
  <2>6. FindById(supported_devices[entry])' = k
    BY <1>3 DEF FindById, FirstDevice
  <2>. HIDE DEF k
  <2>7. selected'.device_info = entry
    BY <2>5
  <2>8. Found' = k
    <3>1. Found' = FindById(supported_devices[entry])'
      BY <2>7 DEF Found, FindById, FirstDevice, Entries, None
    <3>. QED  BY <2>6, <3>1
  <2>9. CASE USE_VIRTUAL_PCI
    <3>1. registered' = entry /\ selected' = [bus_number |-> 0, function_number |-> 0, device_info |-> entry]
      BY <1>3, <2>5, <2>9
    <3>2. SelectedOK'
      BY <1>3, <2>1, <2>9, <3>1 DEF SelectedOK
    <3>. QED  BY <1>3, <1>4, <2>2, <2>3, <3>2 DEF PciInv, BarsOK
  <2>10. CASE ~USE_VIRTUAL_PCI
    <3>1. /\ registered' = registered /\ selected'.bus_number = devices[k].bus
          /\ selected'.function_number = FunctionNumber(devices[k])
      BY <1>3, <2>5, <2>10
    <3>2. devices[k].bus \in 0 .. 255 /\ FunctionNumber(devices[k]) \in 0 .. 63
      BY <1>4, <2>4, <2>10, DeviceFacts
    <3>3. selected' \in [bus_number : 0 .. 255, function_number : 0 .. 63, device_info : {None} \cup Entries]
      BY <1>3, <2>5, <2>10, <3>2
    <3>4. Known(selected.device_info)' = Known(entry)
      BY <1>3, <2>7 DEF Known
    <3>5. devices'[Found'] = devices[k]
      BY <1>3, <2>8
    <3>6. SelectedOK'
      BY <1>5, <2>1, <2>4, <2>7, <2>8, <2>10, <3>1, <3>3, <3>4, <3>5 DEF SelectedOK
    <3>. QED  BY <1>3, <1>4, <2>2, <2>3, <3>6 DEF PciInv, BarsOK
  <2>. QED  BY <2>9, <2>10
<1>9. CASE /\ ~DeviceExists(entry)
           /\ probe' = [probe EXCEPT !.info = entry, !.i = @ + 1]
           /\ selected' = selected
  <2>1. ~USE_VIRTUAL_PCI /\ FindById(supported_devices[entry]) = None
    BY <1>9 DEF DeviceExists
  <2>2. Known(entry) = {}
    BY <1>3, <1>4, <2>1, FindByIdFacts
  <2>3. entry + 1 \in Entries \cup {15}
    BY <1>3 DEF Entries
  <2>4. /\ probe'.i = entry + 1 /\ probe'.info = entry /\ probe'.outcome = "pending"
        /\ probe' \in [i : Entries \cup {15}, info : Entries, outcome : {"pending", "found", "none"}]
    BY <1>2, <1>3, <1>9, <2>3
  <2>5. LoopOK'
    BY <2>4 DEF LoopOK
  <2>6. NoneBefore'
    <3>1. \A e \in Entries : e < entry + 1 => e < entry \/ e = entry
      BY <1>3 DEF Entries
    <3>. QED  BY <1>6, <1>7, <2>1, <2>2, <2>4, <3>1 DEF NoneBefore
  <2>7. SelectedOK'
    BY <1>3, <1>5, <1>9, <2>1, <2>4 DEF SelectedOK
  <2>. QED  BY <1>3, <1>4, <2>5, <2>6, <2>7 DEF PciInv, BarsOK
<1>. QED  BY <1>3, <1>8, <1>9

\* The loop has come to its end.
LEMMA NotFoundKeeps == PciInv /\ NotFound => PciInv'
<1>. SUFFICES ASSUME PciInv, NotFound
              PROVE  PciInv'
  OBVIOUS
<1>1. /\ probe.outcome = "pending" /\ supported_devices[probe.info].vendor_id = 0
      /\ probe' = [probe EXCEPT !.outcome = "none"]
      /\ UNCHANGED <<devices, selected, registered, bars>>
  BY DEF NotFound
<1>2. probe \in [i : Entries \cup {15}, info : Entries, outcome : {"pending", "found", "none"}]
  BY DEF PciInv, LoopOK
<1>3. probe.i = 15
  <2>1. probe.info = 14
    BY <1>1, <1>2, Table DEF Sentinel
  <2>. QED  BY <1>1, <2>1 DEF PciInv, LoopOK
<1>4. /\ probe'.i = 15 /\ probe'.outcome = "none"
      /\ probe' \in [i : Entries \cup {15}, info : Entries, outcome : {"pending", "found", "none"}]
  BY <1>1, <1>2, <1>3
<1>5. LoopOK'
  BY <1>4 DEF LoopOK
<1>6. NoneBefore'
  BY <1>1, <1>3, <1>4, SameReads DEF PciInv, NoneBefore
<1>7. SelectedOK'
  BY <1>1, <1>4 DEF PciInv, SelectedOK
<1>8. bars = NoBars
  BY <1>1 DEF PciInv, BarsOK
<1>. QED  BY <1>1, <1>5, <1>6, <1>7, <1>8 DEF PciInv, BarsOK

\* Detection is over: nothing moves what it found.
LEMMA SelectionStays ==
  ASSUME PciInv, UNCHANGED <<devices, probe, selected, registered>>
  PROVE  devices' \in Buses /\ LoopOK' /\ NoneBefore' /\ SelectedOK'
<1>1. LoopOK'
  BY DEF PciInv, LoopOK
<1>2. NoneBefore'
  BY SameReads DEF PciInv, NoneBefore
<1>3. SelectedOK'
  <2>1. Found' = Found
    BY SameReads
  <2>2. Known(selected.device_info)' = Known(selected.device_info)
    BY DEF Known
  <2>3. FunctionNumber(devices[Found])' = FunctionNumber(devices[Found])
    BY <2>1 DEF FunctionNumber
  <2>. QED  BY <2>1, <2>2, <2>3 DEF PciInv, SelectedOK
<1>. QED  BY <1>1, <1>2, <1>3 DEF PciInv

\* One step.
LEMMA PciStepKeeps == PciInv /\ [PciNext]_pcivars => PciInv'
<1>. SUFFICES ASSUME PciInv, [PciNext]_pcivars
              PROVE  PciInv'
  OBVIOUS
<1>1. CASE Probe
  BY <1>1, ProbeKeeps
<1>2. CASE NotFound
  BY <1>2, NotFoundKeeps
<1>3. CASE ReadBars
  <2>1. /\ probe.outcome = "found" /\ UNCHANGED <<devices, probe, selected, registered>>
        /\ bars' = <<BarBase(pci_read_config_32(16)), BarBase(pci_read_config_32(20))>>
    BY <1>3 DEF ReadBars
  <2>2. BarsOK'
    BY <2>1, SameReads DEF BarsOK
  <2>. QED  BY <2>1, <2>2, SelectionStays DEF PciInv
<1>4. CASE PciDone \/ UNCHANGED pcivars
  <2>1. UNCHANGED <<devices, probe, selected, registered, bars>>
    BY <1>4 DEF PciDone, pcivars
  <2>2. BarsOK'
    BY <2>1, SameReads DEF PciInv, BarsOK
  <2>. QED  BY <2>1, <2>2, SelectionStays DEF PciInv
<1>. QED  BY <1>1, <1>2, <1>3, <1>4 DEF PciNext, PciStep

\* What each round of nv_detect leaves behind.
THEOREM PciInvariant == PciSpec => []PciInv
<1>. QED  BY DetectStarts, PciStepKeeps, PTL DEF PciSpec

-----------------------------------------------------------------------------
(***************************************************************************)
(* What follows from it.                                                   *)
(***************************************************************************)
\* The types of the loop state, of the selected device and of the BARs.
THEOREM PciTypes == PciSpec => []PciTypeOK
<1>1. ASSUME PciInv
      PROVE  PciTypeOK
  <2>1. devices \in Buses /\ LoopOK /\ SelectedOK /\ BarsOK
    BY <1>1 DEF PciInv
  <2>2. registered \in {None} \cup Entries
    BY <2>1 DEF SelectedOK
  <2>3. /\ BarBase(pci_read_config_32(16)) \in 0 .. 255
        /\ BarBase(pci_read_config_32(20)) \in 0 .. 255
    <3>1. CASE USE_VIRTUAL_PCI
      BY <2>2, <3>1, BarReads
    <3>2. CASE ~USE_VIRTUAL_PCI
      <4>. DEFINE k == FindByAddress(selected.bus_number, selected.function_number)
      <4>1. k # None => k \in 1 .. Len(devices)
        BY <2>1, FindByAddressFacts
      <4>2. k # None => /\ BarBase(pci_read_config_32(16)) = BarBase(devices[k].bar0)
                        /\ BarBase(pci_read_config_32(20)) = BarBase(devices[k].bar1)
        BY <3>2, BarReads
      <4>3. k = None => BarBase(pci_read_config_32(16)) = 0 /\ BarBase(pci_read_config_32(20)) = 0
        BY <3>2, BarReads
      <4>. HIDE DEF k
      <4>4. k # None => BarBase(devices[k].bar0) \in 0 .. 255 /\ BarBase(devices[k].bar1) \in 0 .. 255
        BY <2>1, <4>1, DeviceFacts
      <4>. QED  BY <4>2, <4>3, <4>4
    <3>. QED  BY <3>1, <3>2
  <2>4. bars = NoBars \/ bars \in (0 .. 255) \X (0 .. 255)
    BY <2>1, <2>3 DEF BarsOK
  <2>. QED  BY <2>1, <2>2, <2>4 DEF PciTypeOK, LoopOK, SelectedOK
<1>. QED  BY <1>1, PciInvariant, PTL

\* On hardware nv_detect selects the earliest entry of its table that a device has, and says
\* "none" only when no device has one.
THEOREM EarliestEntryDetected == PciSpec => []DetectsFirstEntry
<1>1. ASSUME PciInv, ~USE_VIRTUAL_PCI, probe.outcome = "found"
      PROVE  /\ Known(selected.device_info) # {}
             /\ \A e \in Entries : e < selected.device_info => Known(e) = {}
  <2>1. Found \in Known(selected.device_info) /\ selected.device_info = probe.i
    BY <1>1 DEF PciInv, SelectedOK, LoopOK
  <2>. QED  BY <1>1, <2>1 DEF PciInv, NoneBefore
<1>2. ASSUME PciInv, ~USE_VIRTUAL_PCI, probe.outcome = "none", NEW e \in Entries
      PROVE  Known(e) = {}
  <2>1. e < probe.i
    BY <1>2 DEF PciInv, LoopOK, Entries
  <2>. QED  BY <1>2, <2>1 DEF PciInv, NoneBefore
<1>3. PciInv => DetectsFirstEntry
  BY <1>1, <1>2 DEF DetectsFirstEntry
<1>. QED  BY <1>3, PciInvariant, PTL

\* The BARs that nv3_init maps are those of the first device of the list that shares bus and
\* function_number with the GPU that was found: the GPU's own unless one before it does.
THEOREM BarsExplained == PciSpec => []BarsOfFoundUnlessAliased
<1>1. ASSUME PciInv, ~USE_VIRTUAL_PCI, bars # NoBars
      PROVE  LET owner == CHOOSE j \in 1 .. Found : /\ Aliased(j, Found)
                                                    /\ \A i \in 1 .. j - 1 : ~Aliased(i, Found)
             IN bars = <<BarBase(devices[owner].bar0), BarBase(devices[owner].bar1)>>
  <2>. DEFINE first == FindByAddress(selected.bus_number, selected.function_number)
              Owns(j) == Aliased(j, Found) /\ \A i \in 1 .. j - 1 : ~Aliased(i, Found)
  <2>1. probe.outcome = "found" /\ devices \in Buses
    BY <1>1 DEF PciInv, BarsOK
  <2>2. /\ Found \in Known(selected.device_info)
        /\ selected.bus_number = devices[Found].bus
        /\ selected.function_number = FunctionNumber(devices[Found])
    BY <1>1, <2>1 DEF PciInv, SelectedOK
  <2>3. Len(devices) \in Nat /\ Found \in 1 .. Len(devices)
    BY <2>1, <2>2, DeviceFacts DEF Known
  <2>4. \A j \in 1 .. Len(devices) :
          Aliased(j, Found) <=> /\ devices[j].bus = selected.bus_number
                                /\ FunctionNumber(devices[j]) = selected.function_number
    BY <2>2 DEF Aliased
  <2>5. /\ first # None /\ first \in 1 .. Len(devices) /\ Aliased(first, Found)
        /\ \A j \in 1 .. Len(devices) : Aliased(j, Found) => first <= j
    <3>. DEFINE hits == {m \in 1 .. Len(devices) :
                           /\ devices[m].bus = selected.bus_number
                           /\ FunctionNumber(devices[m]) = selected.function_number}
    <3>1. /\ first = None <=> hits = {}
          /\ first # None => first \in hits /\ \A j \in hits : first <= j
      BY <2>1, FindByAddressFacts
    <3>2. Found \in hits
      BY <2>2, <2>3
    <3>. HIDE DEF first
    <3>. QED  BY <2>4, <3>1, <3>2
  <2>. HIDE DEF first
  <2>6. first \in 1 .. Found /\ Owns(first)
    BY <2>3, <2>4, <2>5 DEF Aliased
  <2>7. \A j \in 1 .. Found : Owns(j) => j = first
    BY <2>3, <2>5
  <2>8. (CHOOSE j \in 1 .. Found : Owns(j)) = first
    <3>. HIDE DEF Owns
    <3>. QED  BY <2>6, <2>7
  <2>9. bars = <<BarBase(devices[first].bar0), BarBase(devices[first].bar1)>>
    BY <1>1, <2>5, BarReads DEF PciInv, BarsOK, first
  <2>. QED  BY <2>8, <2>9
<1>2. PciInv => BarsOfFoundUnlessAliased
  BY <1>1 DEF BarsOfFoundUnlessAliased
<1>. QED  BY <1>2, PciInvariant, PTL

\* Two half words make a word.
LEMMA FourBytes ==
  ASSUME NEW a, NEW b, NEW c, NEW d
  PROVE  <<a, b>> \o <<c, d>> = <<a, b, c, d>>
<1>. DEFINE S == {a, b, c, d}
            s == <<a, b>>
            t == <<c, d>>
            word == <<a, b, c, d>>
<1>1. s \in Seq(S) /\ Len(s) = 2 /\ s[1] = a /\ s[2] = b
  OBVIOUS
<1>2. t \in Seq(S) /\ Len(t) = 2 /\ t[1] = c /\ t[2] = d
  OBVIOUS
<1>3. word \in Seq(S) /\ Len(word) = 4 /\ word[1] = a /\ word[2] = b /\ word[3] = c /\ word[4] = d
  OBVIOUS
<1>. HIDE DEF s, t, word, S
<1>4. /\ s \o t \in Seq(S) /\ Len(s \o t) = 4
      /\ (s \o t)[1] = a /\ (s \o t)[2] = b /\ (s \o t)[3] = c /\ (s \o t)[4] = d
  <2>1. /\ s \o t \in Seq(S) /\ Len(s \o t) = Len(s) + Len(t)
        /\ \A i \in 1 .. Len(s) + Len(t) : (s \o t)[i] = IF i <= Len(s) THEN s[i] ELSE t[i - Len(s)]
    BY <1>1, <1>2, ConcatProperties
  <2>. QED  BY <1>1, <1>2, <2>1
<1>5. \A i \in 1 .. 4 : (s \o t)[i] = word[i]
  BY <1>3, <1>4
<1>6. s \o t = word
  BY <1>3, <1>4, <1>5, SeqEqual
<1>. QED  BY <1>6 DEF s, t, word

\* The virtual configuration space reads the same in every width, and answers all ones beyond
\* its last byte.
THEOREM WidthsOfConfigAgree == PciSpec => []WidthsAgree
<1>1. ASSUME NEW o \in 0 .. 259, o % 4 = 0
      PROVE  virtual_pci_read_config_32(o)
               = virtual_pci_read_config_16(o) \o virtual_pci_read_config_16(o + 2)
  <2>1. CASE o <= 252
    <3>1. o % 2 = 0 /\ (o + 2) % 2 = 0 /\ o < 253 /\ o + 2 < 255
      BY <1>1, <2>1
    <3>2. /\ virtual_pci_read_config_16(o) = <<virtual_pci_config[o], virtual_pci_config[o + 1]>>
          /\ virtual_pci_read_config_16(o + 2) = <<virtual_pci_config[o + 2], virtual_pci_config[o + 3]>>
      BY <3>1 DEF virtual_pci_read_config_16
    <3>3. virtual_pci_read_config_32(o) = [k \in 1 .. 4 |-> virtual_pci_config[o + k - 1]]
      BY <1>1, <2>1 DEF virtual_pci_read_config_32
    <3>4. [k \in 1 .. 4 |-> virtual_pci_config[o + k - 1]]
            = <<virtual_pci_config[o], virtual_pci_config[o + 1],
                virtual_pci_config[o + 2], virtual_pci_config[o + 3]>>
      OBVIOUS
    <3>5. <<virtual_pci_config[o], virtual_pci_config[o + 1]>>
              \o <<virtual_pci_config[o + 2], virtual_pci_config[o + 3]>>
            = <<virtual_pci_config[o], virtual_pci_config[o + 1],
                virtual_pci_config[o + 2], virtual_pci_config[o + 3]>>
      BY FourBytes, Zenon
    <3>. QED  BY <3>2, <3>3, <3>4, <3>5
  <2>2. CASE o > 252
    <3>1. o = 256
      BY <1>1, <2>2
    <3>2. /\ virtual_pci_read_config_16(o) = <<255, 255>>
          /\ virtual_pci_read_config_16(o + 2) = <<255, 255>>
          /\ virtual_pci_read_config_32(o) = <<255, 255, 255, 255>>
      BY <3>1 DEF virtual_pci_read_config_16, virtual_pci_read_config_32
    <3>3. <<255, 255>> \o <<255, 255>> = <<255, 255, 255, 255>>
      <4>1. \A b : <<b, b>> \o <<b, b>> = <<b, b, b, b>>
        BY FourBytes, Zenon
      <4>. QED  BY <4>1, Zenon
    <3>. QED  BY <3>2, <3>3
  <2>. QED  BY <2>1, <2>2
<1>2. ASSUME NEW o \in 0 .. 259, o % 2 = 0
      PROVE  virtual_pci_read_config_16(o)
               = virtual_pci_read_config_8(o) \o virtual_pci_read_config_8(o + 1)
  <2>1. CASE o <= 254
    BY <1>2, <2>1 DEF virtual_pci_read_config_16, virtual_pci_read_config_8
  <2>2. CASE o > 254
    <3>1. o >= 256
      BY <1>2, <2>2
    <3>. QED  BY <3>1 DEF virtual_pci_read_config_16, virtual_pci_read_config_8
  <2>. QED  BY <2>1, <2>2
<1>3. WidthsAgree
  BY <1>1, <1>2 DEF WidthsAgree
<1>. QED  BY <1>3, PTL

\* What is read back from the virtual device is the entry that nv_detect selected, with the two
\* virtual apertures.
THEOREM ConfigIsOfSelected == PciSpec => []ConfigDescribesSelected
<1>1. ASSUME PciInv, USE_VIRTUAL_PCI, selected.device_info # None
      PROVE  LET info == supported_devices[selected.device_info]
                 id   == virtual_pci_read_config_32(0)
             IN /\ id[1] + 256 * id[2] = info.vendor_id
                /\ id[3] + 256 * id[4] = info.device_id
                /\ BarBase(virtual_pci_read_config_32(16)) = \hF0
                /\ BarBase(virtual_pci_read_config_32(20)) = \hF8
  <2>1. registered = selected.device_info /\ registered \in Entries
    BY <1>1 DEF PciInv, SelectedOK
  <2>. DEFINE v == supported_devices[registered].vendor_id
              d == supported_devices[registered].device_id
  <2>2. v \in Nat /\ d \in Nat
    BY <2>1, Table
  <2>3. \A n \in Nat : (n % 256) + 256 * (n \div 256) = n
    OBVIOUS
  <2>4. /\ virtual_pci_read_config_32(0)[1] = v % 256 /\ virtual_pci_read_config_32(0)[2] = v \div 256
        /\ virtual_pci_read_config_32(0)[3] = d % 256 /\ virtual_pci_read_config_32(0)[4] = d \div 256
    BY <2>1, VirtualWord, VirtualBytes
  <2>5. /\ BarBase(virtual_pci_read_config_32(16)) = \hF0
        /\ BarBase(virtual_pci_read_config_32(20)) = \hF8
    BY <1>1, <2>1, BarReads DEF pci_read_config_32
  <2>. QED  BY <2>1, <2>2, <2>3, <2>4, <2>5
<1>2. PciInv => ConfigDescribesSelected
  BY <1>1 DEF ConfigDescribesSelected
<1>. QED  BY <1>2, PciInvariant, PTL
=============================================================================
