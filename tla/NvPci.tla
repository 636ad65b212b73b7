------------------------------- MODULE NvPci --------------------------------
(***************************************************************************)
(* Finding the GPU and reading its PCI configuration: nv_detect            *)
(* (nvcore_detect.c) over the hardware back end (linux_pci.c, upper half)  *)
(* or the virtual one (linux_pci.c, lower half, and virtual_pci.c), and    *)
(* the two BAR reads at the top of nv3_init (nv3_core.c).                  *)
(*                                                                         *)
(* A 32-bit configuration word is the tuple of its four bytes, lowest      *)
(* first.  A BAR base is the byte that the mask 0xFF000000 keeps, that is, *)
(* an address in units of 16 MB.                                           *)
(***************************************************************************)
EXTENDS Naturals, Sequences

CONSTANTS
  USE_VIRTUAL_PCI,   (* the build option of CMakeLists.txt                   *)
  Buses              (* device lists that libpci may report                  *)

ASSUME BuildOption == USE_VIRTUAL_PCI \in BOOLEAN

\* A device as libpci reports it: the numbers of struct pci_dev, a slot of 5 bits and a
\* function of 3, and the two configuration words that are read.
Word == [1 .. 4 -> 0 .. 255]
IsDevice(d) == /\ d.bus \in 0 .. 255 /\ d.dev \in 0 .. 31 /\ d.func \in 0 .. 7
               /\ d.bar0 \in Word /\ d.bar1 \in Word

ASSUME ReportedDevices ==
  \A list \in Buses : Len(list) \in Nat /\ \A k \in 1 .. Len(list) : IsDevice(list[k])

(***************************************************************************)
(* supported_devices, with its sentinel: an entry that matches no real     *)
(* device and whose zero vendor ends the loop of nv_detect.  "init" tells  *)
(* whether init_function is set: only the two NV3 entries have one.        *)
(***************************************************************************)
PCI_VENDOR_NV     == \h10DE
PCI_VENDOR_SGS    == \h104A
PCI_VENDOR_SGS_NV == \h12D2

Info(device, vendor, init) ==
  [device_id |-> device, vendor_id |-> vendor, init |-> init]

supported_devices == <<
  Info(\h0008, PCI_VENDOR_SGS, FALSE),     Info(\h0008, PCI_VENDOR_NV, FALSE),
  Info(\h0010, PCI_VENDOR_NV, FALSE),      Info(\h0018, PCI_VENDOR_SGS_NV, TRUE),
  Info(\h0019, PCI_VENDOR_SGS_NV, TRUE),   Info(\h0020, PCI_VENDOR_NV, FALSE),
  Info(\h0028, PCI_VENDOR_NV, FALSE),      Info(\h0029, PCI_VENDOR_NV, FALSE),
  Info(\h002C, PCI_VENDOR_NV, FALSE),      Info(\h002D, PCI_VENDOR_NV, FALSE),
  Info(\h0100, PCI_VENDOR_NV, FALSE),      Info(\h0101, PCI_VENDOR_NV, FALSE),
  Info(\h0103, PCI_VENDOR_NV, FALSE),      Info(0, 0, FALSE) >>

Entries  == 1 .. 14
Sentinel == 14
None     == 0          \* no entry, no position of the device list

VARIABLES
  devices,       (* pacc->devices: the list of libpci, in its order           *)
  probe,         (* nv_detect: i, the entry probed last, and its outcome      *)
  selected,      (* current_device: bus_number, function_number, device_info  *)
  registered,    (* virtual_device: the entry registered last                 *)
  bars           (* bar0_base and bar1_base of nv3_init                       *)

pcivars == <<devices, probe, selected, registered, bars>>

NoBars == <<>>

PciInit ==
  /\ devices \in Buses
  /\ probe = [i |-> 1, info |-> 1, outcome |-> "pending"]
  /\ selected = [bus_number |-> 0, function_number |-> 0, device_info |-> None]
  /\ registered = None
  /\ bars = NoBars

-----------------------------------------------------------------------------
(***************************************************************************)
(* The hardware back end.  function_number is dev | (func << 3), with dev  *)
(* in 0..31 and func in 0..7: bits 3 and 4 of dev share their place with   *)
(* bits 0 and 1 of func.                                                   *)
(***************************************************************************)
BitOr(a, b) == IF a = 1 \/ b = 1 THEN 1 ELSE 0

\* Fault: the two parts are added.
FunctionNumber_sum(d) == d.dev + 8 * d.func

FunctionNumber(d) ==
  (d.dev % 8) + (8 * BitOr((d.dev \div 8) % 2, d.func % 2))
              + (16 * BitOr((d.dev \div 16) % 2, (d.func \div 2) % 2))
              + (32 * (d.func \div 4))

\* The position of the first device of the list that satisfies Test, or None.
FirstDevice(Test(_)) ==
  LET hits == {k \in 1 .. Len(devices) : Test(devices[k])}
  IN IF hits = {} THEN None ELSE CHOOSE k \in hits : \A j \in hits : k <= j

\* Fault: only the vendor is compared.
FindById_vendor(info) == FirstDevice(LAMBDA d : d.vendor_id = info.vendor_id)

FindById(info) ==
  FirstDevice(LAMBDA d : /\ d.vendor_id = info.vendor_id
                         /\ d.device_id = info.device_id)

\* Fault: the bus is not compared.
FindByAddress_any_bus(bus, function) ==
  FirstDevice(LAMBDA d : FunctionNumber(d) = function)

\* The device that a configuration read at this bus and function reaches.
FindByAddress(bus, function) ==
  FirstDevice(LAMBDA d : d.bus = bus /\ FunctionNumber(d) = function)

-----------------------------------------------------------------------------
(***************************************************************************)
(* The virtual back end.  Its 256 bytes of configuration space are all     *)
(* zero until a device is registered and a function of that device after.  *)
(***************************************************************************)
VirtualBar0 == <<0, 0, 0, \hF0>>       \* 0xF0000000
VirtualBar1 == <<0, 0, 0, \hF8>>       \* 0xF8000000

virtual_pci_config == [o \in 0 .. 255 |->
  IF registered = None THEN 0
  ELSE LET info == supported_devices[registered]
       IN CASE o = 0 -> info.vendor_id % 256
            [] o = 1 -> info.vendor_id \div 256
            [] o = 2 -> info.device_id % 256
            [] o = 3 -> info.device_id \div 256
            [] o = 4 -> \h03
            [] o = 7 -> \h20
            [] o = 8 -> \h10
            [] o = 11 -> \h03
            [] o \in 16 .. 19 -> VirtualBar0[o - 15]
            [] o \in 20 .. 23 -> VirtualBar1[o - 19]
            [] OTHER -> 0]

\* The three read widths; out of range or unaligned they return all ones.
virtual_pci_read_config_8(o) ==
  IF o >= 256 THEN <<255>> ELSE <<virtual_pci_config[o]>>

virtual_pci_read_config_16(o) ==
  IF o % 2 # 0 \/ o >= 255 THEN <<255, 255>>
  ELSE <<virtual_pci_config[o], virtual_pci_config[o + 1]>>

\* Fault: the bound is off by one word.
virtual_pci_read_config_32_short(o) ==
  IF o % 4 # 0 \/ o >= 252 THEN <<255, 255, 255, 255>>
  ELSE [k \in 1 .. 4 |-> virtual_pci_config[o + k - 1]]

virtual_pci_read_config_32(o) ==
  IF o % 4 # 0 \/ o >= 253 THEN <<255, 255, 255, 255>>
  ELSE [k \in 1 .. 4 |-> virtual_pci_config[o + k - 1]]

-----------------------------------------------------------------------------
(***************************************************************************)
(* pci_does_device_exist.  The virtual one registers whatever it is asked  *)
(* for and says yes (pci_init has run: virtual_device is initialized).     *)
(***************************************************************************)
DeviceExists(entry) ==
  USE_VIRTUAL_PCI \/ FindById(supported_devices[entry]) # None

\* Fault: the entry is taken after i has moved on.
Select_next(entry) ==
  LET k == FindById(supported_devices[entry])
  IN selected' =
       [bus_number      |-> IF USE_VIRTUAL_PCI THEN 0 ELSE devices[k].bus,
        function_number |-> IF USE_VIRTUAL_PCI THEN 0 ELSE FunctionNumber(devices[k]),
        device_info     |-> entry + 1]

Select(entry) ==
  LET k == FindById(supported_devices[entry])
  IN selected' =
       [bus_number      |-> IF USE_VIRTUAL_PCI THEN 0 ELSE devices[k].bus,
        function_number |-> IF USE_VIRTUAL_PCI THEN 0 ELSE FunctionNumber(devices[k]),
        device_info     |-> entry]

\* One round of the loop of nv_detect.  The loop condition looks at the entry of
\* the round before, so the sentinel is probed too.
Probe ==
  /\ probe.outcome = "pending"
  /\ supported_devices[probe.info].vendor_id # 0
  /\ LET entry == probe.i
     IN /\ registered' = IF USE_VIRTUAL_PCI THEN entry ELSE registered
        /\ \/ /\ DeviceExists(entry)
              /\ Select(entry)
              /\ probe' = [probe EXCEPT !.info = entry, !.outcome = "found"]
           \/ /\ ~DeviceExists(entry)
              /\ probe' = [probe EXCEPT !.info = entry, !.i = @ + 1]
              /\ UNCHANGED selected
  /\ UNCHANGED <<devices, bars>>

\* The loop has probed the sentinel: no supported GPU.
NotFound ==
  /\ probe.outcome = "pending"
  /\ supported_devices[probe.info].vendor_id = 0
  /\ probe' = [probe EXCEPT !.outcome = "none"]
  /\ UNCHANGED <<devices, selected, registered, bars>>

pci_read_config_32(offset) ==
  LET k == FindByAddress(selected.bus_number, selected.function_number)
  IN IF USE_VIRTUAL_PCI THEN virtual_pci_read_config_32(offset)
     ELSE IF k = None THEN <<0, 0, 0, 0>>
     ELSE IF offset = 16 THEN devices[k].bar0 ELSE devices[k].bar1

BarBase(word) == word[4]

Supported == selected.device_info # None /\ supported_devices[selected.device_info].init

\* The first statements of nv3_init, which runs on a supported device only.
ReadBars ==
  /\ probe.outcome = "found"
  /\ Supported
  /\ bars = NoBars
  /\ bars' = <<BarBase(pci_read_config_32(16)), BarBase(pci_read_config_32(20))>>
  /\ UNCHANGED <<devices, probe, selected, registered>>

-----------------------------------------------------------------------------
PciStep == Probe \/ NotFound \/ ReadBars

\* Detection failed, the GPU has no init function, or the BARs have been read.
PciDone ==
  /\ \/ probe.outcome = "none"
     \/ probe.outcome = "found" /\ ~Supported
     \/ bars # NoBars
  /\ UNCHANGED pcivars

PciNext == PciStep \/ PciDone
PciSpec == PciInit /\ [][PciNext]_pcivars

\* nv_detect runs on the only thread of the process and never blocks.
PciFairSpec == PciSpec /\ WF_pcivars(PciStep)

-----------------------------------------------------------------------------
(***************************************************************************)
(* Properties.                                                             *)
(***************************************************************************)

\* The types of the loop state and of the selected device.
PciTypeOK ==
  /\ devices \in Buses
  /\ probe \in [i : Entries \cup {15}, info : Entries,
                outcome : {"pending", "found", "none"}]
  /\ selected \in [bus_number : 0 .. 255, function_number : 0 .. 63,
                   device_info : {None} \cup Entries]
  /\ registered \in {None} \cup Entries
  /\ bars = NoBars \/ bars \in (0 .. 255) \X (0 .. 255)

\* The list positions of the devices the table knows, entry by entry.
Known(entry) == {k \in 1 .. Len(devices) :
                   /\ devices[k].vendor_id = supported_devices[entry].vendor_id
                   /\ devices[k].device_id = supported_devices[entry].device_id}

\* On hardware nv_detect selects the earliest entry of the table that any device
\* on any bus has, and says "none" only when no device has one: no entry is
\* skipped, the last one included, and an early unsupported entry hides a later
\* supported one.
DetectsFirstEntry ==
  ~USE_VIRTUAL_PCI =>
    /\ probe.outcome = "found" =>
         /\ Known(selected.device_info) # {}
         /\ \A e \in Entries : e < selected.device_info => Known(e) = {}
    /\ probe.outcome = "none" => \A e \in Entries : Known(e) = {}

\* The device that nv_detect found, as a position of the list.
Found == IF selected.device_info = None THEN None
         ELSE FindById(supported_devices[selected.device_info])

Aliased(j, k) == /\ devices[j].bus = devices[k].bus
                 /\ FunctionNumber(devices[j]) = FunctionNumber(devices[k])

\* The BARs that nv3_init maps are those of the GPU that nv_detect found, unless
\* a device before it in the list has the same bus and function_number.  When
\* one has, they are that device's: the exact extent of the collision.
BarsOfFoundUnlessAliased ==
  ~USE_VIRTUAL_PCI /\ bars # NoBars =>
    LET owner == CHOOSE j \in 1 .. Found : /\ Aliased(j, Found)
                                           /\ \A i \in 1 .. j - 1 : ~Aliased(i, Found)
    IN bars = <<BarBase(devices[owner].bar0), BarBase(devices[owner].bar1)>>

\* The configuration space of the virtual device reads the same in every width,
\* up to the last byte, and answers all ones beyond it.
WidthsAgree ==
  \A o \in 0 .. 259 :
    /\ o % 4 = 0 => virtual_pci_read_config_32(o)
                      = virtual_pci_read_config_16(o) \o virtual_pci_read_config_16(o + 2)
    /\ o % 2 = 0 => virtual_pci_read_config_16(o)
                      = virtual_pci_read_config_8(o) \o virtual_pci_read_config_8(o + 1)

\* What is read back from a registered virtual device identifies the entry that
\* nv_detect selected, and its BARs are the two virtual apertures.
ConfigDescribesSelected ==
  USE_VIRTUAL_PCI /\ selected.device_info # None =>
    LET info == supported_devices[selected.device_info]
        id   == virtual_pci_read_config_32(0)
    IN /\ id[1] + 256 * id[2] = info.vendor_id
       /\ id[3] + 256 * id[4] = info.device_id
       /\ BarBase(virtual_pci_read_config_32(16)) = \hF0
       /\ BarBase(virtual_pci_read_config_32(20)) = \hF8

-----------------------------------------------------------------------------
(***************************************************************************)
(* What comments and messages of the source say, and the code does not do. *)
(***************************************************************************)

\* "The selected device after detection is done" (nvcore_detect.c:25) is in
\* current_device, and "Get BAR addresses from PCI config" (nv3_core.c:96) reads
\* that device's BARs.
BarsOfSelectedDevice ==
  ~USE_VIRTUAL_PCI /\ bars # NoBars =>
    bars = <<BarBase(devices[Found].bar0), BarBase(devices[Found].bar1)>>

\* "Virtual NV3 device initialized successfully" (virtual_pci.c:126): the virtual
\* device that is detected is one whose NV3 init function can run.
VirtualDeviceIsNv3 ==
  USE_VIRTUAL_PCI /\ probe.outcome = "found" => Supported

=============================================================================
