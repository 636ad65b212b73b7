------------------------------ MODULE MCNvplay ------------------------------
(***************************************************************************)
(* Whole runs of the program.  Cards: one with each crystal.  Buses: none  *)
(* with a GPU, one whose GPU has no init function, one with a RIVA 128 and *)
(* one where it comes after a TNT on another bus.                          *)
(***************************************************************************)
EXTENDS Nvplay

MCBootRegs   == {\h00030110}
MCPfbBoots   == {\h02}
MCStraps     == {\h03, \h43}
MCBiosClocks == {\h0EC40E}
MCPmcEnables == {\h01111101}
MCIntrEnables == {1}

Card(bus, vendor, device, base) ==
  [domain |-> 0, bus |-> bus, dev |-> 0, func |-> 0, vendor_id |-> vendor,
   device_id |-> device, bar0 |-> <<0, 0, 0, base>>, bar1 |-> <<8, 0, 0, base + 1>>]

Riva128 == Card(1, PCI_VENDOR_SGS_NV, \h0018, \hE0)
Tnt     == Card(2, PCI_VENDOR_NV, \h0020, \hE8)

MCBuses == {<<>>, <<Tnt>>, <<Riva128>>, <<Tnt, Riva128>>}

NoDevices == {<<>>}
=============================================================================
