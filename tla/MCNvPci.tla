------------------------------ MODULE MCNvPci -------------------------------
(***************************************************************************)
(* Device lists for the detection loop: every sequence of up to three      *)
(* different devices out of nine.  The pool has the two devices with an    *)
(* init function, supported ones without (the first and the last of the    *)
(* table), a foreign one, and addresses that collide: slot 8 function 0    *)
(* with slot 0 and slot 8 function 1, and one bus number in two domains.   *)
(***************************************************************************)
EXTENDS NvPci

Dev(domain, bus, dev, func, vendor, device, base) ==
  [domain |-> domain, bus |-> bus, dev |-> dev, func |-> func,
   vendor_id |-> vendor, device_id |-> device,
   bar0 |-> <<0, 0, 0, base>>, bar1 |-> <<8, 0, 0, base + 1>>]

Pool == {
  Dev(0, 1, 8, 0, PCI_VENDOR_SGS_NV, \h0018, \h10),  \* RIVA 128
  Dev(0, 1, 0, 1, \h8086, \h7113, \h20),             \* a foreign function
  Dev(0, 1, 8, 1, \h8086, \h7112, \h30),
  Dev(1, 1, 8, 0, \h8086, \h7111, \h40),             \* another domain
  Dev(0, 2, 8, 0, PCI_VENDOR_SGS_NV, \h0019, \h50),  \* RIVA 128 ZX, another bus
  Dev(0, 1, 3, 0, PCI_VENDOR_NV, \h0020, \h60),      \* RIVA TNT: no init function
  Dev(0, 0, 31, 7, PCI_VENDOR_NV, \h0103, \h70),     \* Quadro, the last entry
  Dev(0, 0, 16, 2, PCI_VENDOR_SGS, \h0008, \h80),    \* NV1, the first entry
  Dev(0, 0, 16, 0, PCI_VENDOR_SGS_NV, \h0018, \h90)  \* a second RIVA 128
}

Distinct(s) == \A j, k \in DOMAIN s : j # k => s[j] # s[k]

MCBuses == {<<>>} \cup {s \in UNION {[1 .. n -> Pool] : n \in 1 .. 3} : Distinct(s)}

\* The virtual back end ignores libpci.
NoDevices == {<<>>}
=============================================================================
