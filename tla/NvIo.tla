-------------------------------- MODULE NvIo --------------------------------
(***************************************************************************)
(* The register space of the driver: nv_mmio_read32 and nv_mmio_write32    *)
(* over the three mappings of nvcore_io.c (hardware), or over the one      *)
(* array of virtual_pci.c.                                                 *)
(*                                                                         *)
(* A physical address is a pair: a 16 MB unit (what nv3_init keeps of a    *)
(* BAR) and an offset.  The card is passive here: its words change only by *)
(* the program's writes.                                                   *)
(***************************************************************************)
EXTENDS Naturals

CONSTANTS
  USE_VIRTUAL_PCI,   (* the build option of CMakeLists.txt                   *)
  Bar0, Bar1,        (* bar0_base and bar1_base, in units of 16 MB           *)
  Addresses,         (* the addresses the driver uses                        *)
  Values, AllOnes    (* the words of a register; AllOnes is 0xFFFFFFFF       *)

ASSUME IoAssumption ==
  /\ USE_VIRTUAL_PCI \in BOOLEAN
  /\ Bar0 # Bar1                        \* two BARs of one card never overlap
  /\ Addresses \subseteq {a \in Nat : a % 4 = 0}
  /\ AllOnes \in Values

-----------------------------------------------------------------------------
Windows == {"mmio", "vram", "ramin"}

\* The window an address falls into.  The virtual build serves only MMIO.
Window(a) ==
  IF a < \h1000000 THEN "mmio"
  ELSE IF ~USE_VIRTUAL_PCI /\ a < \h1800000 THEN "vram"
  ELSE IF ~USE_VIRTUAL_PCI /\ a >= \h1C00000 /\ a < \h2000000 THEN "ramin"
  ELSE "none"

\* Fault: RAMIN is mapped at the start of BAR1.
Start_ramin_at_bar1(w) == IF w = "mmio" THEN <<Bar0, 0>> ELSE <<Bar1, 0>>

\* What init_mmio_mappings maps for each window: the start, and the size.
Start(w) == CASE w = "mmio" -> <<Bar0, 0>>
              [] w = "vram" -> <<Bar1, 0>>
              [] OTHER      -> <<Bar1, \hC00000>>

Size(w) == CASE w = "mmio" -> \h1000000
             [] w = "vram" -> \h800000
             [] OTHER      -> \h400000

\* The offset of an address in the mapping of its window.
Offset(a) == CASE Window(a) = "mmio" -> a
               [] Window(a) = "vram" -> a - \h1000000
               [] OTHER              -> a - \h1C00000

\* The word of the card, or the element of virtual_mmio, that an access reaches.
Cell(a) ==
  IF USE_VIRTUAL_PCI THEN <<0, a \div 4>>
  ELSE <<Start(Window(a))[1], Start(Window(a))[2] + Offset(a)>>

Decoded == {a \in Addresses : Window(a) # "none"}
Cells   == {Cell(a) : a \in Decoded}

VARIABLES
  ptr,      (* the static pointer of each window                             *)
  mapped,   (* the windows that are mapped                                   *)
  init,     (* what init_mmio_mappings maps next, or what it returned        *)
  cleaning, (* cleanup_mmio_mappings was entered, after which no driver runs *)
  mem,      (* the words of the card                                        *)
  value     (* what the last nv_mmio_read32 returned                        *)

iovars == <<ptr, mapped, init, cleaning, mem, value>>

IoInit ==
  /\ ptr = [w \in Windows |-> "null"]
  /\ mapped = {}
  /\ init = "ready"
  /\ cleaning = FALSE
  /\ mem \in [Cells -> Values]
  /\ value = AllOnes

-----------------------------------------------------------------------------
(***************************************************************************)
(* init_mmio_mappings; the three arrays of the virtual build are allocated *)
(* in the same order.  An allocation that fails there is in Nvplay.        *)
(***************************************************************************)
OpenDevMem ==
  /\ init = "ready" /\ ~cleaning
  /\ init' \in IF USE_VIRTUAL_PCI THEN {"mmio"} ELSE {"mmio", "false"}
  /\ UNCHANGED <<ptr, mapped, cleaning, mem, value>>

After(w) == CASE w = "mmio" -> "vram" [] w = "vram" -> "ramin" [] OTHER -> "true"

MapWindow(w) ==
  /\ init = w /\ ~cleaning
  /\ ptr' = [ptr EXCEPT ![w] = "addr"]
  /\ mapped' = mapped \cup {w}
  /\ init' = After(w)
  /\ UNCHANGED <<cleaning, mem, value>>

\* Fault: MAP_FAILED is stored without a look at it.
MapFails_unchecked(w) ==
  /\ init = w /\ ~cleaning
  /\ ~USE_VIRTUAL_PCI
  /\ ptr' = [ptr EXCEPT ![w] = "MAP_FAILED"]
  /\ init' = After(w)
  /\ UNCHANGED <<mapped, cleaning, mem, value>>

\* mmap fails: its result is kept, and the windows mapped before are unmapped, whose
\* pointers stay as well.
MapFails(w) ==
  /\ init = w /\ ~cleaning
  /\ ~USE_VIRTUAL_PCI
  /\ ptr' = [ptr EXCEPT ![w] = "MAP_FAILED"]
  /\ mapped' = {}
  /\ init' = "false"
  /\ UNCHANGED <<cleaning, mem, value>>

-----------------------------------------------------------------------------
(***************************************************************************)
(* cleanup_mmio_mappings, called by main or by a signal handler.  A munmap *)
(* of MAP_FAILED, or of a window that is no longer mapped, does nothing.   *)
(***************************************************************************)
StartCleanup ==
  /\ ~cleaning
  /\ cleaning' = TRUE
  /\ UNCHANGED <<ptr, mapped, init, mem, value>>

Later(w) == CASE w = "mmio" -> {"vram", "ramin"} [] w = "vram" -> {"ramin"} [] OTHER -> {}

UnmapWindow(w) ==
  /\ cleaning
  /\ ptr[w] # "null"
  /\ \A later \in Later(w) : ptr[later] = "null"
  /\ mapped' = mapped \ {w}
  /\ ptr' = [ptr EXCEPT ![w] = "null"]
  /\ UNCHANGED <<init, cleaning, mem, value>>

-----------------------------------------------------------------------------
(***************************************************************************)
(* The accesses of the driver.                                             *)
(***************************************************************************)
\* nv3_init returns when init_mmio_mappings returned false.
DriverRuns == ~cleaning /\ init \in {"ready", "true"}

\* The test of the code before an access, and the word it reaches.
Tested(a)  == Window(a) # "none" /\ ptr[Window(a)] # "null"
Reaches(a) == Tested(a) /\ Window(a) \in mapped

\* Through a pointer to nothing the program reads anything, and writes no word of the
\* card.
nv_mmio_read32(a) ==
  /\ DriverRuns
  /\ value' \in IF Reaches(a) THEN {mem[Cell(a)]}
                ELSE IF Tested(a) THEN Values ELSE {AllOnes}
  /\ UNCHANGED <<ptr, mapped, init, cleaning, mem>>

nv_mmio_write32(a, v) ==
  /\ DriverRuns
  /\ mem' = IF Reaches(a) THEN [mem EXCEPT ![Cell(a)] = v] ELSE mem
  /\ UNCHANGED <<ptr, mapped, init, cleaning, value>>

\* Everything is unmapped, and the process exits.
Unmapped ==
  /\ cleaning /\ \A w \in Windows : ptr[w] = "null"
  /\ UNCHANGED iovars

IoNext ==
  \/ OpenDevMem \/ StartCleanup \/ Unmapped
  \/ \E w \in Windows : MapWindow(w) \/ MapFails(w) \/ UnmapWindow(w)
  \/ \E a \in Addresses : nv_mmio_read32(a) \/ \E v \in Values : nv_mmio_write32(a, v)

IoSpec == IoInit /\ [][IoNext]_iovars

-----------------------------------------------------------------------------
(***************************************************************************)
(* Properties.                                                             *)
(***************************************************************************)

\* The types of the pointers, the card and the result.  A pointer that is not null and
\* points to nothing is what a failing mmap leaves to cleanup, and to nobody else; then
\* nothing is mapped any more.
IoTypeOK ==
  /\ ptr \in [Windows -> {"null", "addr", "MAP_FAILED"}]
  /\ mapped \subseteq Windows
  /\ init \in {"ready", "true", "false"} \cup Windows
  /\ cleaning \in BOOLEAN
  /\ mem \in [Cells -> Values]
  /\ value \in Values
  /\ init \in {"ready", "false"} => mapped = {}
  /\ init # "false" =>
       \A w \in Windows : IF w \in mapped THEN ptr[w] = "addr" ELSE ptr[w] = "null"

store  == [a \in Addresses |-> IF a \in Decoded THEN mem[Cell(a)] ELSE AllOnes]
open   == {a \in Addresses : Reaches(a)}
result == value

Flat == INSTANCE FlatSpace
          WITH store <- store, open <- open, result <- result

\* The windows form one flat space of independent words: no write through one
\* window is seen through another, though two windows share BAR1, and no access goes
\* through what a failing mmap left.
ImplementsFlatSpace == Flat!FlatSpec
=============================================================================
