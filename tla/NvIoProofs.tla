----------------------------- MODULE NvIoProofs -----------------------------
(***************************************************************************)
(* The register space implements FlatSpace for any two different BARs, any *)
(* word-aligned addresses and any words.  What it takes is that two        *)
(* addresses of the driver never reach the same word of the card           *)
(* (CellsDistinct): the VRAM and RAMIN windows share BAR1, and the three   *)
(* mappings fit their BARs side by side (CellInMapping); and that no       *)
(* access goes through what a failing mmap leaves (DriverHasMappings).     *)
(***************************************************************************)
EXTENDS NvIo, TLAPS

USE DEF Window, Start, Size, Offset

\* An access at an aligned address stays inside its mapping, and every mapping
\* inside the 16 MB of its BAR.
THEOREM CellInMapping ==
  ASSUME NEW a \in Decoded
  PROVE  /\ Offset(a) \in Nat /\ Offset(a) % 4 = 0
         /\ Offset(a) + 4 <= Size(Window(a))
         /\ Start(Window(a))[2] + Size(Window(a)) <= \h1000000
BY IoAssumption DEF Decoded

\* VRAM and RAMIN are one linear stretch of BAR1: an address beyond MMIO reaches the
\* word as far from the start of BAR1 as the address is from the end of MMIO.
THEOREM LinearOverBar1 ==
  ASSUME ~USE_VIRTUAL_PCI, NEW a \in Decoded, a >= \h1000000
  PROVE  Cell(a) = <<Bar1, a - \h1000000>>
BY IoAssumption DEF Decoded, Cell

\* Two addresses of the driver never reach the same word.
THEOREM CellsDistinct ==
  ASSUME NEW a \in Decoded, NEW b \in Decoded, Cell(a) = Cell(b)
  PROVE  a = b
<1> USE IoAssumption DEF Decoded
<1>1. a \in Nat /\ b \in Nat /\ a % 4 = 0 /\ b % 4 = 0
  OBVIOUS
<1>2. CASE USE_VIRTUAL_PCI
  BY <1>1, <1>2 DEF Cell
<1>3. CASE ~USE_VIRTUAL_PCI
  <2>1. \A c \in Decoded : c < \h1000000 => Cell(c) = <<Bar0, c>>
    BY <1>3 DEF Cell
  <2>2. \A c \in Decoded : c >= \h1000000 => Cell(c) = <<Bar1, c - \h1000000>>
    BY <1>3, LinearOverBar1
  <2> QED
    BY <1>1, <2>1, <2>2
<1> QED
  BY <1>2, <1>3

-----------------------------------------------------------------------------
\* The types hold and the static pointers are the mappings of the process, but for what a
\* failing mmap leaves behind; then nothing stays mapped.
THEOREM IoTypes == IoSpec => []IoTypeOK
<1>1. IoInit => IoTypeOK
  BY IoAssumption DEF IoInit, IoTypeOK
<1>2. IoTypeOK /\ [IoNext]_iovars => IoTypeOK'
  <2> SUFFICES ASSUME IoTypeOK, [IoNext]_iovars PROVE IoTypeOK'
    OBVIOUS
  <2>1. CASE OpenDevMem
    BY <2>1 DEF IoTypeOK, OpenDevMem, Windows
  <2>2. ASSUME NEW w \in Windows, MapWindow(w) PROVE IoTypeOK'
    BY <2>2 DEF IoTypeOK, MapWindow, After, Windows
  <2>3. ASSUME NEW w \in Windows, MapFails(w) PROVE IoTypeOK'
    BY <2>3 DEF IoTypeOK, MapFails
  <2>4. CASE StartCleanup
    BY <2>4 DEF IoTypeOK, StartCleanup
  <2>5. ASSUME NEW w \in Windows, UnmapWindow(w) PROVE IoTypeOK'
    BY <2>5 DEF IoTypeOK, UnmapWindow
  <2>6. ASSUME NEW a \in Addresses, nv_mmio_read32(a) PROVE IoTypeOK'
    <3>1. Reaches(a) => Cell(a) \in Cells
      BY DEF Reaches, Tested, Cells, Decoded
    <3>2. value' \in Values
      BY <2>6, <3>1, IoAssumption DEF IoTypeOK, nv_mmio_read32
    <3> QED
      BY <2>6, <3>2 DEF IoTypeOK, nv_mmio_read32
  <2>7. ASSUME NEW a \in Addresses, NEW v \in Values, nv_mmio_write32(a, v) PROVE IoTypeOK'
    BY <2>7 DEF IoTypeOK, nv_mmio_write32
  <2>8. CASE UNCHANGED iovars
    BY <2>8 DEF IoTypeOK, iovars
  <2> QED
    BY <2>1, <2>2, <2>3, <2>4, <2>5, <2>6, <2>7, <2>8 DEF IoNext, Unmapped
<1> QED
  BY <1>1, <1>2, PTL DEF IoSpec

\* The driver has no pointer but to a mapping: where the code's test of the pointer lets
\* an access through, it reaches a word of the card.
LEMMA DriverHasMappings ==
  ASSUME IoTypeOK, DriverRuns, NEW a \in Addresses
  PROVE  Tested(a) <=> Reaches(a)
BY DEF IoTypeOK, DriverRuns, Tested, Reaches, Windows

\* The register space implements the flat space of independent words.
THEOREM FlatSpaceImplemented == IoSpec => ImplementsFlatSpace
<1>1. IoInit => Flat!FlatInit
  <2> SUFFICES ASSUME IoInit PROVE Flat!FlatInit
    OBVIOUS
  <2>1. store \in [Addresses -> Values]
    BY IoAssumption DEF IoInit, store, Cells
  <2>2. open = {}
    BY DEF IoInit, open, Reaches
  <2> QED
    BY <2>1, <2>2 DEF Flat!FlatInit, IoInit, result
<1>2. IoTypeOK /\ [IoNext]_iovars => [Flat!FlatNext]_(Flat!flatvars)
  <2> SUFFICES ASSUME IoTypeOK, [IoNext]_iovars PROVE [Flat!FlatNext]_(Flat!flatvars)
    OBVIOUS
  <2>1. CASE OpenDevMem \/ StartCleanup
             \/ \E w \in Windows : MapWindow(w) \/ MapFails(w) \/ UnmapWindow(w)
    <3>1. UNCHANGED <<mem, value>>
      BY <2>1 DEF OpenDevMem, StartCleanup, MapWindow, MapFails, UnmapWindow
    <3>2. Flat!Reopen
      BY <3>1 DEF Flat!Reopen, store, open, result
    <3> QED
      BY <3>2 DEF Flat!FlatNext
  <2>2. ASSUME NEW a \in Addresses, nv_mmio_read32(a) PROVE Flat!FlatRead(a)
    <3>1. store' = store /\ open' = open
      BY <2>2 DEF nv_mmio_read32, store, open, Reaches, Tested
    <3>2. a \in open <=> Reaches(a)
      BY DEF open
    <3>3. Reaches(a) => store[a] = mem[Cell(a)]
      BY DEF Reaches, Tested, store, Decoded
    <3>4. Tested(a) <=> Reaches(a)
      BY <2>2, DriverHasMappings DEF nv_mmio_read32
    <3>5. value' = IF Reaches(a) THEN mem[Cell(a)] ELSE AllOnes
      BY <2>2, <3>4 DEF nv_mmio_read32
    <3> QED
      BY <3>1, <3>2, <3>3, <3>5 DEF Flat!FlatRead, result
  <2>3. ASSUME NEW a \in Addresses, NEW v \in Values, nv_mmio_write32(a, v)
        PROVE  Flat!FlatWrite(a, v)
    <3>1. open' = open /\ result' = result
      BY <2>3 DEF nv_mmio_write32, open, Reaches, Tested, result
    <3>2. a \in open <=> Reaches(a)
      BY DEF open
    <3>3. CASE ~Reaches(a)
      BY <2>3, <3>1, <3>2, <3>3 DEF nv_mmio_write32, Flat!FlatWrite, store
    <3>4. CASE Reaches(a)
      <4>1. a \in Decoded /\ mem' = [mem EXCEPT ![Cell(a)] = v]
        BY <2>3, <3>4 DEF nv_mmio_write32, Reaches, Tested, Decoded
      <4>2. \A b \in Decoded : mem'[Cell(b)] = IF b = a THEN v ELSE mem[Cell(b)]
        <5> SUFFICES ASSUME NEW b \in Decoded
                     PROVE  mem'[Cell(b)] = IF b = a THEN v ELSE mem[Cell(b)]
          OBVIOUS
        <5>1. Cell(b) \in Cells /\ (b # a => Cell(b) # Cell(a))
          BY <4>1, CellsDistinct DEF Cells
        <5> QED
          BY <4>1, <5>1 DEF IoTypeOK
      <4>3. store' = [store EXCEPT ![a] = v]
        BY <4>1, <4>2 DEF store
      <4> QED
        BY <3>1, <3>2, <3>4, <4>3 DEF Flat!FlatWrite
    <3> QED
      BY <3>3, <3>4
  <2>4. CASE UNCHANGED iovars
    BY <2>4 DEF iovars, Flat!flatvars, store, open, result, Reaches, Tested
  <2> QED
    BY <2>1, <2>2, <2>3, <2>4 DEF IoNext, Unmapped, Flat!FlatNext
<1> QED
  BY <1>1, <1>2, IoTypes, PTL DEF IoSpec, ImplementsFlatSpace, Flat!FlatSpec
=============================================================================
