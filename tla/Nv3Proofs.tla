----------------------------- MODULE Nv3Proofs ------------------------------
(***************************************************************************)
(* Proofs about the bring-up of a card (Nv3), for any boot registers, any  *)
(* straps, any clock and any subsystems and interrupts the VBIOS may have  *)
(* left enabled.                                                           *)
(*                                                                         *)
(* ClockSafe is not inductive: what WriteMclk programs is computed from    *)
(* the locals of nv3_init_test_overclock.  ClockInv ties these locals to   *)
(* the straps of the card and bounds n.                                    *)
(***************************************************************************)
EXTENDS Nv3, TLAPS

InTest == {"write_mclk", "sleep", "done"}

ClockInv ==
  /\ at \in InTest =>
       /\ clock.is_14318mhz = Is14318(chip.straps)
       /\ clock.m = ClockM(Is14318(chip.straps))
       /\ clock.n >= ClockNStart(Is14318(chip.straps))
  /\ at = "sleep" => clock.n <= ClockNMax

Nv3Inv == Nv3TypeOK /\ ClockInv /\ ClockSafe /\ ShadowsAgree

-----------------------------------------------------------------------------
\* The coefficient of the test for crystal is14318 and n, whose bits are in place.
LEMMA CoeffFields ==
  ASSUME NEW n \in 0 .. 255, NEW m \in 0 .. 255
  PROVE  /\ VDiv(Coeff(1, n, m)) = m
         /\ NDiv(Coeff(1, n, m)) = n
         /\ PDiv(Coeff(1, n, m)) = 1
BY DEF Coeff, OrOne, VDiv, NDiv, PDiv

\* The base coefficients are the first ones of the test.
LEMMA BaseIsStart ==
  ASSUME NEW is14318 \in BOOLEAN
  PROVE  BaseClock(is14318) = Coeff(1, ClockNStart(is14318), ClockM(is14318))
BY DEF BaseClock, Coeff, OrOne, ClockNStart, ClockM, NV3_TEST_OVERCLOCK_BASE_14318,
       NV3_TEST_OVERCLOCK_BASE_13500

\* A coefficient of the test for the card's own crystal is safe for the card.
LEMMA TestCoeffSafe ==
  ASSUME NEW straps \in Nat, NEW n \in ClockNStart(Is14318(straps)) .. 255
  PROVE  SafeCoeff(straps, Coeff(1, n, ClockM(Is14318(straps))))
<1> DEFINE is14318 == Is14318(straps)
           m == ClockM(is14318)
           start == ClockNStart(is14318)
           freq == CrystalFreq(is14318)
<1>1. /\ m \in {11, 14} /\ start \in 163 .. 196 /\ freq \in {13500, 14318}
  BY DEF ClockM, ClockNStart, CrystalFreq
<1>2. n \in 0 .. 255 /\ start \in 0 .. 255 /\ m \in 0 .. 255 /\ start <= n
  BY <1>1
<1>3. /\ VDiv(Coeff(1, n, m)) = m /\ NDiv(Coeff(1, n, m)) = n /\ PDiv(Coeff(1, n, m)) = 1
      /\ VDiv(Coeff(1, start, m)) = m /\ NDiv(Coeff(1, start, m)) = start
      /\ PDiv(Coeff(1, start, m)) = 1
  BY <1>2, CoeffFields
<1>4. Pow2[2] = 2
  BY DEF Pow2
<1>5. /\ Khz(freq, Coeff(1, n, m)) = (freq * n) \div (m * 2)
      /\ Khz(freq, Coeff(1, start, m)) = (freq * start) \div (m * 2)
  BY <1>3, <1>4 DEF Khz
<1>6. (freq * n) \div (m * 2) >= (freq * start) \div (m * 2)
  <2>1. CASE is14318
    BY <1>2, <2>1 DEF ClockM, ClockNStart, CrystalFreq
  <2>2. CASE ~is14318
    BY <1>2, <2>2 DEF ClockM, ClockNStart, CrystalFreq
  <2> QED
    BY <2>1, <2>2
<1>7. BaseClock(is14318) = Coeff(1, start, m)
  BY BaseIsStart DEF Is14318
<1> QED
  BY <1>3, <1>5, <1>6, <1>7 DEF SafeCoeff, clock_p

\* The straps never change, are a number, and the test programs typed coefficients.
LEMMA TypedCoefficients ==
  /\ \A n \in 163 .. 255, m \in {11, 14} : Coeff(clock_p, n, m) \in Coefficients
  /\ \A is14318 \in BOOLEAN : BaseClock(is14318) \in Coefficients
<1>1. \A n \in 163 .. 255, m \in {11, 14} : Coeff(clock_p, n, m) \in Coefficients
  BY DEF Coefficients
<1>2. \A is14318 \in BOOLEAN : BaseClock(is14318) \in Coefficients
  <2> TAKE is14318 \in BOOLEAN
  <2>1. ClockNStart(is14318) \in 163 .. 255 /\ ClockM(is14318) \in {11, 14}
    BY DEF ClockNStart, ClockM
  <2> QED
    BY <1>1, <2>1, BaseIsStart DEF clock_p
<1> QED
  BY <1>1, <1>2

-----------------------------------------------------------------------------
\* The invariant holds at power on.
LEMMA InitNv3Inv == Nv3Init => Nv3Inv
<1> SUFFICES ASSUME Nv3Init PROVE Nv3Inv
  OBVIOUS
<1>1. Nv3TypeOK
  BY DEF Nv3Init, Nv3TypeOK, Coefficients, VramSizes, NoMode, ClockNMax, Locations
<1> QED
  BY <1>1 DEF Nv3Init, Nv3Inv, ClockInv, InTest, ClockSafe, ShadowsAgree, BeforeEnable

\* The memory sizes are set together, to the same one of the five sizes.
LEMMA KeepSizeVram == ASSUME Nv3Inv, SizeVram PROVE Nv3Inv'
<1> USE DEF Nv3Inv, Nv3TypeOK, Go, SizeVram
<1> DEFINE pfb == current_device.nv_pfb_boot_0
           size == VramSize(pfb, current_device.vram_amount)
<1>1. \A old \in VramSizes : VramSize(pfb, old) \in VramSizes
  BY DEF VramSize, VramSizes
<1>2. /\ size \in VramSizes /\ nv3_state.vram_size = current_device.vram_amount
      /\ VramWidth(pfb) \in {0, 64, 128}
  BY <1>1 DEF ShadowsAgree, BeforeEnable, VramWidth
<1>3. /\ current_device' = [current_device EXCEPT !.vram_amount = size]
      /\ nv3_state' = [nv3_state EXCEPT !.vram_size = size, !.vram_width = VramWidth(pfb)]
      /\ UNCHANGED <<chip, found, clock>> /\ at' = "read_straps" /\ at = "size_vram"
  BY <1>2
<1> HIDE DEF SizeVram, size, pfb
<1>4. Nv3TypeOK'
  <2>1. current_device' \in [nv_pmc_boot_0 : BootRegs \cup {0},
                             nv_pfb_boot_0 : PfbBoots \cup {0},
                             vram_amount : VramSizes, straps : Straps \cup {0}]
    BY <1>2, <1>3
  <2>2. nv3_state' \in [revision : BootRegs \cup {0}, vram_size : VramSizes,
                        vram_width : {0, 64, 128}, crystal_freq : {0, 13500, 14318},
                        current_mode : {NoMode, NV3_MODE_640x480x16},
                        mpll : Coefficients \cup {0},
                        enabled_subsystems : {0, NV3_PMC_ENABLE_ALL}]
    <3> DEFINE sized == [nv3_state EXCEPT !.vram_size = size]
    <3>1. sized \in [revision : BootRegs \cup {0}, vram_size : VramSizes,
                     vram_width : {0, 64, 128}, crystal_freq : {0, 13500, 14318},
                     current_mode : {NoMode, NV3_MODE_640x480x16},
                     mpll : Coefficients \cup {0},
                     enabled_subsystems : {0, NV3_PMC_ENABLE_ALL}]
      BY <1>2
    <3>2. nv3_state' = [sized EXCEPT !.vram_width = VramWidth(pfb)]
      BY <1>3
    <3> HIDE DEF sized
    <3> QED
      BY <1>2, <3>1, <3>2
  <2> QED
    BY <1>3, <2>1, <2>2 DEF Locations
<1>5. ClockInv' /\ ClockSafe'
  BY <1>3 DEF ClockInv, InTest, ClockSafe
<1>6. ShadowsAgree'
  BY <1>3 DEF ShadowsAgree, BeforeEnable
<1> QED
  BY <1>4, <1>5, <1>6

\* The reads before the test go to fields that the chip's registers type.
LEMMA KeepReads ==
  ASSUME Nv3Inv, ReadBoot \/ ReadStraps \/ ReadClocks PROVE Nv3Inv'
<1> USE DEF Nv3Inv, Nv3TypeOK, Go, ReadBoot, ReadStraps, ReadClocks
<1>1. CASE ReadBoot
  <2>1. Nv3TypeOK'
    <3>1. chip.boot \in BootRegs /\ chip.pfb \in PfbBoots
      OBVIOUS
    <3>2. current_device' \in [nv_pmc_boot_0 : BootRegs \cup {0},
                               nv_pfb_boot_0 : PfbBoots \cup {0},
                               vram_amount : VramSizes, straps : Straps \cup {0}]
      <4> DEFINE half == [current_device EXCEPT !.nv_pmc_boot_0 = chip.boot]
      <4>1. half \in [nv_pmc_boot_0 : BootRegs \cup {0},
                      nv_pfb_boot_0 : PfbBoots \cup {0},
                      vram_amount : VramSizes, straps : Straps \cup {0}]
        BY <3>1
      <4>2. current_device' = [half EXCEPT !.nv_pfb_boot_0 = chip.pfb]
        BY <1>1
      <4> HIDE DEF half
      <4> QED
        BY <3>1, <4>1, <4>2
    <3> QED
      BY <1>1, <3>1, <3>2 DEF Locations
  <2>2. ClockInv' /\ ClockSafe'
    BY <1>1 DEF ClockInv, InTest, ClockSafe
  <2>3. ShadowsAgree'
    BY <1>1 DEF ShadowsAgree, BeforeEnable
  <2> QED
    BY <2>1, <2>2, <2>3
<1>2. CASE ReadStraps
  <2>1. Nv3TypeOK'
    BY <1>2 DEF Locations
  <2>2. ClockInv' /\ ClockSafe'
    BY <1>2 DEF ClockInv, InTest, ClockSafe
  <2>3. ShadowsAgree'
    BY <1>2 DEF ShadowsAgree, BeforeEnable
  <2> QED
    BY <2>1, <2>2, <2>3
<1>3. CASE ReadClocks
  <2>1. Nv3TypeOK'
    BY <1>3 DEF Locations
  <2>2. ClockInv' /\ ClockSafe'
    BY <1>3 DEF ClockInv, InTest, ClockSafe
  <2>3. ShadowsAgree'
    BY <1>3 DEF ShadowsAgree, BeforeEnable
  <2> QED
    BY <2>1, <2>2, <2>3
<1> QED
  BY <1>1, <1>2, <1>3

\* The writes before the test leave the memory clock alone, and what they write to
\* the chip they write to the program's copy as well.
LEMMA KeepWrites ==
  ASSUME Nv3Inv, EnableSubsystems \/ EnableInterrupts \/ SetDefaultMode PROVE Nv3Inv'
<1> USE DEF Nv3Inv, Nv3TypeOK, Go, EnableSubsystems, EnableInterrupts, SetDefaultMode
<1>1. CASE EnableSubsystems
  <2>1. Nv3TypeOK'
    BY <1>1 DEF Locations
  <2>2. ClockInv' /\ ClockSafe'
    BY <1>1 DEF ClockInv, InTest, ClockSafe
  <2>3. ShadowsAgree'
    BY <1>1 DEF ShadowsAgree, BeforeEnable
  <2> QED
    BY <2>1, <2>2, <2>3
<1>2. CASE EnableInterrupts
  <2>1. Nv3TypeOK'
    BY <1>2 DEF Locations
  <2>2. ClockInv' /\ ClockSafe'
    BY <1>2 DEF ClockInv, InTest, ClockSafe
  <2>3. ShadowsAgree'
    BY <1>2 DEF ShadowsAgree, BeforeEnable
  <2> QED
    BY <2>1, <2>2, <2>3
<1>3. CASE SetDefaultMode
  <2>1. Nv3TypeOK'
    BY <1>3 DEF Locations
  <2>2. ClockInv' /\ ClockSafe'
    BY <1>3 DEF ClockInv, InTest, ClockSafe
  <2>3. ShadowsAgree'
    BY <1>3 DEF ShadowsAgree, BeforeEnable
  <2> QED
    BY <2>1, <2>2, <2>3
<1> QED
  BY <1>1, <1>2, <1>3

\* The test starts with the locals that the straps select.
LEMMA KeepStartTest == ASSUME Nv3Inv, StartTest PROVE Nv3Inv'
<1> USE DEF Nv3Inv, Nv3TypeOK, Go, StartTest
<1>1. Nv3TypeOK'
  BY DEF Locations, CrystalFreq, ClockNStart, ClockM, ClockNMax, Is14318
<1>2. ClockInv'
  BY DEF ClockInv, InTest, Is14318, ClockNStart
<1>3. ClockSafe' /\ ShadowsAgree'
  BY DEF ClockSafe, ShadowsAgree, BeforeEnable
<1> QED
  BY <1>1, <1>2, <1>3

\* What WriteMclk programs is safe by the ties of the locals to the straps.
LEMMA KeepWriteMclk == ASSUME Nv3Inv, WriteMclk PROVE Nv3Inv'
<1> USE DEF Nv3Inv, Nv3TypeOK, Go, WriteMclk, SetMclk
<1> DEFINE coeff == Coeff(clock_p, clock.n, clock.m)
<1>1. /\ at = "write_mclk" /\ chip.straps \in Nat
      /\ clock.m = ClockM(Is14318(chip.straps))
      /\ clock.n \in ClockNStart(Is14318(chip.straps)) .. 255
  BY RegistersAreWords DEF ClockInv, InTest, ClockNMax, ClockNStart
<1>2. SafeCoeff(chip.straps, coeff)
  BY <1>1, TestCoeffSafe DEF clock_p
<1>3. coeff \in Coefficients
  BY <1>1, TypedCoefficients DEF ClockNStart, ClockM
<1>4. Nv3TypeOK'
  BY <1>3 DEF Locations
<1>5. ClockInv'
  BY <1>1 DEF ClockInv, InTest, ClockNMax
<1>6. ClockSafe'
  BY <1>2 DEF ClockSafe
<1>7. ShadowsAgree'
  BY <1>1 DEF ShadowsAgree, BeforeEnable
<1> QED
  BY <1>4, <1>5, <1>6, <1>7

\* n is at most 255 while the program sleeps, so that the next n is in range.
LEMMA KeepSleep == ASSUME Nv3Inv, Sleep PROVE Nv3Inv'
<1> USE DEF Nv3Inv, Nv3TypeOK, Go, Sleep
<1>1. Nv3TypeOK'
  BY DEF Locations, ClockInv, ClockNMax
<1>2. ClockInv'
  BY DEF ClockInv, InTest, ClockNStart
<1>3. ClockSafe' /\ ShadowsAgree'
  BY DEF ClockSafe, ShadowsAgree, BeforeEnable
<1> QED
  BY <1>1, <1>2, <1>3

\* The base clock is the one of the card's crystal, hence safe.
LEMMA KeepRestoreMclk == ASSUME Nv3Inv, RestoreMclk PROVE Nv3Inv'
<1> USE DEF Nv3Inv, Nv3TypeOK, Go, RestoreMclk, SetMclk
<1> DEFINE is14318 == Is14318(chip.straps)
           base == BaseClock(clock.is_14318mhz)
<1>1. at = "write_mclk" /\ clock.is_14318mhz = is14318 /\ is14318 \in BOOLEAN
  BY DEF ClockInv, InTest, Is14318
<1>2. base = Coeff(1, ClockNStart(is14318), ClockM(is14318)) /\ base \in Coefficients
  BY <1>1, BaseIsStart, TypedCoefficients
<1>3. ClockNStart(is14318) \in ClockNStart(is14318) .. 255 /\ chip.straps \in Nat
  BY RegistersAreWords DEF ClockNStart
<1>4. SafeCoeff(chip.straps, base)
  BY <1>2, <1>3, TestCoeffSafe
<1>5. Nv3TypeOK'
  BY <1>2 DEF Locations
<1>6. ClockInv'
  BY <1>1 DEF ClockInv, InTest
<1>7. ClockSafe'
  BY <1>4 DEF ClockSafe
<1>8. ShadowsAgree'
  BY <1>1 DEF ShadowsAgree, BeforeEnable
<1> QED
  BY <1>5, <1>6, <1>7, <1>8

-----------------------------------------------------------------------------
\* Nv3Inv is an invariant of the bring-up of any card.
THEOREM Nv3Invariant == Nv3Spec => []Nv3Inv
<1>1. Nv3Inv /\ [Nv3Next]_nv3vars => Nv3Inv'
  <2> SUFFICES ASSUME Nv3Inv, [Nv3Next]_nv3vars PROVE Nv3Inv'
    OBVIOUS
  <2>1. CASE Nv3Step
    BY <2>1, KeepReads, KeepSizeVram, KeepWrites, KeepStartTest, KeepWriteMclk, KeepSleep, KeepRestoreMclk
       DEF Nv3Step
  <2>2. CASE UNCHANGED nv3vars
    BY <2>2 DEF nv3vars, Nv3Inv, Nv3TypeOK, ClockInv, ClockSafe, ShadowsAgree, BeforeEnable
  <2> QED
    BY <2>1, <2>2 DEF Nv3Next, Returned
<1> QED
  BY <1>1, InitNv3Inv, PTL DEF Nv3Spec

\* The registers and the program's copies of them keep their types.
THEOREM Nv3Types == Nv3Spec => []Nv3TypeOK
<1>1. Nv3Inv => Nv3TypeOK
  BY DEF Nv3Inv
<1> QED
  BY <1>1, Nv3Invariant, PTL

\* No card ever runs at a clock other than the VBIOS's or a safe one for its own
\* crystal.
THEOREM ClockStaysSafe == Nv3Spec => []ClockSafe
<1>1. Nv3Inv => ClockSafe
  BY DEF Nv3Inv
<1> QED
  BY <1>1, Nv3Invariant, PTL

\* nv3_state and current_device agree with the chip and with each other on every card,
\* whatever its VBIOS left in the registers that nv3_init does not read.
THEOREM ShadowsStayTrue == Nv3Spec => []ShadowsAgree
<1>1. Nv3Inv => ShadowsAgree
  BY DEF Nv3Inv
<1> QED
  BY <1>1, Nv3Invariant, PTL

-----------------------------------------------------------------------------
(***************************************************************************)
(* The default mode fits: the program sizes the memory from its own copy   *)
(* of NV3_PFB_BOOT, which FitsInv ties to the register.                    *)
(***************************************************************************)
FitsInv ==
  /\ at # "read_boot" => current_device.nv_pfb_boot_0 = chip.pfb
  /\ DefaultModeFits

\* A defined memory amount gives at least the 614400 bytes of the default mode.
LEMMA DefinedAmountFits ==
  ASSUME NEW pfb \in Nat, RamAmount(pfb) # 3, NEW old
  PROVE  VramSize(pfb, old) >= FrameBytes(mode_table[NV3_MODE_640x480x16])
<1>1. RamAmount(pfb) \in {0, 1, 2} /\ RamExtension(pfb) \in {0, 1}
  BY DEF RamAmount, RamExtension
<1>2. VramSize(pfb, old) \in {NV3_VRAM_SIZE_1MB, NV3_VRAM_SIZE_2MB, NV3_VRAM_SIZE_4MB, NV3_VRAM_SIZE_8MB}
  BY <1>1 DEF VramSize, NV3_PFB_BOOT_RAM_EXTENSION_8MB, NV3_PFB_BOOT_RAM_AMOUNT_4MB,
              NV3_PFB_BOOT_RAM_AMOUNT_2MB, NV3_PFB_BOOT_RAM_EXTENSION_NONE
<1>3. FrameBytes(mode_table[NV3_MODE_640x480x16]) = 614400
  <2>1. Len(ModeEntries) = 12 /\ ModeEntries[2] = Mode(640, 480, 16)
    BY DEF ModeEntries
  <2>2. mode_table[1] = Mode(640, 480, 16)
    BY <2>1 DEF mode_table
  <2> QED
    BY <2>2 DEF FrameBytes, NV3_MODE_640x480x16, Mode
<1> QED
  BY <1>2, <1>3 DEF NV3_VRAM_SIZE_1MB, NV3_VRAM_SIZE_2MB, NV3_VRAM_SIZE_4MB, NV3_VRAM_SIZE_8MB

\* Only SizeVram can break the fit, and it reads the copy of the register.
LEMMA FitsKept == ASSUME Nv3Inv, FitsInv, [Nv3Next]_nv3vars PROVE FitsInv'
<1> USE DEF Go
<1>1. CASE ReadBoot
  BY <1>1 DEF ReadBoot, FitsInv, DefaultModeFits, Nv3Inv, Nv3TypeOK
<1>2. CASE SizeVram
  <2> DEFINE size == VramSize(chip.pfb, current_device.vram_amount)
  <2>1. chip.pfb \in Nat /\ UNCHANGED chip
    BY <1>2, RegistersAreWords DEF SizeVram, Nv3Inv, Nv3TypeOK
  <2>2. current_device' = [current_device EXCEPT !.vram_amount = size]
    BY <1>2 DEF SizeVram, FitsInv
  <2>3. /\ current_device'.vram_amount = size
        /\ current_device'.nv_pfb_boot_0 = current_device.nv_pfb_boot_0
    <3> HIDE DEF size
    <3> QED
      BY <2>2 DEF Nv3Inv, Nv3TypeOK
  <2>4. RamAmount(chip.pfb) # 3
          => size >= FrameBytes(mode_table[NV3_MODE_640x480x16])
    BY <2>1, DefinedAmountFits
  <2> QED
    BY <1>2, <2>1, <2>3, <2>4 DEF SizeVram, FitsInv, DefaultModeFits
<1>3. CASE ReadStraps
  BY <1>3 DEF ReadStraps, FitsInv, DefaultModeFits, Nv3Inv, Nv3TypeOK
<1>4. CASE ReadClocks \/ SetDefaultMode \/ StartTest \/ Sleep
  BY <1>4 DEF ReadClocks, SetDefaultMode, StartTest, Sleep, FitsInv, DefaultModeFits
<1>5. CASE EnableSubsystems \/ EnableInterrupts \/ WriteMclk \/ RestoreMclk
  <2>1. chip'.pfb = chip.pfb
    BY <1>5 DEF EnableSubsystems, EnableInterrupts, WriteMclk, RestoreMclk, SetMclk, Nv3Inv, Nv3TypeOK
  <2> QED
    BY <1>5, <2>1 DEF EnableSubsystems, EnableInterrupts, WriteMclk, RestoreMclk, FitsInv,
                      DefaultModeFits
<1>6. CASE UNCHANGED nv3vars
  BY <1>6 DEF nv3vars, FitsInv, DefaultModeFits
<1> QED
  BY <1>1, <1>2, <1>3, <1>4, <1>5, <1>6 DEF Nv3Next, Nv3Step, Returned

\* Whatever a card's NV3_PFB_BOOT, once its memory is sized the default mode fits
\* into it, the undefined memory amount apart.
THEOREM DefaultModeAlwaysFits == Nv3Spec => []DefaultModeFits
<1>1. Nv3Init => FitsInv
  BY DEF Nv3Init, FitsInv, DefaultModeFits
<1>2. Nv3Inv /\ FitsInv /\ [Nv3Next]_nv3vars => FitsInv'
  BY FitsKept
<1>3. FitsInv => DefaultModeFits
  BY DEF FitsInv
<1> QED
  BY <1>1, <1>2, <1>3, Nv3Invariant, PTL DEF Nv3Spec

-----------------------------------------------------------------------------
(***************************************************************************)
(* The test raises the clock step by step: between two writes the register *)
(* holds the coefficient of the n written last, and the chip is powered.   *)
(***************************************************************************)
ReclockInv ==
  /\ at \notin BeforeEnable => chip.enable = NV3_PMC_ENABLE_ALL
  /\ at = "write_mclk" =>
       \/ clock.n = ClockNStart(clock.is_14318mhz)
       \/ chip.mclk = Coeff(clock_p, clock.n - 1, clock.m)
  /\ at = "sleep" => chip.mclk = Coeff(clock_p, clock.n, clock.m)

\* What the locals are while the test runs.
LEMMA TestLocals ==
  ASSUME Nv3Inv, at \in InTest
  PROVE  /\ clock.is_14318mhz \in BOOLEAN
         /\ clock.m = ClockM(clock.is_14318mhz) /\ clock.m \in {11, 14}
         /\ clock.n \in Nat /\ clock.n <= 256
         /\ ClockNStart(clock.is_14318mhz) \in {163, 196}
         /\ clock.n >= ClockNStart(clock.is_14318mhz)
<1>1. clock.is_14318mhz \in BOOLEAN /\ clock.n \in Nat /\ clock.n <= 256
  BY DEF Nv3Inv, Nv3TypeOK, ClockNMax
<1>2. /\ clock.m = ClockM(clock.is_14318mhz)
      /\ clock.n >= ClockNStart(clock.is_14318mhz)
  BY DEF Nv3Inv, ClockInv
<1> QED
  BY <1>1, <1>2 DEF ClockM, ClockNStart

\* A step keeps ReclockInv.
LEMMA ReclockKept == ASSUME Nv3Inv, ReclockInv, [Nv3Next]_nv3vars PROVE ReclockInv'
<1> USE DEF Go
<1>1. CASE ReadBoot \/ SizeVram \/ ReadStraps \/ ReadClocks
  BY <1>1 DEF ReadBoot, SizeVram, ReadStraps, ReadClocks, ReclockInv, BeforeEnable
<1>2. CASE EnableSubsystems
  BY <1>2 DEF EnableSubsystems, ReclockInv, BeforeEnable, Nv3Inv, Nv3TypeOK
<1>3. CASE EnableInterrupts
  BY <1>3 DEF EnableInterrupts, ReclockInv, BeforeEnable, Nv3Inv, Nv3TypeOK
<1>4. CASE SetDefaultMode
  BY <1>4 DEF SetDefaultMode, ReclockInv, BeforeEnable
<1>5. CASE StartTest
  BY <1>5 DEF StartTest, ReclockInv, BeforeEnable
<1>6. CASE WriteMclk
  <2>1. chip'.enable = chip.enable /\ chip'.mclk = Coeff(clock_p, clock.n, clock.m)
    BY <1>6 DEF WriteMclk, SetMclk, Nv3Inv, Nv3TypeOK
  <2> QED
    BY <1>6, <2>1 DEF WriteMclk, ReclockInv, BeforeEnable
<1>7. CASE Sleep
  <2>1. /\ clock'.n = clock.n + 1 /\ clock'.m = clock.m /\ clock.n \in Nat
        /\ UNCHANGED chip /\ at = "sleep" /\ at' = "write_mclk"
    BY <1>7 DEF Sleep, Nv3Inv, Nv3TypeOK
  <2>2. clock'.n - 1 = clock.n
    BY <2>1
  <2> QED
    BY <2>1, <2>2 DEF ReclockInv, BeforeEnable
<1>8. CASE RestoreMclk
  BY <1>8 DEF RestoreMclk, SetMclk, ReclockInv, BeforeEnable, Nv3Inv, Nv3TypeOK
<1>9. CASE UNCHANGED nv3vars
  BY <1>9 DEF nv3vars, ReclockInv
<1> QED
  BY <1>1, <1>2, <1>3, <1>4, <1>5, <1>6, <1>7, <1>8, <1>9 DEF Nv3Next, Nv3Step, Returned

\* The first write of the test is its start, every later one adds one to n.
LEMMA WriteRaises == ASSUME Nv3Inv, ReclockInv, WriteMclk PROVE ReclockStep
<1> DEFINE n == clock.n
           m == clock.m
           start == ClockNStart(clock.is_14318mhz)
<1>1. at = "write_mclk" /\ chip'.mclk = Coeff(1, n, m) /\ n <= 255
  BY DEF WriteMclk, SetMclk, Go, clock_p, ClockNMax, Nv3Inv, Nv3TypeOK
<1>2. m \in {11, 14} /\ n \in Nat /\ start \in {163, 196} /\ n >= start
  BY <1>1, TestLocals DEF InTest
<1>3. chip.enable = NV3_PMC_ENABLE_ALL
  BY <1>1 DEF ReclockInv, BeforeEnable
<1>4. CASE n = start
  <2>1. n \in 0 .. 255 /\ m \in 0 .. 255
    BY <1>1, <1>2
  <2>2. NDiv(Coeff(1, n, m)) = n
    BY <2>1, CoeffFields
  <2> QED
    BY <1>1, <1>3, <1>4, <2>2 DEF ReclockStep, clock_p
<1>5. CASE chip.mclk = Coeff(1, n - 1, m)
  <2>1. n \in 0 .. 255 /\ n - 1 \in 0 .. 255 /\ m \in 0 .. 255
    BY <1>1, <1>2
  <2>2. NDiv(Coeff(1, n, m)) = n /\ NDiv(Coeff(1, n - 1, m)) = n - 1
    BY <2>1, CoeffFields
  <2>3. Coeff(1, n, m) = Coeff(1, n - 1, m) + 256
    BY <1>1, <1>2 DEF Coeff
  <2>4. n = (n - 1) + 1
    BY <1>2
  <2> QED
    BY <1>1, <1>3, <1>5, <2>2, <2>3, <2>4 DEF ReclockStep
<1> QED
  BY <1>1, <1>4, <1>5 DEF ReclockInv, clock_p

\* The base clock is put back after the write of n = 255.
LEMMA RestoreComesLast == ASSUME Nv3Inv, ReclockInv, RestoreMclk PROVE ReclockStep
<1> DEFINE n == clock.n
           m == clock.m
<1>1. at = "write_mclk" /\ n > 255 /\ chip'.mclk = BaseClock(clock.is_14318mhz)
  BY DEF RestoreMclk, SetMclk, Go, ClockNMax, Nv3Inv, Nv3TypeOK
<1>2. /\ m \in {11, 14} /\ n \in Nat /\ n <= 256
      /\ ClockNStart(clock.is_14318mhz) \in {163, 196}
  BY <1>1, TestLocals DEF InTest
<1>3. /\ n - 1 \in 0 .. 255 /\ n - 1 = 255 /\ m \in 0 .. 255
      /\ n # ClockNStart(clock.is_14318mhz)
  BY <1>1, <1>2
<1>4. chip.mclk = Coeff(1, n - 1, m) /\ chip.enable = NV3_PMC_ENABLE_ALL
  BY <1>1, <1>3 DEF ReclockInv, BeforeEnable, clock_p
<1>5. NDiv(chip.mclk) = 255
  <2>1. n - 1 \in 0 .. 255 /\ m \in 0 .. 255
    BY <1>3
  <2>2. NDiv(Coeff(1, n - 1, m)) = n - 1
    BY <2>1, CoeffFields
  <2> QED
    BY <1>3, <1>4, <2>2
<1> QED
  BY <1>1, <1>4, <1>5 DEF ReclockStep, ClockNMax

\* The memory clock of a card is raised one n at a time, while the card is powered,
\* and put back to the base clock from n = 255 only.
THEOREM ReclockIsGradual == Nv3Spec => ReclocksGradually
<1>1. Nv3Init => ReclockInv
  BY DEF Nv3Init, ReclockInv, BeforeEnable
<1>2. Nv3Inv /\ ReclockInv /\ [Nv3Next]_nv3vars => ReclockInv'
  BY ReclockKept
<1>3. Nv3Inv /\ ReclockInv /\ [Nv3Next]_nv3vars
        => [chip'.mclk = chip.mclk \/ ReclockStep]_nv3vars
  <2> SUFFICES ASSUME Nv3Inv, ReclockInv, [Nv3Next]_nv3vars, ~ UNCHANGED nv3vars
               PROVE  chip'.mclk = chip.mclk \/ ReclockStep
    OBVIOUS
  <2>1. CASE ReadBoot \/ SizeVram \/ ReadStraps \/ ReadClocks \/ SetDefaultMode \/ StartTest \/ Sleep
    BY <2>1 DEF ReadBoot, SizeVram, ReadStraps, ReadClocks, SetDefaultMode, StartTest, Sleep
  <2>2. CASE EnableSubsystems \/ EnableInterrupts
    BY <2>2 DEF EnableSubsystems, EnableInterrupts, Nv3Inv, Nv3TypeOK
  <2>3. CASE WriteMclk
    BY <2>3, WriteRaises
  <2>4. CASE RestoreMclk
    BY <2>4, RestoreComesLast
  <2> QED
    BY <2>1, <2>2, <2>3, <2>4 DEF Nv3Next, Nv3Step, Returned
<1> QED
  BY <1>1, <1>2, <1>3, Nv3Invariant, PTL DEF Nv3Spec, ReclocksGradually

=============================================================================
