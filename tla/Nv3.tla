-------------------------------- MODULE Nv3 ---------------------------------
(***************************************************************************)
(* Bring-up of the RIVA 128: nv3_init and nv3_init_test_overclock of       *)
(* nv3_core.c, from the first register read to the return of nv3_init.     *)
(*                                                                         *)
(* One action per statement group that touches the chip, so that another   *)
(* module can stop the bring-up between any two of them.  A register write *)
(* and the store of its shadow in nv3_state are one action: nothing reads  *)
(* nv3_state in between.                                                   *)
(***************************************************************************)
EXTENDS Nv3Ref, Nv3ModeTable

CONSTANTS
  BootRegs,    (* values NV3_PMC_BOOT may hold                             *)
  PfbBoots,    (* values NV3_PFB_BOOT may hold                             *)
  Straps,      (* values NV3_PSTRAPS may hold                              *)
  BiosClocks,  (* memory clock coefficients the VBIOS may have programmed  *)
  PmcEnables,  (* what the VBIOS may have left in NV3_PMC_ENABLE           *)
  IntrEnables  (* and in NV3_PMC_INTERRUPT_ENABLE                          *)

ASSUME RegistersAreWords ==
  /\ BootRegs \subseteq Nat
  /\ PfbBoots \subseteq Nat
  /\ Straps \subseteq Nat
  /\ BiosClocks \subseteq Nat
  /\ PmcEnables \subseteq Nat
  /\ IntrEnables \subseteq Nat

VARIABLES
  chip,            (* the registers of the chip that the program touches     *)
  found,           (* the chip as the program finds it                       *)
  current_device,  (* the fields of current_device that nv3_init fills in    *)
  nv3_state,       (* the static nv3_state of nv3_core.c                     *)
  clock,           (* the locals of nv3_init_test_overclock                  *)
  at               (* where the program is in nv3_init                       *)

nv3vars == <<chip, found, current_device, nv3_state, clock, at>>

Locations == {"read_boot", "size_vram", "read_straps", "read_clocks", "enable",
              "interrupts", "set_mode", "start_test", "write_mclk", "sleep",
              "done"}

NoMode == 12                \* current_mode is all zeros: no entry of mode_table
clock_p == 1
ClockNMax == 255            \* 0xFF, the bound of the loop on clock_n

-----------------------------------------------------------------------------
Nv3Init ==
  /\ chip \in [boot : BootRegs, pfb : PfbBoots, straps : Straps,
               mclk : BiosClocks, enable : PmcEnables, intr_en : IntrEnables]
  /\ found = chip
  /\ current_device = [nv_pmc_boot_0 |-> 0, nv_pfb_boot_0 |-> 0,
                       vram_amount |-> 0, straps |-> 0]
  /\ nv3_state = [revision |-> 0, vram_size |-> 0, vram_width |-> 0,
                  crystal_freq |-> 0, current_mode |-> NoMode, mpll |-> 0,
                  enabled_subsystems |-> 0]
  /\ clock = [n |-> 0, m |-> 0, is_14318mhz |-> FALSE]
  /\ at = "read_boot"

\* Every action moves the program from one location to another.
Go(from, to) == at = from /\ at' = to /\ found' = found

-----------------------------------------------------------------------------
ReadBoot ==
  /\ Go("read_boot", "size_vram")
  /\ current_device' = [current_device EXCEPT !.nv_pmc_boot_0 = chip.boot,
                                              !.nv_pfb_boot_0 = chip.pfb]
  /\ nv3_state' = [nv3_state EXCEPT !.revision = chip.boot]
  /\ UNCHANGED <<chip, clock>>

\* Fault: the last comparison forgotten, as 1 MB cards are rare.
VramSize_no_1MB(pfb, unmatched) ==
  CASE RamAmount(pfb) = 0 /\ RamExtension(pfb) = NV3_PFB_BOOT_RAM_EXTENSION_8MB
         -> NV3_VRAM_SIZE_8MB
    [] RamAmount(pfb) = NV3_PFB_BOOT_RAM_AMOUNT_4MB -> NV3_VRAM_SIZE_4MB
    [] RamAmount(pfb) = NV3_PFB_BOOT_RAM_AMOUNT_2MB -> NV3_VRAM_SIZE_2MB
    [] OTHER -> unmatched

\* The chain of comparisons that turns NV3_PFB_BOOT into a memory size.  The
\* undefined amount 3 matches no branch: the size keeps the value it had.
VramSize(pfb, unmatched) ==
  CASE RamAmount(pfb) = 0 /\ RamExtension(pfb) = NV3_PFB_BOOT_RAM_EXTENSION_8MB
         -> NV3_VRAM_SIZE_8MB
    [] RamAmount(pfb) = NV3_PFB_BOOT_RAM_AMOUNT_4MB -> NV3_VRAM_SIZE_4MB
    [] RamAmount(pfb) = NV3_PFB_BOOT_RAM_AMOUNT_2MB -> NV3_VRAM_SIZE_2MB
    [] RamAmount(pfb) = 0 /\ RamExtension(pfb) = NV3_PFB_BOOT_RAM_EXTENSION_NONE
         -> NV3_VRAM_SIZE_1MB
    [] OTHER -> unmatched

VramWidth(pfb) == IF RamWidth(pfb) = NV3_PFB_BOOT_RAM_WIDTH_128 THEN 128 ELSE 64

SizeVram ==
  LET pfb == current_device.nv_pfb_boot_0
  IN /\ Go("size_vram", "read_straps")
     /\ current_device' = [current_device EXCEPT !.vram_amount = VramSize(pfb, @)]
     /\ nv3_state' = [nv3_state EXCEPT !.vram_size = VramSize(pfb, @),
                                       !.vram_width = VramWidth(pfb)]
     /\ UNCHANGED <<chip, clock>>

ReadStraps ==
  /\ Go("read_straps", "read_clocks")
  /\ current_device' = [current_device EXCEPT !.straps = chip.straps]
  /\ UNCHANGED <<chip, nv3_state, clock>>

ReadClocks ==
  /\ Go("read_clocks", "enable")
  /\ nv3_state' = [nv3_state EXCEPT !.mpll = chip.mclk]
  /\ UNCHANGED <<chip, current_device, clock>>

EnableSubsystems ==
  /\ Go("enable", "interrupts")
  /\ chip' = [chip EXCEPT !.enable = NV3_PMC_ENABLE_ALL]
  /\ nv3_state' = [nv3_state EXCEPT !.enabled_subsystems = NV3_PMC_ENABLE_ALL]
  /\ UNCHANGED <<current_device, clock>>

EnableInterrupts ==
  /\ Go("interrupts", "set_mode")
  /\ chip' = [chip EXCEPT !.intr_en = NV3_PMC_INTERRUPT_ENABLE_ALL]
  /\ UNCHANGED <<current_device, nv3_state, clock>>

SetDefaultMode ==
  /\ Go("set_mode", "start_test")
  /\ nv3_state' = [nv3_state EXCEPT !.current_mode = NV3_MODE_640x480x16]
  /\ UNCHANGED <<chip, current_device, clock>>

-----------------------------------------------------------------------------
(***************************************************************************)
(* nv3_init_test_overclock: the straps give the crystal, the crystal gives *)
(* m and the first n; every n up to 255 is programmed and held for five    *)
(* seconds; then the 100 MHz coefficient of the crystal is programmed.     *)
(***************************************************************************)
CrystalFreq(is14318) == IF is14318 THEN 14318 ELSE 13500
ClockM(is14318)      == IF is14318 THEN 14 ELSE 11             \* 0x0E, 0x0B
ClockNStart(is14318) == IF is14318 THEN 196 ELSE 163           \* 0xC4, 0xA3
BaseClock(is14318)   == IF is14318 THEN NV3_TEST_OVERCLOCK_BASE_14318
                                   ELSE NV3_TEST_OVERCLOCK_BASE_13500

Is14318(straps) == CrystalStrap(straps) = 1

StartTest ==
  LET is14318 == Is14318(chip.straps)
  IN /\ Go("start_test", "write_mclk")
     /\ nv3_state' = [nv3_state EXCEPT !.crystal_freq = CrystalFreq(is14318)]
     /\ clock' = [n |-> ClockNStart(is14318), m |-> ClockM(is14318),
                  is_14318mhz |-> is14318]
     /\ UNCHANGED <<chip, current_device>>

\* Fault: the shadow is forgotten.
SetMclk_no_shadow(coeff) ==
  /\ chip' = [chip EXCEPT !.mclk = coeff]
  /\ UNCHANGED nv3_state

\* Program a coefficient and keep its shadow.
SetMclk(coeff) ==
  /\ chip' = [chip EXCEPT !.mclk = coeff]
  /\ nv3_state' = [nv3_state EXCEPT !.mpll = coeff]

\* Fault: one round too many, whose n does not fit its field.
WriteMclk_one_more ==
  /\ Go("write_mclk", "sleep")
  /\ clock.n <= ClockNMax + 1
  /\ SetMclk(Coeff(clock_p, clock.n, clock.m))
  /\ UNCHANGED <<current_device, clock>>

WriteMclk ==
  /\ Go("write_mclk", "sleep")
  /\ clock.n <= ClockNMax
  /\ SetMclk(Coeff(clock_p, clock.n, clock.m))
  /\ UNCHANGED <<current_device, clock>>

\* Fault: n is incremented twice a round.
Sleep_twice ==
  /\ Go("sleep", "write_mclk")
  /\ clock' = [clock EXCEPT !.n = @ + 2]
  /\ UNCHANGED <<chip, current_device, nv3_state>>

Sleep ==
  /\ Go("sleep", "write_mclk")
  /\ clock' = [clock EXCEPT !.n = @ + 1]
  /\ UNCHANGED <<chip, current_device, nv3_state>>

\* Fault: the shadow taken for the original clock.
RestoreMclk_from_shadow ==
  /\ Go("write_mclk", "done")
  /\ clock.n > ClockNMax
  /\ SetMclk(nv3_state.mpll)
  /\ UNCHANGED <<current_device, clock>>

RestoreMclk ==
  /\ Go("write_mclk", "done")
  /\ clock.n > ClockNMax
  /\ SetMclk(BaseClock(clock.is_14318mhz))
  /\ UNCHANGED <<current_device, clock>>

-----------------------------------------------------------------------------
Nv3Step ==
  \/ ReadBoot \/ SizeVram \/ ReadStraps \/ ReadClocks
  \/ EnableSubsystems \/ EnableInterrupts \/ SetDefaultMode
  \/ StartTest \/ WriteMclk \/ Sleep \/ RestoreMclk

\* nv3_init has returned true: the program only sleeps from here on.
Returned == at = "done" /\ UNCHANGED nv3vars

Nv3Next == Nv3Step \/ Returned

Nv3Spec == Nv3Init /\ [][Nv3Next]_nv3vars

\* nv3_init runs on the only thread of the process and blocks on nothing but
\* sleep(5): the scheduler always lets it take its next step.
Nv3FairSpec == Nv3Spec /\ WF_nv3vars(Nv3Step)

-----------------------------------------------------------------------------
(***************************************************************************)
(* Properties.                                                             *)
(***************************************************************************)

Coefficients == BiosClocks \cup {Coeff(clock_p, n, m) : n \in 163 .. 255, m \in {11, 14}}
VramSizes == {0, NV3_VRAM_SIZE_1MB, NV3_VRAM_SIZE_2MB, NV3_VRAM_SIZE_4MB,
              NV3_VRAM_SIZE_8MB}

\* The types of the registers, of the program's copies of them and of the locals.
Nv3TypeOK ==
  /\ chip \in [boot : BootRegs, pfb : PfbBoots, straps : Straps,
               mclk : Coefficients, enable : PmcEnables \cup {NV3_PMC_ENABLE_ALL},
               intr_en : IntrEnables \cup {NV3_PMC_INTERRUPT_ENABLE_ALL}]
  /\ found \in [boot : BootRegs, pfb : PfbBoots, straps : Straps,
                mclk : BiosClocks, enable : PmcEnables, intr_en : IntrEnables]
  /\ current_device \in [nv_pmc_boot_0 : BootRegs \cup {0},
                         nv_pfb_boot_0 : PfbBoots \cup {0},
                         vram_amount : VramSizes, straps : Straps \cup {0}]
  /\ nv3_state \in [revision : BootRegs \cup {0}, vram_size : VramSizes,
                    vram_width : {0, 64, 128}, crystal_freq : {0, 13500, 14318},
                    current_mode : {NoMode, NV3_MODE_640x480x16},
                    mpll : Coefficients \cup {0},
                    enabled_subsystems : {0, NV3_PMC_ENABLE_ALL}]
  /\ clock \in [n : 0 .. ClockNMax + 1, m : {0, 11, 14}, is_14318mhz : BOOLEAN]
  /\ at \in Locations

BeforeEnable == {"read_boot", "size_vram", "read_straps", "read_clocks", "enable"}

\* nv3_state and current_device describe the chip: once read, the shadow of the
\* memory clock is the register, and once written that of NV3_PMC_ENABLE, which is never
\* read; the two copies of the memory size agree, and the crystal frequency is the one
\* the straps select.
ShadowsAgree ==
  /\ at \notin BeforeEnable \ {"enable"} => nv3_state.mpll = chip.mclk
  /\ at \notin BeforeEnable => nv3_state.enabled_subsystems = chip.enable
  /\ nv3_state.vram_size = current_device.vram_amount
  /\ at \in {"write_mclk", "sleep", "done"}
       => nv3_state.crystal_freq = CrystalFreq(Is14318(chip.straps))

\* A coefficient that the reclocking test may run on a card: P is 1, M is the
\* divider of the card's own crystal, and the chip runs no slower than base.
SafeCoeff(straps, coeff) ==
  LET is14318 == Is14318(straps)
  IN /\ PDiv(coeff) = clock_p
     /\ VDiv(coeff) = ClockM(is14318)
     /\ Khz(CrystalFreq(is14318), coeff)
          >= Khz(CrystalFreq(is14318), BaseClock(is14318))

\* Whatever the card's straps, the memory clock is the one the VBIOS left or one
\* that is safe for this card's crystal: a coefficient of the other crystal, or
\* an n that does not fit its field, is never programmed.
ClockSafe == chip.mclk = found.mclk \/ SafeCoeff(chip.straps, chip.mclk)

\* A card whose memory amount is a defined value gets a size, and the default mode
\* fits into it.
DefaultModeFits ==
  at \notin {"read_boot", "size_vram"} /\ RamAmount(chip.pfb) # 3
    => current_device.vram_amount >= FrameBytes(mode_table[NV3_MODE_640x480x16])

\* The test raises the clock of a powered chip one n at a time and ends at base: a
\* coefficient that is programmed is the first of the test, the one after the current one,
\* or base after n = 255.
ReclockStep ==
  LET start == Coeff(clock_p, ClockNStart(clock.is_14318mhz), clock.m)
  IN /\ chip.enable = NV3_PMC_ENABLE_ALL
     /\ \/ chip'.mclk = start /\ at = "write_mclk" /\ clock.n = NDiv(start)
        \/ chip'.mclk = chip.mclk + 256 /\ NDiv(chip'.mclk) = NDiv(chip.mclk) + 1
        \/ chip'.mclk = BaseClock(clock.is_14318mhz) /\ NDiv(chip.mclk) = ClockNMax

ReclocksGradually == [][chip'.mclk = chip.mclk \/ ReclockStep]_nv3vars

\* Undisturbed, the bring-up ends with the chip at the base clock of its crystal
\* and stays there.
EndsAtBase == <>[](chip.mclk = BaseClock(Is14318(chip.straps)))

=============================================================================
