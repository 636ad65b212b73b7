------------------------------- MODULE Nv3Ref -------------------------------
(***************************************************************************)
(* The hardware facts of the RIVA 128 (NV3) that nv3_core.c relies on: the *)
(* fields of the registers it decodes, the memory sizes, and the memory    *)
(* clock coefficient (MPLL).  Source: nv3_ref.h and nv3.h.                 *)
(*                                                                         *)
(* A shift-and-mask of the source, (v >> k) & (2^w - 1), is written with   *)
(* the powers of two in place: (v \div 2^k) % 2^w.                         *)
(***************************************************************************)
EXTENDS Naturals

\* Fields of NV3_PFB_BOOT: memory amount, bus width, 8 MB extension.
RamAmount(pfb)    == pfb % 4
RamWidth(pfb)     == (pfb \div 4) % 2
RamExtension(pfb) == (pfb \div 32) % 2

NV3_PFB_BOOT_RAM_AMOUNT_2MB     == 1
NV3_PFB_BOOT_RAM_AMOUNT_4MB     == 2
NV3_PFB_BOOT_RAM_WIDTH_128      == 1
NV3_PFB_BOOT_RAM_EXTENSION_NONE == 0
NV3_PFB_BOOT_RAM_EXTENSION_8MB  == 1

NV3_VRAM_SIZE_1MB == \h100000
NV3_VRAM_SIZE_2MB == \h200000
NV3_VRAM_SIZE_4MB == \h400000
NV3_VRAM_SIZE_8MB == \h800000

\* The crystal bit (bit 6) of NV3_PSTRAPS: 1 is 14.318 MHz, 0 is 13.5 MHz.
CrystalStrap(straps) == (straps \div 64) % 2

NV3_PMC_ENABLE_ALL           == \h11111111
NV3_PMC_INTERRUPT_ENABLE_ALL == \h3      \* HARDWARE | SOFTWARE

-----------------------------------------------------------------------------
(***************************************************************************)
(* The memory clock coefficient NV3_PRAMDAC_CLOCK_MEMORY: VDIV (m) in bits *)
(* 7:0, NDIV (n) in bits 15:8, PDIV (p) in bits 18:16.  Coeff builds it as *)
(* nv3_init_test_overclock does, by an OR of the shifted values without a  *)
(* mask, for m < 256 and n < 512: what n has above its eight bits is one   *)
(* bit, which falls on the lowest bit of p.                                *)
(***************************************************************************)
OrOne(p) == (p + 1) - (p % 2)

Coeff(p, n, m) == (IF n > 255 THEN OrOne(p) ELSE p) * 65536 + (n % 256) * 256 + m

VDiv(coeff) == coeff % 256
NDiv(coeff) == (coeff \div 256) % 256
PDiv(coeff) == (coeff \div 65536) % 8

Pow2 == <<1, 2, 4, 8, 16, 32, 64, 128>>

\* The frequency in kHz that a coefficient gives with a crystal of freq kHz.
Khz(freq, coeff) == (freq * NDiv(coeff)) \div (VDiv(coeff) * Pow2[PDiv(coeff) + 1])

NV3_TEST_OVERCLOCK_BASE_13500 == \h01A30B
NV3_TEST_OVERCLOCK_BASE_14318 == \h01C40E
=============================================================================
