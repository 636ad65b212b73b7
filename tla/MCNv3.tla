------------------------------- MODULE MCNv3 --------------------------------
(***************************************************************************)
(* Bring-up of a card alone: every value of the fields of NV3_PFB_BOOT     *)
(* that nv3_init decodes (bits 0 to 5), both crystals with the other       *)
(* strap bits clear and set, and three clocks a VBIOS leaves: the two 100  *)
(* MHz coefficients and 0x0EC40E, the one of the virtual card.  The VBIOS  *)
(* has posted the card or not.                                             *)
(***************************************************************************)
EXTENDS Nv3

MCBootRegs   == {\h00030110}
MCPfbBoots   == 0 .. 63
MCStraps     == {\h00, \h43, \hBF}
MCBiosClocks == {\h01A30B, \h01C40E, \h0EC40E}
MCPmcEnables == {0, \h01111101}
MCIntrEnables == {0, 1}
=============================================================================
