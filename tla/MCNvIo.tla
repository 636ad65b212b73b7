------------------------------- MODULE MCNvIo -------------------------------
(***************************************************************************)
(* The register space at its seams: the first and the last word of every   *)
(* window, the word after the MMIO window, and both ends of the hole       *)
(* between VRAM and RAMIN.                                                 *)
(***************************************************************************)
EXTENDS NvIo

MCAddresses == {\h0, \hFFFFFC, \h1000000, \h17FFFFC, \h1800000, \h1BFFFFC,
                \h1C00000, \h1FFFFFC, \h2000000}
MCValues == {0, 1}
=============================================================================
