----------------------------- MODULE MCGdbStub ------------------------------
(***************************************************************************)
(* Two places in the program, two values, two bytes of memory and one that *)
(* is not there, one exception for each of the four signals.               *)
(***************************************************************************)
EXTENDS GdbStub

MCEips       == {"a", "b"}
MCValues     == {"x", "y"}
MCAddresses  == 0 .. 2
MCMapped     == 0 .. 1
MCExceptions == {0, 3, 6, 14}
=============================================================================
