---------------------------- MODULE MCGdbSession ----------------------------
(***************************************************************************)
(* Three requests of the debugger, one break byte and up to two tokens     *)
(* lost or damaged on the line.                                            *)
(***************************************************************************)
EXTENDS GdbSession
=============================================================================
