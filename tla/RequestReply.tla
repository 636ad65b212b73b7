---------------------------- MODULE RequestReply ----------------------------
(***************************************************************************)
(* What a debugger wants of the stub: it asks for one thing at a time, the *)
(* stub does it, and the answer the debugger takes is the answer to that   *)
(* request and comes after it was done.                                    *)
(***************************************************************************)
EXTENDS Naturals

VARIABLES
  request,   (* the number of the last request                              *)
  done,      (* the last request the stub has carried out                   *)
  answer     (* the request whose answer the debugger took last             *)

rrvars == <<request, done, answer>>

RRInit == request = 0 /\ done = 0 /\ answer = 0

Request ==
  /\ answer = request
  /\ request' = request + 1
  /\ UNCHANGED <<done, answer>>

Do ==
  /\ done < request
  /\ done' = request
  /\ UNCHANGED <<request, answer>>

Answered ==
  /\ answer < request
  /\ done = request
  /\ answer' = request
  /\ UNCHANGED <<request, done>>

RRNext == Request \/ Do \/ Answered
RRSpec == RRInit /\ [][RRNext]_rrvars
=============================================================================
