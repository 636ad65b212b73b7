----------------------------- MODULE Lifecycle ------------------------------
(***************************************************************************)
(* What nvplayground promises about the resources of its process, whatever *)
(* their number, the path main takes and the signals that arrive: it       *)
(* acquires while it goes up, only releases once it goes down, gives back  *)
(* all but at most one (the one whose acquisition a signal cut short), and *)
(* having begun to go down it ends.                                        *)
(***************************************************************************)
CONSTANT Resource

VARIABLES
  owned,    (* the resources the process holds                              *)
  phase     (* "up", "down", "ended" by exit or "crashed"                   *)

lvars == <<owned, phase>>

LInit == owned = {} /\ phase = "up"

Acquire(r) ==
  /\ phase = "up"
  /\ r \notin owned
  /\ owned' = owned \cup {r}
  /\ UNCHANGED phase

TurnDown ==
  /\ phase = "up"
  /\ phase' = "down"
  /\ UNCHANGED owned

Release(r) ==
  /\ phase = "down"
  /\ r \in owned
  /\ owned' = owned \ {r}
  /\ UNCHANGED phase

End ==
  /\ phase = "down"
  /\ \E r \in Resource : owned \subseteq {r}
  /\ phase' = "ended"
  /\ UNCHANGED owned

Crash ==
  /\ phase = "down"
  /\ phase' = "crashed"
  /\ UNCHANGED owned

GoDown == (\E r \in Resource : Release(r)) \/ End \/ Crash

LNext == (\E r \in Resource : Acquire(r)) \/ TurnDown \/ GoDown

LSpec     == LInit /\ [][LNext]_lvars
LFairSpec == LSpec /\ WF_lvars(GoDown)
=============================================================================
