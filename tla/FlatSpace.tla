----------------------------- MODULE FlatSpace ------------------------------
(***************************************************************************)
(* What nv_mmio_read32 and nv_mmio_write32 promise to the driver: a flat   *)
(* space of independent words.  A word that is open reads as the last      *)
(* value written to it, whatever is written elsewhere; a word that is not  *)
(* reads as all ones, and what is written to it is lost.                   *)
(***************************************************************************)
CONSTANTS Addresses, Values, AllOnes

VARIABLES
  store,    (* the word at each address                                     *)
  open,     (* the addresses that can be accessed now                       *)
  result    (* what the last read returned                                  *)

flatvars == <<store, open, result>>

FlatInit ==
  /\ store \in [Addresses -> Values]
  /\ open = {}
  /\ result = AllOnes

FlatRead(a) ==
  /\ result' = IF a \in open THEN store[a] ELSE AllOnes
  /\ UNCHANGED <<store, open>>

FlatWrite(a, v) ==
  /\ store' = IF a \in open THEN [store EXCEPT ![a] = v] ELSE store
  /\ UNCHANGED <<open, result>>

\* Mappings come and go; the words stay.
Reopen ==
  /\ open' \in SUBSET Addresses
  /\ UNCHANGED <<store, result>>

FlatNext ==
  \/ \E a \in Addresses : FlatRead(a) \/ \E v \in Values : FlatWrite(a, v)
  \/ Reopen

FlatSpec == FlatInit /\ [][FlatNext]_flatvars
=============================================================================
