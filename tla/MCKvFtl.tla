------------------------------ MODULE MCKvFtl -------------------------------
(* Instances of KvFtl for TLC. *)
EXTENDS KvFtl, TLC

CONSTANTS KeyA, KeyB, KeyC

\* Two keys meet in the last slot, the third one in the slot they spill to.
TwoChains == (KeyA :> 3) @@ (KeyB :> 3) @@ (KeyC :> 0)

FilterSets == {{KeyA, KeyB, KeyC}}
=============================================================================
