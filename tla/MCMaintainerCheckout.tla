------------------------ MODULE MCMaintainerCheckout ------------------------
(* Three integrators, two of which ask for the same slot. *)
EXTENDS MaintainerCheckout, TLC
CONSTANTS a, b, c
\* b and c ask for the same slot, and nothing else tells them apart
MCSameSlot == Permutations({b, c})
MCSlotOf == (a :> 1) @@ (b :> 2) @@ (c :> 2)
=============================================================================
