----------------------- MODULE MCRegistryIntegration ------------------------
(* Three integrators, two of which ask for the same slot. *)
EXTENDS RegistryIntegration, TLC
CONSTANTS a, b, c
\* b and c ask for the same slot: nothing tells them apart when a is left out
MCSameSlot == Permutations({b, c})
MCSlotOf == (a :> 1) @@ (b :> 2) @@ (c :> 2)
=============================================================================
