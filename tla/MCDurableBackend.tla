-------------------------- MODULE MCDurableBackend --------------------------
(* Model-checking instances of DurableBackend. *)
EXTENDS DurableBackend, TLC

Symmetry == Permutations(ClaimIDs) \cup Permutations(Owners)

=============================================================================
