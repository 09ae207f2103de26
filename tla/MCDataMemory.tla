----------------------------- MODULE MCDataMemory -----------------------------
(* DataMemory for TLC. *)
EXTENDS DataMemory, TLC

\* One array of each length.
Arrays == {<<1>>, <<0, 1>>, <<0, 0, 1, 0>>}

CoreSymmetry == Permutations(Cores)

=============================================================================
