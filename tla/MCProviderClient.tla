--------------------------- MODULE MCProviderClient ---------------------------
(* TLC instances of ProviderClient. *)
EXTENDS ProviderClient, TLC

Symmetry == Permutations(Readers)
=============================================================================
