-------------------------- MODULE MCWalletOperation --------------------------
(* WalletOperation for TLC: requests of one user that differ by nothing but *)
(* their ids.                                                              *)
EXTENDS WalletOperation, TLC

Symmetry == Permutations(Handlers) \cup Permutations(Ids)
=============================================================================
