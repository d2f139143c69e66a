----------------------------- MODULE MCFeeLedger -----------------------------
(* TLC instances of FeeLedger. *)
EXTENDS FeeLedger, TLC

Symmetry == UNION {Permutations(S) : S \in {Workers, Flushes, Users, Payouts}}
=============================================================================
