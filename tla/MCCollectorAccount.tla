------------------------- MODULE MCCollectorAccount -------------------------
(* TLC instances of CollectorAccount. *)
EXTENDS CollectorAccount, TLC

CONSTANTS ann, ben

\* Ann referred Ben.
MCReferrer == [u \in Users |-> IF u = ben THEN ann ELSE Nobody]

\* The first level pays nothing: the second level's bonus goes to the referrer.
MCReferral == <<0, 1>>

\* One owner by percentage, and the rest.
MCShare == <<3>>

Symmetry == Permutations(Processes)
=============================================================================
