--------------------------- MODULE MCCommandQueue ---------------------------
(* CommandQueue for TLC: two workers, two requests.  No symmetry: the run   *)
(* checks a liveness property.                                             *)
EXTENDS CommandQueue

=============================================================================
