--------------------------- MODULE MCTradingEngine ---------------------------
(* TLC instances of TradingEngine. *)
EXTENDS TradingEngine, TLC

\* Sound where Repeated is empty or all of StartRequests.
Symmetry ==
  UNION {Permutations(S) :
           S \in {Workers, Sessions, Bets, Runners, StartRequests, StopRequests}}
=============================================================================
