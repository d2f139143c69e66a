--------------------------- MODULE MCSessionControl ---------------------------
(* TLC instances of SessionControl. *)
EXTENDS SessionControl, TLC

Each(win, loss) == [r \in Results |-> IF r = "WIN" THEN win ELSE loss]

\* The base after every win, half as much again after a loss; a profit to take, a
\* largest bet and a balance to stop at.
Cautious ==
  [base |-> 2, rate |-> Each(0, 50), resetAfter |-> Each(1, 0),
   boomAfter |-> Each(0, 0), boomAmount |-> Each(0, 0), profitSession |-> 0,
   maximumBet |-> 4, takeProfit |-> 3, stopLoss |-> 0, balanceBelow |-> 2]

\* Another base; a boom after a second loss, a loss to stop at, short cycles.
Booming ==
  [Cautious EXCEPT !.base = 3, !.boomAfter = Each(0, 2), !.boomAmount = Each(0, 3),
                   !.profitSession = 2, !.takeProfit = 0, !.stopLoss = 2,
                   !.maximumBet = 0, !.balanceBelow = 0]

MCProfiles == {Cautious, Booming}
MCRule == [holding |-> 2, kangden |-> 1]

Symmetry == Permutations(Savers)
=============================================================================
