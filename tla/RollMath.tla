------------------------------ MODULE RollMath -------------------------------
(***************************************************************************)
(* What a settled roll computes: the shares of its profit (allocation.go)  *)
(* and the next bet (runtime.go Advance).  Amounts are atomic units.       *)
(***************************************************************************)
EXTENDS Integers

CONSTANT Whole   \* basis points of a whole, 10_000 in the code

Results == {"WIN", "LOSS"}

\* percentageOf: rounded down.
PercentageOf(amount, bps) == (amount * bps) \div Whole

RuleOK(rule) ==
  /\ rule.holding \in Nat /\ rule.kangden \in Nat
  /\ rule.holding + rule.kangden <= Whole

Shares(gross, holding, kangden) ==
  [user |-> gross - holding - kangden, holding |-> holding, kangden |-> kangden]

\* A loss, or the roll of the exempt user, is the user's alone; what rounding
\* leaves is the user's too.
AllocateProfit(gross, rule, exempt) ==
  IF gross <= 0 \/ exempt
    THEN Shares(gross, 0, 0)
    ELSE Shares(gross, PercentageOf(gross, rule.holding),
                       PercentageOf(gross, rule.kangden))

\* A bet after its martingale rate, a percentage to add.
ApplyRate(amount, percent) == (amount * (100 + percent)) \div 100

\* rate, resetAfter, boomAfter and boomAmount: what the settings ask for after a
\* result; 0 in the last three switches the rule off.
RuntimeConfig ==
  [base : Nat \ {0}, rate : [Results -> Nat], resetAfter : [Results -> Nat],
   boomAfter : [Results -> Nat], boomAmount : [Results -> Nat],
   profitSession : Nat]

Streak(state, result) == IF state.last = result THEN state.streak + 1 ELSE 1

ResetsAfter(config, result, streak) ==
  config.resetAfter[result] > 0 /\ streak % config.resetAfter[result] = 0

BoomsAfter(config, result, streak) ==
  /\ config.boomAfter[result] > 0 /\ config.boomAfter[result] = streak
  /\ config.boomAmount[result] > 0

\* A manual reset comes before every rule; boom overrides reset and rate.
NextBet(config, state, result) ==
  LET streak == Streak(state, result) IN
  IF state.reset THEN config.base
  ELSE IF BoomsAfter(config, result, streak) THEN config.boomAmount[result]
  ELSE IF ResetsAfter(config, result, streak) THEN config.base
  ELSE ApplyRate(state.bet, config.rate[result])

\* The end of a profit session starts again from the base.
Advance(config, state, result, net) ==
  LET cycle == state.cycle + net
      full  == config.profitSession > 0 /\ cycle >= config.profitSession
  IN [bet    |-> IF full THEN config.base ELSE NextBet(config, state, result),
      cycle  |-> IF full THEN 0 ELSE cycle,
      streak |-> IF state.reset THEN 0 ELSE Streak(state, result),
      last   |-> IF state.reset THEN "" ELSE result]
=============================================================================
