------------------------- MODULE SessionControlProofs -------------------------
(***************************************************************************)
(* Proofs about RollMath and SessionControl, for all settings, rules,      *)
(* amounts and any number of savers and callers: the shares of a profit    *)
(* add up; types; the profit of the session is that of its bets; a RESET   *)
(* is honoured; an override is staked once; a limit is passed by a crash   *)
(* only.                                                                   *)
(***************************************************************************)
EXTENDS SessionControl, TLAPS

-----------------------------------------------------------------------------
(* Shares and next bets *)

\* A share, rounded down, is a natural number and no more than its percentage.
LEMMA PercentageBounds ==
  ASSUME NEW amount \in Nat, NEW bps \in Nat, Whole \in Nat \ {0}
  PROVE  /\ PercentageOf(amount, bps) \in Nat
         /\ PercentageOf(amount, bps) * Whole <= amount * bps
<1>1. amount * bps \in Nat
  OBVIOUS
<1> QED BY <1>1 DEF PercentageOf

\* The three shares of every profit are the profit, and none takes from the user
\* what he did not win (allocation.go AllocateProfit: "any atomic-unit rounding
\* remainder stays with the user").
THEOREM AllocationAddsUp ==
  ASSUME NEW gross \in Int, NEW rule, RuleOK(rule), NEW exempt \in BOOLEAN,
         Whole \in Nat \ {0}
  PROVE  LET a == AllocateProfit(gross, rule, exempt) IN
         /\ a.user \in Int /\ a.holding \in Nat /\ a.kangden \in Nat
         /\ a.user + a.holding + a.kangden = gross
         /\ gross >= 0 => a.user >= 0
<1> DEFINE h == PercentageOf(gross, rule.holding)
           k == PercentageOf(gross, rule.kangden)
<1>1. CASE gross <= 0 \/ exempt
  BY <1>1 DEF AllocateProfit, Shares
<1>2. CASE ~(gross <= 0 \/ exempt)
  <2>1. gross \in Nat /\ rule.holding \in Nat /\ rule.kangden \in Nat
    BY <1>2 DEF RuleOK
  <2>2. /\ h \in Nat /\ h * Whole <= gross * rule.holding
        /\ k \in Nat /\ k * Whole <= gross * rule.kangden
    BY <2>1, PercentageBounds
  <2>3. gross * rule.holding + gross * rule.kangden <= gross * Whole
    <3>1. gross * (rule.holding + rule.kangden) <= gross * Whole
      BY <2>1 DEF RuleOK
    <3> QED BY <2>1, <3>1
  <2> HIDE DEF h, k
  <2>4. (h + k) * Whole <= gross * Whole
    <3>1. (h + k) * Whole = h * Whole + k * Whole
      BY <2>2
    <3>2. /\ h * Whole \in Nat /\ k * Whole \in Nat /\ gross * Whole \in Nat
          /\ gross * rule.holding \in Nat /\ gross * rule.kangden \in Nat
      BY <2>1, <2>2
    <3> QED BY <2>2, <2>3, <3>1, <3>2
  <2>5. h + k <= gross
    BY <2>1, <2>2, <2>4
  <2>6. AllocateProfit(gross, rule, exempt) = Shares(gross, h, k)
    BY <1>2 DEF AllocateProfit, h, k
  <2>7. Shares(gross, h, k) = [user |-> gross - h - k, holding |-> h, kangden |-> k]
    BY DEF Shares
  <2>8. gross - h - k + h + k = gross /\ gross - h - k >= 0
    BY <2>1, <2>2, <2>5
  <2> QED BY <2>1, <2>2, <2>6, <2>7, <2>8
<1> QED BY <1>1, <1>2

\* A rate keeps a bet positive (runtime.go applyRate).
LEMMA RatePositive ==
  ASSUME NEW bet0 \in Nat \ {0}, NEW percent \in Nat
  PROVE  ApplyRate(bet0, percent) \in Nat \ {0}
<1>1. bet0 * (100 + percent) = bet0 * 100 + bet0 * percent
  OBVIOUS
<1>2. bet0 * percent \in Nat
  OBVIOUS
<1> QED BY <1>1, <1>2 DEF ApplyRate

\* Whatever the settings, the next bet is positive, and after a RESET it is the
\* base (runtime.go Advance, ManualReset).
LEMMA NextBetPositive ==
  ASSUME NEW config \in Settings,
         NEW state, state.bet \in Nat \ {0}, state.reset \in BOOLEAN,
         NEW result \in Results
  PROVE  /\ NextBet(config, state, result) \in Nat \ {0}
         /\ state.reset => NextBet(config, state, result) = config.base
<1>1. /\ config.base \in Nat \ {0}
      /\ config.rate[result] \in Nat /\ config.boomAmount[result] \in Nat
  BY DEF Settings
<1>2. ApplyRate(state.bet, config.rate[result]) \in Nat \ {0}
  BY <1>1, RatePositive
<1> DEFINE b == BoomsAfter(config, result, Streak(state, result))
           r == ResetsAfter(config, result, Streak(state, result))
<1>3. b => config.boomAmount[result] > 0
  BY DEF BoomsAfter
<1>4. NextBet(config, state, result) =
        IF state.reset THEN config.base ELSE IF b THEN config.boomAmount[result]
        ELSE IF r THEN config.base ELSE ApplyRate(state.bet, config.rate[result])
  BY Zenon DEF NextBet
<1> HIDE DEF b, r
<1>5. CASE state.reset
  BY <1>1, <1>4, <1>5
<1>6. CASE ~state.reset /\ b
  BY <1>1, <1>3, <1>4, <1>6
<1>7. CASE ~state.reset /\ ~b /\ r
  BY <1>1, <1>4, <1>7
<1>8. CASE ~state.reset /\ ~b /\ ~r
  BY <1>2, <1>4, <1>8
<1> QED BY <1>5, <1>6, <1>7, <1>8

\* The state of the next roll is typed, and its bet is the base after a RESET.
LEMMA AdvanceTyped ==
  ASSUME NEW config \in Settings,
         NEW state, state.bet \in Nat \ {0}, state.cycle \in Int,
         state.streak \in Nat, state.reset \in BOOLEAN,
         NEW result \in Results, NEW net \in Int
  PROVE  /\ Advance(config, state, result, net).bet \in Nat \ {0}
         /\ Advance(config, state, result, net).cycle \in Int
         /\ Advance(config, state, result, net).streak \in Nat
         /\ Advance(config, state, result, net).last \in Results \cup {""}
         /\ state.reset => Advance(config, state, result, net).bet = config.base
<1> DEFINE n == Advance(config, state, result, net)
<1>1. config.base \in Nat \ {0} /\ config.profitSession \in Nat
  BY DEF Settings
<1>2. /\ NextBet(config, state, result) \in Nat \ {0}
      /\ state.reset => NextBet(config, state, result) = config.base
  BY NextBetPositive
<1>3. Streak(state, result) \in Nat
  BY DEF Streak
<1>4. n.bet = config.base \/ n.bet = NextBet(config, state, result)
  BY Zenon DEF Advance
<1>c. n.cycle = 0 \/ n.cycle = state.cycle + net
  BY Zenon DEF Advance
<1>s. n.streak = 0 \/ n.streak = Streak(state, result)
  BY Zenon DEF Advance
<1>l. n.last = "" \/ n.last = result
  BY Zenon DEF Advance
<1> HIDE DEF n
<1>5. n.bet \in Nat \ {0} /\ (state.reset => n.bet = config.base)
  BY <1>1, <1>2, <1>4
<1>6. n.cycle \in Int
  BY <1>c
<1>7. n.streak \in Nat
  BY <1>3, <1>s
<1>8. n.last \in Results \cup {""}
  BY <1>l
<1> QED BY <1>5, <1>6, <1>7, <1>8 DEF n

-----------------------------------------------------------------------------
(* Types *)

\* While a roll works it has a bet to make, and an override if it is to take one.
Active ==
  /\ runner.pc \in {"reset", "override", "prepare", "send", "answer", "settle"}
       => runner.bet > 0
  /\ runner.pc = "override" => runner.override > 0

Typed == TypeOK /\ Active

\* Values the types are made of.
LEMMA Atoms ==
  /\ 0 \in Nat /\ 0 \in Int /\ TRUE \in BOOLEAN /\ FALSE \in BOOLEAN
  /\ {} \in SUBSET Nat
  /\ "" \in LastResult /\ \A a \in Results : a \in LastResult
  /\ "RUNNING" \in Status /\ "COMPLETED" \in Status
<1>1. 0 \in Nat /\ 0 \in Int /\ TRUE \in BOOLEAN /\ FALSE \in BOOLEAN
  OBVIOUS
<1>2. {} \in SUBSET Nat
  OBVIOUS
<1>3. "" \in LastResult /\ \A a \in Results : a \in LastResult
  BY Zenon DEF LastResult
<1>4. "RUNNING" \in Status /\ "COMPLETED" \in Status
  BY DEF Status
<1> QED BY <1>1, <1>2, <1>3, <1>4

\* A runner without a roll is typed.
LEMMA RestingTyped ==
  ASSUME NEW pc \in RunnerPC
  PROVE  Resting(pc) \in Runner /\ Resting(pc).pc = pc
<1>1. (CHOOSE p \in Profiles : TRUE) \in Settings
  BY ControlAssumption, Zenon
<1> QED BY <1>1, Atoms, Zenon DEF Resting, Runner

\* The first state is typed.
LEMMA TypedInit == Init => Typed
<1> SUFFICES ASSUME Init PROVE Typed
  OBVIOUS
<1>1. saved \in Settings
  BY ControlAssumption DEF Init
<1>3. session \in Session
  <2>1. saved.base \in Nat \ {0}
    BY <1>1 DEF Settings
  <2>2. Opening \in Nat
    BY ControlAssumption
  <2> QED BY <1>1, <2>1, <2>2, Atoms, Zenon DEF Init, Session
<1>4. runner \in Runner /\ runner.pc = "asleep"
  BY RestingTyped DEF Init, RunnerPC
<1>5. saver \in [Savers -> Saver]
  <2>1. (CHOOSE p \in Profiles : TRUE) \in Settings
    BY ControlAssumption, Zenon
  <2> QED BY <2>1 DEF Init, Saver, IdleSaver
<1>6. account \in Account
  BY Atoms, Zenon DEF Init, Account
<1>c. bet \in Bet
  BY Atoms, Zenon DEF Init, Bet, NoBet
<1>7. books \in [gross : Int, user : Int, fees : Nat]
  BY Atoms, Zenon DEF Init
<1>8. resetting \in [Callers -> {"no", "flag", "row"}]
  BY DEF Init
<1>9. /\ rolls \in 0..MaxRolls /\ saves \in 0..MaxSaves
      /\ commands \in 0..MaxCommands /\ crashes \in 0..MaxCrashes
  <2>1. /\ MaxRolls \in Nat /\ MaxSaves \in Nat /\ MaxCommands \in Nat
        /\ MaxCrashes \in Nat
    BY ControlAssumption
  <2>2. rolls = 0 /\ saves = 0 /\ commands = 0 /\ crashes = 0
    BY DEF Init
  <2> QED BY <2>1, <2>2
<1> QED BY <1>1, <1>3, <1>4, <1>5, <1>6, <1>7, <1>c, <1>8, <1>9 DEF Typed, TypeOK, Active

\* Completing the session keeps its type.
LEMMA CompleteTyped ==
  ASSUME session \in Session, Complete PROVE session' \in Session
BY DEF Complete, Session, Status

\* Every step keeps the types.
LEMMA TypedStep == Typed /\ [Next]_vars => Typed'
<1> SUFFICES ASSUME Typed, [Next]_vars PROVE Typed'
  OBVIOUS
<1> USE DEF Typed
<1>1. CASE ReadSession
  <2>1. CASE ~Running
    <3>1. session' \in Session
      BY <1>1, <2>1, CompleteTyped DEF ReadSession, TypeOK
    <3>2. runner' \in Runner /\ runner'.pc = "ended"
      BY <1>1, <2>1, RestingTyped DEF ReadSession, End, RunnerPC
    <3> QED BY <1>1, <2>1, <3>1, <3>2
          DEF ReadSession, TypeOK, Active, commanding, bounds
  <2>2. CASE Running
    <3> DEFINE pc == AfterRead(session.reset, session.override)
    <3>1. pc \in {"reset", "override", "prepare"}
          /\ (pc = "override" => session.override > 0)
      BY DEF AfterRead
    <3>2. Resting(pc) \in Runner /\ Resting(pc).pc = pc
      BY <3>1, RestingTyped DEF RunnerPC
    <3> HIDE DEF pc
    <3>3. account.owed \in SUBSET Nat /\ account' \in Account
      BY <1>1, <2>2 DEF ReadSession, TypeOK, Account
    <3>4. session \in Session
      BY DEF TypeOK
    <3>s. /\ session.snapshot \in Settings /\ session.bet \in Nat
          /\ session.cycle \in Int /\ session.streak \in Nat
          /\ session.last \in LastResult /\ session.override \in Nat
          /\ session.reset \in BOOLEAN /\ session.profit \in Int
      BY <3>4 DEF Session
    <3> DEFINE owes == IF session.override > 0 THEN {} ELSE account.owed
    <3>o. owes \in SUBSET Nat
      BY <3>3
    <3>r. runner' = [Resting(pc)
             EXCEPT !.settings = session.snapshot, !.bet = session.bet,
                    !.cycle = session.cycle, !.streak = session.streak,
                    !.last = session.last, !.override = session.override,
                    !.reset = session.reset, !.profit = session.profit,
                    !.owes = owes]
      BY <1>1, <2>2, Zenon DEF ReadSession, pc
    <3> HIDE DEF owes
    <3>5. runner' \in Runner /\ runner'.pc = pc /\ runner'.bet = session.bet
          /\ runner'.override = session.override
      BY <3>2, <3>s, <3>o, <3>r, Zenon DEF Runner
    <3>6. session.bet > 0
      BY <3>4 DEF Session
    <3> QED BY <1>1, <2>2, <3>1, <3>3, <3>5, <3>6
          DEF ReadSession, TypeOK, Active, commanding, bounds
  <2> QED BY <2>1, <2>2
<1>2. CASE ApplyReset
  <2>1. runner \in Runner /\ session \in Session /\ runner.settings \in Settings
    BY DEF TypeOK, Runner
  <2>2. runner.settings.base \in Nat \ {0}
    BY <2>1 DEF Settings
  <2> DEFINE pc == AfterRead(FALSE, runner.override)
  <2>3. pc \in {"override", "prepare"} /\ (pc = "override" => runner.override > 0)
    BY DEF AfterRead
  <2>4. runner' \in Runner /\ runner'.pc = pc
        /\ runner'.bet = runner.settings.base /\ runner'.override = runner.override
    <3>1. pc \in RunnerPC /\ runner.settings.base \in Nat
      BY <2>2, <2>3 DEF RunnerPC
    <3>2. runner' = [runner EXCEPT !.pc = pc,
                       !.bet = runner.settings.base, !.streak = 0, !.last = ""]
      BY <1>2 DEF ApplyReset
    <3> HIDE DEF pc
    <3> QED BY <2>1, <3>1, <3>2, Atoms, Zenon DEF Runner
  <2>5. session' \in Session
    BY <1>2, <2>1, <2>2, Atoms, Zenon DEF ApplyReset, Session
  <2> HIDE DEF pc
  <2>6. Active'
    BY <2>2, <2>3, <2>4 DEF Active
  <2> QED BY <1>2, <2>4, <2>5, <2>6 DEF ApplyReset, TypeOK, commanding, bounds
<1>3. CASE ApplyOverride
  <2>1. runner' \in Runner /\ runner'.pc = "prepare" /\ runner'.bet > 0
    BY <1>3 DEF ApplyOverride, TypeOK, Active, Runner, RunnerPC
  <2>2. session' \in Session
    <3>1. session \in Session /\ runner.override \in Nat \ {0}
      BY <1>3 DEF ApplyOverride, TypeOK, Active, Runner
    <3>2. session' = [session EXCEPT !.override = 0, !.bet = runner.override]
      BY <1>3 DEF ApplyOverride, NoOverride
    <3> QED BY <3>1, <3>2, Atoms, Zenon DEF Session
  <2>3. account' \in Account
    BY <1>3 DEF ApplyOverride, TypeOK, Account
  <2> QED BY <1>3, <2>1, <2>2, <2>3
        DEF ApplyOverride, TypeOK, Active, commanding, bounds
<1>4. CASE Prepare
  <2>1. CASE Affordable /\ WithinMaximum /\ Running
    <3>1. runner' \in Runner /\ runner'.pc = "send" /\ runner'.bet > 0
      <4>1. runner \in Runner /\ runner.bet > 0 /\ session.visible \in Nat
        BY <1>4 DEF Prepare, TypeOK, Active, Session
      <4>2. runner' = [runner EXCEPT !.pc = "send", !.available = session.visible]
        BY <1>4, <2>1 DEF Prepare
      <4>3. "send" \in RunnerPC
        BY DEF RunnerPC
      <4> QED BY <4>1, <4>2, <4>3, Zenon DEF Runner
    <3>2. account' \in Account
      BY <1>4, <2>1 DEF Prepare, TypeOK, Account
    <3>3. bet' \in Bet
      BY <1>4, <2>1 DEF Prepare, TypeOK, Bet, Pending, Runner
    <3>4. rolls' \in 0..MaxRolls
      BY <1>4, <2>1, ControlAssumption DEF Prepare, TypeOK
    <3> QED BY <1>4, <2>1, <3>1, <3>2, <3>3, <3>4
          DEF Prepare, TypeOK, Active, commanding
  <2>2. CASE ~(Affordable /\ WithinMaximum /\ Running)
    <3>1. session' \in Session
      BY <1>4, <2>2, CompleteTyped DEF Prepare, TypeOK
    <3>2. runner' \in Runner /\ runner'.pc = "ended"
      BY <1>4, <2>2, RestingTyped DEF Prepare, End, RunnerPC
    <3> QED BY <1>4, <2>2, <3>1, <3>2 DEF Prepare, TypeOK, Active, commanding
  <2> QED BY <2>1, <2>2
<1>5. CASE MarkSent
  <2>1. runner' \in Runner /\ runner'.pc = "answer" /\ runner'.bet > 0
    BY <1>5 DEF MarkSent, TypeOK, Active, Runner, RunnerPC
  <2>2. bet' \in Bet
    BY <1>5 DEF MarkSent, TypeOK, Bet, Pending
  <2> QED BY <1>5, <2>1, <2>2 DEF MarkSent, TypeOK, Active, commanding, bounds
<1>6. CASE AnswerFails
  <2>1. runner' \in Runner /\ runner'.pc = "ended"
    BY <1>6, RestingTyped DEF AnswerFails, End, RunnerPC
  <2>2. session' \in Session
    BY <1>6, CompleteTyped DEF AnswerFails, TypeOK
  <2> QED BY <1>6, <2>1, <2>2
        DEF AnswerFails, TypeOK, Active, commanding, bounds
<1>7. CASE AdvanceState
  <2>1. PICK a \in Answers :
          LET next == Advance(runner.settings,
                        [bet |-> runner.bet, cycle |-> runner.cycle,
                         streak |-> runner.streak, last |-> runner.last,
                         reset |-> ResetGiven], a.result, AllocationOf(a.gross).user)
          IN runner' = [runner EXCEPT !.pc = "settle", !.result = a.result,
               !.gross = a.gross, !.bet = next.bet, !.cycle = next.cycle,
               !.streak = next.streak, !.last = next.last, !.owes = {}]
    BY <1>7, Zenon DEF AdvanceState
  <2> DEFINE st == [bet |-> runner.bet, cycle |-> runner.cycle,
                    streak |-> runner.streak, last |-> runner.last,
                    reset |-> ResetGiven]
             next == Advance(runner.settings, st, a.result, AllocationOf(a.gross).user)
  <2>2. a.result \in Results /\ a.gross \in Int
    <3>1. bet.amount \in Nat
      BY DEF TypeOK, Bet
    <3> QED BY <2>1, <3>1, ControlAssumption DEF Answers, Results
  <2>3. AllocationOf(a.gross).user \in Int
    BY <2>2, AllocationAddsUp, ControlAssumption DEF AllocationOf
  <2>4. /\ runner \in Runner /\ runner.settings \in Settings
        /\ runner.bet \in Nat \ {0} /\ runner.cycle \in Int /\ runner.streak \in Nat
        /\ session.reset \in BOOLEAN
    BY <1>7 DEF AdvanceState, TypeOK, Active, Runner, Session
  <2>5. /\ st.bet \in Nat \ {0} /\ st.cycle \in Int /\ st.streak \in Nat
        /\ st.reset \in BOOLEAN
    BY <2>4 DEF ResetGiven
  <2>6. /\ next.bet \in Nat \ {0} /\ next.cycle \in Int /\ next.streak \in Nat
        /\ next.last \in LastResult
    <3> HIDE DEF st
    <3> QED BY <2>2, <2>3, <2>4, <2>5, AdvanceTyped, Zenon DEF LastResult
  <2>7. runner' = [runner EXCEPT !.pc = "settle", !.result = a.result,
               !.gross = a.gross, !.bet = next.bet, !.cycle = next.cycle,
               !.streak = next.streak, !.last = next.last, !.owes = {}]
    BY <2>1, Zenon
  <2> HIDE DEF next, st
  <2>8. runner' \in Runner /\ runner'.pc = "settle" /\ runner'.bet > 0
    <3>1. "settle" \in RunnerPC
      BY DEF RunnerPC
    <3>2. a.result \in LastResult
      BY <2>2, Atoms
    <3>3. next.bet \in Nat /\ next.bet > 0
      BY <2>6
    <3>4. runner' \in Runner /\ runner'.pc = "settle" /\ runner'.bet = next.bet
      BY <2>2, <2>4, <2>6, <2>7, <3>1, <3>2, <3>3, Atoms, Zenon DEF Runner
    <3> QED BY <3>3, <3>4
  <2> QED BY <1>7, <2>8 DEF AdvanceState, TypeOK, Active, commanding, bounds
<1>8. CASE Settle
  <2>1. /\ runner \in Runner /\ runner.gross \in Int /\ session \in Session
        /\ runner.bet \in Nat \ {0}
    BY <1>8 DEF Settle, TypeOK, Active, Runner
  <2>2. /\ Net \in Int /\ Allocation.holding \in Nat /\ Allocation.kangden \in Nat
    BY <2>1, AllocationAddsUp, ControlAssumption DEF Net, Allocation, AllocationOf
  <2> HIDE DEF Net, Allocation
  <2>3. Floor0(session.visible + Net) \in Nat /\ ProfitAfter \in Int
    BY <2>1, <2>2 DEF Floor0, ProfitAfter, Session
  <2>4. session' \in Session
    BY <1>8, <2>1, <2>3 DEF Settle, Session, Runner
  <2>5. runner' \in Runner /\ runner'.pc = "limits"
    BY <1>8, <2>1 DEF Settle, Runner, RunnerPC
  <2>6. bet' \in Bet
    BY <1>8 DEF Settle, Bet, NoBet, Pending
  <2>7. books' \in [gross : Int, user : Int, fees : Nat]
    BY <1>8, <2>1, <2>2 DEF Settle, TypeOK
  <2>8. Reached(runner.settings, session'.profit, session'.visible) \in BOOLEAN
    BY DEF Reached
  <2>9. account' \in Account
    BY <1>8, <2>8 DEF Settle, TypeOK, Account
  <2> QED BY <1>8, <2>4, <2>5, <2>6, <2>7, <2>9
        DEF Settle, TypeOK, Active, commanding, bounds
<1>9. CASE CheckLimits
  <2>1. session' \in Session /\ runner' \in Runner /\ runner'.pc \in {"ended", "asleep"}
    BY <1>9, CompleteTyped, RestingTyped DEF CheckLimits, TypeOK, End, RunnerPC
  <2> QED BY <1>9, <2>1 DEF CheckLimits, TypeOK, Active, commanding, bounds
<1>10. CASE Crash
  <2>1. runner' \in Runner /\ runner'.pc = "down"
    BY <1>10, RestingTyped DEF Crash, RunnerPC
  <2>2. crashes' \in 0..MaxCrashes
    BY <1>10, ControlAssumption DEF Crash, TypeOK
  <2> QED BY <1>10, <2>1, <2>2 DEF Crash, TypeOK, Active, commanding
<1>11. CASE Recover
  <2>1. session' \in Session
    BY <1>11 DEF Recover, TypeOK, Session, Status
  <2>2. runner' \in Runner /\ runner'.pc \in {"ended", "asleep"}
    BY <1>11, RestingTyped DEF Recover, End, RunnerPC
  <2>3. bet' \in Bet
    BY <1>11 DEF Recover, TypeOK, Bet, NoBet, Pending
  <2> QED BY <1>11, <2>1, <2>2, <2>3 DEF Recover, TypeOK, Active, commanding, bounds
<1>12. CASE RequestStop
  <2>1. session' \in Session
    BY <1>12 DEF RequestStop, TypeOK, Session, Status
  <2> QED BY <1>12, <2>1 DEF RequestStop, TypeOK, Active, commanding, bounds
<1>13. ASSUME NEW c \in Callers, LookForPending(c) PROVE Typed'
  <2>1. resetting' \in [Callers -> {"no", "flag", "row"}]
    BY <1>13 DEF LookForPending, TypeOK
  <2>2. commands' \in 0..MaxCommands
    BY <1>13, ControlAssumption DEF LookForPending, Obey, TypeOK
  <2> QED BY <1>13, <2>1, <2>2 DEF LookForPending, Obey, TypeOK, Active
<1>14. ASSUME NEW c \in Callers, Reset(c) PROVE Typed'
  <2>1. resetting' \in [Callers -> {"no", "flag", "row"}]
    BY <1>14 DEF Reset, TypeOK
  <2>2. /\ session.snapshot.base \in Nat \ {0} /\ runner.settings.base \in Nat
        /\ saved.base \in Nat \ {0} /\ session \in Session /\ account \in Account
    BY DEF TypeOK, Session, Runner, Settings
  <2>3. session' \in Session
    <3>1. CASE session' = session
      BY <2>2, <3>1
    <3>2. CASE WriteFlag
      BY <2>2, <3>2, Atoms, Zenon DEF WriteFlag, Session
    <3>3. CASE WriteRow
      BY <2>2, <3>3, Atoms, Zenon DEF WriteRow, Session
    <3> QED BY <1>14, <3>1, <3>2, <3>3, Zenon DEF Reset
  <2>4. account' \in Account
    BY <1>14, <2>2 DEF Reset, WriteFlag, WriteRow, Account
  <2> QED BY <1>14, <2>1, <2>3, <2>4 DEF Reset, TypeOK, Active, bounds
<1>15. ASSUME NEW amount \in Overrides, Override(amount) PROVE Typed'
  <2>1. amount \in Nat
    BY ControlAssumption
  <2>2. session' \in Session
    BY <1>15, <2>1 DEF Override, TypeOK, Session
  <2>3. account' \in Account
    <3>1. account \in Account /\ account.unstaked + 1 \in Int
      BY DEF TypeOK, Account
    <3> QED BY <1>15, <3>1, Atoms, Zenon DEF Override, Account
  <2>4. commands' \in 0..MaxCommands
    BY <1>15, ControlAssumption DEF Override, Obey, TypeOK
  <2> QED BY <1>15, <2>2, <2>3, <2>4 DEF Override, Obey, TypeOK, Active
<1>16. ASSUME NEW b \in BOOLEAN, StopOnWin(b) PROVE Typed'
  <2>1. session' \in Session
    BY <1>16 DEF StopOnWin, TypeOK, Session
  <2>2. SaversAt("flagged") \in BOOLEAN
    BY DEF SaversAt
  <2>3. account' \in Account
    BY <1>16, <2>2 DEF StopOnWin, TypeOK, Account
  <2>4. commands' \in 0..MaxCommands
    BY <1>16, ControlAssumption DEF StopOnWin, Obey, TypeOK
  <2> QED BY <1>16, <2>1, <2>3, <2>4 DEF StopOnWin, Obey, TypeOK, Active
<1>17. ASSUME NEW s \in Savers, NEW p \in Profiles, Save(s, p) PROVE Typed'
  <2>1. saved' \in Settings
    BY <1>17, ControlAssumption DEF Save
  <2>2. saver' \in [Savers -> Saver]
    BY <1>17 DEF Save, TypeOK, Saver
  <2>3. account' \in Account
    BY <1>17 DEF Save, TypeOK, Account
  <2>4. saves' \in 0..MaxSaves
    BY <1>17, ControlAssumption DEF Save, TypeOK
  <2> QED BY <1>17, <2>1, <2>2, <2>3, <2>4 DEF Save, TypeOK, Active, saving
<1>18. ASSUME NEW s \in Savers, ReadSaved(s) PROVE Typed'
  <2>1. saver' \in [Savers -> Saver]
    BY <1>18 DEF ReadSaved, TypeOK, Saver
  <2> QED BY <1>18, <2>1 DEF ReadSaved, TypeOK, Active, saving
<1>b. IdleSaver \in Saver
  <2>1. (CHOOSE p \in Profiles : TRUE) \in Settings
    BY ControlAssumption, Zenon
  <2> QED BY <2>1 DEF Saver, IdleSaver
<1>19. ASSUME NEW s \in Savers, ReadSwitch(s) PROVE Typed'
  <2>1. session.stopOnWin \in BOOLEAN /\ saver[s] \in Saver
    BY DEF TypeOK, Session
  <2>2. [saver[s] EXCEPT !.pc = "flagged", !.stopOnWin = SwitchOfSession] \in Saver
    BY <2>1 DEF Saver, SwitchOfSession
  <2>3. saver' \in [Savers -> Saver]
    <3>1. saver \in [Savers -> Saver]
      BY DEF TypeOK
    <3>2. saver' = [saver EXCEPT ![s] =
             IF Running
               THEN [saver[s] EXCEPT !.pc = "flagged", !.stopOnWin = SwitchOfSession]
               ELSE IdleSaver]
      BY <1>19 DEF ReadSwitch
    <3> QED BY <1>b, <2>2, <3>1, <3>2
  <2> QED BY <1>19, <2>3 DEF ReadSwitch, TypeOK, Active, saving
<1>20. ASSUME NEW s \in Savers, Sync(s) PROVE Typed'
  <2>1. saver' \in [Savers -> Saver]
    BY <1>20, <1>b DEF Sync, TypeOK
  <2>2. saver[s].settings \in Settings /\ saver[s].stopOnWin \in BOOLEAN
    BY DEF TypeOK, Saver
  <2>3. AsColumn(saver[s].settings.base) \in Nat \ {0}
    <3>1. saver[s].settings.base \in Nat \ {0}
      BY <2>2 DEF Settings
    <3>2. Scale \in Nat \ {0}
      BY ControlAssumption
    <3> QED BY <3>1, <3>2 DEF AsColumn
  <2>4. /\ session \in Session /\ account \in Account
        /\ session.bet \in Nat \ {0} /\ session.override \in Nat
    BY DEF TypeOK, Session
  <2>5. session' \in Session
    <3> DEFINE changed == session.snapshot.base # saver[s].settings.base
               b == IF changed THEN AsColumn(saver[s].settings.base) ELSE session.bet
               o == IF changed THEN 0 ELSE session.override
    <3>1. b \in Nat \ {0} /\ o \in Nat
      BY <2>3, <2>4
    <3>2. \/ session' = session
          \/ session' = [session EXCEPT !.snapshot = saver[s].settings,
                           !.stopOnWin = saver[s].stopOnWin,
                           !.bet = b, !.override = o]
      BY <1>20, Zenon DEF Sync, NewSnapshot
    <3> HIDE DEF b, o
    <3> QED BY <2>2, <2>4, <3>1, <3>2, Zenon DEF Session
  <2>6. account' \in Account
    BY <1>20, <2>4 DEF Sync, Account
  <2> QED BY <1>20, <2>1, <2>5, <2>6 DEF Sync, TypeOK, Active, saving
<1>21. CASE UNCHANGED vars
  BY <1>21 DEF vars, bounds, TypeOK, Active
<1> QED
  BY <1>1, <1>2, <1>3, <1>4, <1>5, <1>6, <1>7, <1>8, <1>9, <1>10, <1>11, <1>12,
     <1>13, <1>14, <1>15, <1>16, <1>17, <1>18, <1>19, <1>20, <1>21, Zenon
  DEF Next, RollStep, CommandStep, SaveStep

\* The types hold throughout (TypeOK).
THEOREM TypesHold == Spec => []TypeOK
<1>1. Spec => []Typed
  BY TypedInit, TypedStep, PTL DEF Spec
<1>2. Typed => TypeOK
  BY DEF Typed
<1> QED BY <1>1, <1>2, PTL

-----------------------------------------------------------------------------
(* What the steps leave alone *)

\* The books, and the profit and balance of the session, change with a settlement
\* only.
LEMMA BooksKept ==
  ASSUME TypeOK, [Next]_vars, ~Settle
  PROVE  /\ session'.profit = session.profit /\ session'.visible = session.visible
         /\ books' = books
<1>1. session \in Session
  BY DEF TypeOK
<1> DEFINE Kept == /\ session'.profit = session.profit
                   /\ session'.visible = session.visible /\ books' = books
<1>2. Complete =>
        session'.profit = session.profit /\ session'.visible = session.visible
  BY <1>1 DEF Complete, Session
<1>3. CASE RollStep
  <2>1. CASE ReadSession
    BY <1>2, <2>1 DEF ReadSession
  <2>2. CASE ApplyReset \/ ApplyOverride
    BY <1>1, <2>2 DEF ApplyReset, ApplyOverride, Session
  <2>3. CASE Prepare
    BY <1>2, <2>3 DEF Prepare
  <2>4. CASE MarkSent \/ AdvanceState
    BY <2>4 DEF MarkSent, AdvanceState
  <2>5. CASE AnswerFails
    BY <1>2, <2>5 DEF AnswerFails
  <2>6. CASE CheckLimits
    BY <1>2, <2>6 DEF CheckLimits
  <2>7. CASE Recover
    BY <1>1, <2>7 DEF Recover, Session
  <2> QED BY <1>3, <2>1, <2>2, <2>3, <2>4, <2>5, <2>6, <2>7 DEF RollStep
<1>4. CASE Crash
  BY <1>4 DEF Crash
<1>5. CASE RequestStop
  BY <1>1, <1>5 DEF RequestStop, Session
<1>6. CASE CommandStep
  <2>1. ASSUME NEW c \in Callers, LookForPending(c) PROVE Kept
    BY <2>1 DEF LookForPending
  <2>2. ASSUME NEW c \in Callers, Reset(c) PROVE Kept
    BY <1>1, <2>2 DEF Reset, WriteFlag, WriteRow, Session
  <2>3. ASSUME NEW a \in Overrides, Override(a) PROVE Kept
    BY <1>1, <2>3 DEF Override, Session
  <2>4. ASSUME NEW b \in BOOLEAN, StopOnWin(b) PROVE Kept
    BY <1>1, <2>4 DEF StopOnWin, Session
  <2> QED BY <1>6, <2>1, <2>2, <2>3, <2>4 DEF CommandStep
<1>7. ASSUME NEW s \in Savers, SaveStep(s) \/ \E p \in Profiles : Save(s, p)
      PROVE  Kept
  <2>1. CASE ReadSaved(s) \/ ReadSwitch(s) \/ \E p \in Profiles : Save(s, p)
    BY <2>1 DEF ReadSaved, ReadSwitch, Save, saving
  <2>2. CASE Sync(s)
    BY <1>1, <2>2 DEF Sync, Session, saving
  <2> QED BY <1>7, <2>1, <2>2 DEF SaveStep
<1>8. CASE UNCHANGED vars
  BY <1>8 DEF vars
<1> QED BY <1>3, <1>4, <1>5, <1>6, <1>7, <1>8 DEF Next

-----------------------------------------------------------------------------
(* The profit of a session *)

\* The first session has no profit and no bets.
LEMMA ProfitInit == Init => ProfitAddsUp
<1> SUFFICES ASSUME Init PROVE ProfitAddsUp
  OBVIOUS
<1>1. session.profit = 0
  BY DEF Init
<1>2. books.gross = 0 /\ books.user = 0 /\ books.fees = 0
  BY DEF Init
<1> QED BY <1>1, <1>2 DEF ProfitAddsUp

\* A settlement adds the shares of one bet, and nothing else touches either side.
LEMMA ProfitStep == Typed /\ ProfitAddsUp /\ [Next]_vars => ProfitAddsUp'
<1> SUFFICES ASSUME Typed, ProfitAddsUp, [Next]_vars PROVE ProfitAddsUp'
  OBVIOUS
<1>1. CASE ~Settle
  BY <1>1, BooksKept DEF Typed, ProfitAddsUp
<1>2. CASE Settle
  <2>1. /\ runner.gross \in Int /\ session \in Session /\ session.profit \in Int
        /\ books \in [gross : Int, user : Int, fees : Nat]
    BY DEF Typed, TypeOK, Runner, Session
  <2>2. /\ Allocation.user \in Int /\ Allocation.holding \in Nat
        /\ Allocation.kangden \in Nat
        /\ Allocation.user + Allocation.holding + Allocation.kangden = runner.gross
    BY <2>1, AllocationAddsUp, ControlAssumption DEF Allocation, AllocationOf
  <2>3. session'.profit = session.profit + Allocation.user
    BY <1>2, <2>1 DEF Settle, Session, ProfitAfter, Net
  <2>4. /\ books'.gross = books.gross + runner.gross
        /\ books'.user = books.user + Allocation.user
        /\ books'.fees = books.fees + Allocation.holding + Allocation.kangden
    BY <1>2 DEF Settle, Net
  <2> HIDE DEF Allocation
  <2>5. books.gross \in Int /\ books.user \in Int /\ books.fees \in Nat
    BY <2>1
  <2>6. session.profit = books.user /\ books.gross = books.user + books.fees
    BY DEF ProfitAddsUp
  <2> QED BY <2>1, <2>2, <2>3, <2>4, <2>5, <2>6 DEF ProfitAddsUp
<1> QED BY <1>1, <1>2

\* The profit of the session is the user's share of its settled bets, and with the
\* fees it is their gross profit, in every session (ProfitAddsUp).
THEOREM ProfitHolds == Spec => []ProfitAddsUp
BY TypedInit, TypedStep, ProfitInit, ProfitStep, PTL DEF Spec

-----------------------------------------------------------------------------
(* Overrides *)

\* An override that a bet may yet take: it is in the row, or a roll has read it.
Carried ==
  \/ session.override > 0
  \/ runner.pc \in {"reset", "override"} /\ runner.override > 0

\* An override that may be taken was asked for and not taken.
CarriedIsUnstaked == account.unstaked >= (IF Carried THEN 1 ELSE 0)

\* No override to begin with.
LEMMA CarriedInit == Init => CarriedIsUnstaked
<1> SUFFICES ASSUME Init PROVE CarriedIsUnstaked
  OBVIOUS
<1>1. session.override = 0
  BY DEF Init
<1>2. runner.pc = "asleep"
  BY RestingTyped DEF Init, RunnerPC
<1>3. account.unstaked = 0
  BY DEF Init
<1> QED BY <1>1, <1>2, <1>3 DEF CarriedIsUnstaked, Carried

\* Taking an override removes it from the row and from the roll.
LEMMA CarriedStep ==
  Typed /\ CarriedIsUnstaked /\ [Next]_vars => CarriedIsUnstaked'
<1> SUFFICES ASSUME Typed, CarriedIsUnstaked, [Next]_vars
             PROVE  CarriedIsUnstaked'
  OBVIOUS
<1>a. /\ session \in Session /\ runner \in Runner /\ account \in Account
      /\ account.unstaked \in Int /\ session.override \in Nat
  BY DEF Typed, TypeOK, Session, Account
<1>k. ASSUME account'.unstaked = account.unstaked, Carried' => Carried
      PROVE  CarriedIsUnstaked'
  BY <1>a, <1>k DEF CarriedIsUnstaked
<1>d. Complete => session'.override = session.override
  BY <1>a DEF Complete, Session
<1>r. \A pc \in RunnerPC : Resting(pc).pc = pc /\ Resting(pc).override = 0
  BY DEF Resting
<1>1. CASE ReadSession
  <2>1. account'.unstaked = account.unstaked
    BY <1>a, <1>1 DEF ReadSession, Account
  <2>2. Carried' => Carried
    <3>1. CASE Running
      <4>1. session' = session
        BY <1>1, <3>1 DEF ReadSession, Running
      <4>2. runner'.override = session.override
        BY <1>1, <3>1 DEF ReadSession, Resting, Running
      <4> QED BY <4>1, <4>2 DEF Carried
    <3>2. CASE ~Running
      <4>1. session'.override = session.override
        BY <1>d, <1>1, <3>2 DEF ReadSession
      <4>2. runner'.pc = "ended"
        BY <1>r, <1>1, <3>2 DEF ReadSession, End, RunnerPC
      <4> QED BY <4>1, <4>2 DEF Carried
    <3> QED BY <3>1, <3>2
  <2> QED BY <1>k, <2>1, <2>2
<1>2. CASE ApplyReset
  <2>1. session'.override = session.override /\ runner'.override = runner.override
    BY <1>a, <1>2 DEF ApplyReset, Session, Runner
  <2> QED BY <1>k, <1>2, <2>1 DEF ApplyReset, Carried
<1>3. CASE ApplyOverride
  <2>1. session'.override = 0 /\ runner'.pc = "prepare"
    BY <1>a, <1>3 DEF ApplyOverride, NoOverride, Session, Runner
  <2>2. account'.unstaked = account.unstaked - 1
    BY <1>a, <1>3 DEF ApplyOverride, Account
  <2>3. Carried
    BY <1>3 DEF ApplyOverride, Carried, Typed, Active
  <2> QED BY <1>a, <2>1, <2>2, <2>3 DEF CarriedIsUnstaked, Carried
<1>4. CASE Prepare
  <2>1. session'.override = session.override
    BY <1>d, <1>4 DEF Prepare
  <2>2. runner'.pc \in {"send", "ended"}
    BY <1>a, <1>r, <1>4 DEF Prepare, End, Runner, RunnerPC
  <2>3. account'.unstaked = account.unstaked
    BY <1>a, <1>4 DEF Prepare, Account
  <2> QED BY <1>k, <2>1, <2>2, <2>3 DEF Carried
<1>5. CASE MarkSent \/ AdvanceState \/ Settle
  <2>1. runner'.pc \in {"answer", "settle", "limits"}
    BY <1>a, <1>5 DEF MarkSent, AdvanceState, Settle, Runner
  <2>2. session'.override = session.override
    BY <1>a, <1>5 DEF MarkSent, AdvanceState, Settle, Session
  <2>3. account'.unstaked = account.unstaked
    BY <1>a, <1>5 DEF MarkSent, AdvanceState, Settle, Account
  <2> QED BY <1>k, <2>1, <2>2, <2>3 DEF Carried
<1>6. CASE AnswerFails \/ CheckLimits \/ Crash \/ Recover
  <2>1. runner'.pc \in {"ended", "asleep", "down"}
    BY <1>r, <1>6 DEF AnswerFails, CheckLimits, Crash, Recover, End, RunnerPC
  <2>2. session'.override = session.override
    BY <1>a, <1>d, <1>6 DEF AnswerFails, CheckLimits, Crash, Recover, Session
  <2>3. account'.unstaked = account.unstaked
    BY <1>6 DEF AnswerFails, CheckLimits, Crash, Recover
  <2> QED BY <1>k, <2>1, <2>2, <2>3 DEF Carried
<1>7. CASE RequestStop
  <2>1. session'.override = session.override
    BY <1>a, <1>7 DEF RequestStop, Session
  <2> QED BY <1>k, <1>7, <2>1 DEF RequestStop, Carried
<1>8. ASSUME NEW c \in Callers, LookForPending(c) \/ Reset(c)
      PROVE  CarriedIsUnstaked'
  <2>1. session'.override = session.override \/ session'.override = 0
    BY <1>a, <1>8 DEF LookForPending, Reset, WriteFlag, WriteRow, Session
  <2>2. account'.unstaked = account.unstaked
    BY <1>a, <1>8 DEF LookForPending, Reset, WriteFlag, WriteRow, Account
  <2>3. runner' = runner
    BY <1>8 DEF LookForPending, Reset
  <2> QED BY <1>a, <1>k, <2>1, <2>2, <2>3 DEF Carried
<1>9. ASSUME NEW a \in Overrides, Override(a) PROVE CarriedIsUnstaked'
  <2>1. account'.unstaked = account.unstaked + 1
    BY <1>a, <1>9 DEF Override, Account
  <2> QED BY <1>a, <2>1 DEF CarriedIsUnstaked
<1>10. ASSUME NEW b \in BOOLEAN, StopOnWin(b) PROVE CarriedIsUnstaked'
  <2>1. session'.override = session.override /\ account'.unstaked = account.unstaked
    BY <1>a, <1>10 DEF StopOnWin, Session, Account
  <2> QED BY <1>k, <1>10, <2>1 DEF StopOnWin, Carried
<1>11. ASSUME NEW s \in Savers, SaveStep(s) \/ \E p \in Profiles : Save(s, p)
       PROVE  CarriedIsUnstaked'
  <2>1. session'.override = session.override \/ session'.override = 0
    BY <1>a, <1>11 DEF SaveStep, ReadSaved, ReadSwitch, Sync, Save, Session
  <2>2. account'.unstaked = account.unstaked
    BY <1>a, <1>11 DEF SaveStep, ReadSaved, ReadSwitch, Sync, Save, Account
  <2>3. runner' = runner
    BY <1>11 DEF SaveStep, ReadSaved, ReadSwitch, Sync, Save, saving
  <2> QED BY <1>a, <1>k, <2>1, <2>2, <2>3 DEF Carried
<1>12. CASE UNCHANGED vars
  BY <1>k, <1>12 DEF vars, Carried
<1> QED
  BY <1>1, <1>2, <1>3, <1>4, <1>5, <1>6, <1>7, <1>8, <1>9, <1>10, <1>11, <1>12, Zenon
  DEF Next, RollStep, CommandStep

\* An execution of OVERRIDE is staked at most once, however often goroutines die
\* and whatever is commanded and saved meanwhile (OverrideStakedOnce).
THEOREM OverrideHolds == Spec => []OverrideStakedOnce
<1>1. Typed /\ CarriedIsUnstaked => OverrideStakedOnce
  <2>1. Typed => account.unstaked \in Int
    BY DEF Typed, TypeOK, Account
  <2> QED BY <2>1 DEF CarriedIsUnstaked, OverrideStakedOnce
<1> QED BY <1>1, TypedInit, TypedStep, CarriedInit, CarriedStep, PTL DEF Spec

-----------------------------------------------------------------------------
(* Limits *)

\* The roll works on the profit and the balance of the row: nobody else writes them.
Copied ==
  /\ runner.pc \in {"reset", "override", "prepare", "send", "answer", "settle"}
       => runner.profit = session.profit
  /\ runner.pc \in {"send", "answer", "settle"} => runner.available = session.visible
  /\ runner.pc = "limits" =>
       /\ session.profit = runner.profit + Net
       /\ session.visible = Floor0(runner.available + Net)
       /\ account.over =
            Reached(runner.settings, session.profit, session.visible)

\* A limit is behind the session, and its goroutine might bet again.
Escaped == account.over
  /\ runner.pc \notin {"send", "answer", "settle", "limits", "ended"}

\* Each escape from a limit is paid for by a crash.
PastPaid == account.past + (IF Escaped THEN 1 ELSE 0) <= crashes

Limits == Copied /\ PastPaid

\* A step of anyone but the goroutine leaves its locals, the limits and the
\* crashes alone.
LEMMA RunnerKept ==
  ASSUME TypeOK, [Next]_vars, ~RollStep, ~Crash
  PROVE  /\ runner' = runner /\ crashes' = crashes
         /\ account'.over = account.over /\ account'.past = account.past
<1>1. account \in Account
  BY DEF TypeOK
<1> DEFINE Kept == /\ runner' = runner /\ crashes' = crashes
                   /\ account'.over = account.over /\ account'.past = account.past
<1>2. CASE RequestStop
  BY <1>2 DEF RequestStop, bounds
<1>3. CASE CommandStep
  <2>1. ASSUME NEW c \in Callers, LookForPending(c) PROVE Kept
    BY <2>1 DEF LookForPending, Obey
  <2>2. ASSUME NEW c \in Callers, Reset(c) PROVE Kept
    BY <1>1, <2>2 DEF Reset, WriteFlag, WriteRow, Account, bounds
  <2>3. ASSUME NEW a \in Overrides, Override(a) PROVE Kept
    BY <1>1, <2>3 DEF Override, Account, Obey
  <2>4. ASSUME NEW b \in BOOLEAN, StopOnWin(b) PROVE Kept
    BY <1>1, <2>4 DEF StopOnWin, Account, Obey
  <2> QED BY <1>3, <2>1, <2>2, <2>3, <2>4 DEF CommandStep
<1>4. ASSUME NEW s \in Savers, SaveStep(s) \/ \E p \in Profiles : Save(s, p)
      PROVE  Kept
  BY <1>1, <1>4 DEF SaveStep, ReadSaved, ReadSwitch, Sync, Save, saving, Account
<1>5. CASE UNCHANGED vars
  BY <1>5 DEF vars, bounds
<1> QED BY <1>2, <1>3, <1>4, <1>5 DEF Next

\* A balance floored at zero is at or below a positive limit just when the balance
\* itself is: the check and the history agree.
LEMMA FloorReached ==
  ASSUME NEW settings \in Settings, NEW profit \in Int, NEW balance \in Int
  PROVE  Reached(settings, profit, Floor0(balance)) = Reached(settings, profit, balance)
<1>1. settings.balanceBelow \in Nat
  BY DEF Settings
<1>2. ASSUME settings.balanceBelow > 0
      PROVE  Floor0(balance) <= settings.balanceBelow <=> balance <= settings.balanceBelow
  BY <1>1, <1>2 DEF Floor0
<1> QED BY <1>2, Zenon DEF Reached

\* At the start nothing is reached.
LEMMA LimitsInit == Init => Limits
<1> SUFFICES ASSUME Init PROVE Limits
  OBVIOUS
<1>1. runner.pc = "asleep"
  BY RestingTyped DEF Init, RunnerPC
<1>2. account.past = 0 /\ account.over = FALSE
  BY DEF Init
<1>3. crashes = 0
  BY DEF Init
<1> QED BY <1>1, <1>2, <1>3 DEF Limits, Copied, PastPaid, Escaped

\* Every step of the goroutine keeps its copy true, and only its death lets it
\* past a limit.
LEMMA LimitsStep == Typed /\ Limits /\ [Next]_vars => Limits'
<1> SUFFICES ASSUME Typed, Limits, [Next]_vars PROVE Limits'
  OBVIOUS
<1>a. /\ session \in Session /\ runner \in Runner /\ account \in Account
      /\ account.past \in Nat /\ account.over \in BOOLEAN /\ crashes \in Nat
      /\ TypeOK
  BY DEF Typed, TypeOK, Account
<1>p. account.past <= crashes /\ (Escaped => account.past + 1 <= crashes)
  BY <1>a DEF Limits, PastPaid
<1>r. \A pc \in RunnerPC : Resting(pc).pc = pc
  BY DEF Resting
<1>1. CASE RollStep
  <2>1. CASE ReadSession
    <3>1. session'.profit = session.profit /\ session'.visible = session.visible
      BY <1>a, <2>1, BooksKept DEF ReadSession, Settle
    <3>2. CASE Running
      <4>1. /\ runner'.pc \in {"reset", "override", "prepare"}
            /\ runner'.profit = session.profit
        BY <2>1, <3>2 DEF ReadSession, Resting, AfterRead, Running
      <4>2. account'.past = account.past /\ account'.over = account.over
        BY <1>a, <2>1, <3>2 DEF ReadSession, Account, Running
      <4>3. runner.pc = "asleep" /\ crashes' = crashes
        BY <2>1 DEF ReadSession, bounds
      <4> QED BY <1>a, <1>p, <3>1, <4>1, <4>2, <4>3
            DEF Limits, Copied, PastPaid, Escaped
    <3>3. CASE ~Running
      <4>1. runner'.pc = "ended" /\ account' = account /\ crashes' = crashes
        BY <1>r, <2>1, <3>3 DEF ReadSession, End, RunnerPC, bounds
      <4> QED BY <1>a, <1>p, <4>1 DEF Limits, Copied, PastPaid, Escaped
    <3> QED BY <3>2, <3>3
  <2>2. CASE ApplyReset \/ ApplyOverride
    <3>1. session'.profit = session.profit
      BY <1>a, <2>2 DEF ApplyReset, ApplyOverride, Session
    <3>2. /\ runner'.pc \in {"override", "prepare"} /\ runner'.profit = runner.profit
          /\ runner.pc \in {"reset", "override"}
      BY <1>a, <2>2 DEF ApplyReset, ApplyOverride, Runner, AfterRead
    <3>3. /\ account'.past = account.past /\ account'.over = account.over
          /\ crashes' = crashes
      BY <1>a, <2>2 DEF ApplyReset, ApplyOverride, Account, bounds
    <3> QED BY <1>a, <1>p, <3>1, <3>2, <3>3 DEF Limits, Copied, PastPaid, Escaped
  <2>3. CASE Prepare
    <3>1. runner.pc = "prepare" /\ crashes' = crashes
      BY <2>3 DEF Prepare
    <3>2. CASE Affordable /\ WithinMaximum /\ Running
      <4>1. /\ runner'.pc = "send" /\ runner'.profit = runner.profit
            /\ runner'.available = session.visible /\ session' = session
        BY <1>a, <2>3, <3>2 DEF Prepare, Runner
      <4>2. /\ account'.past = account.past + (IF account.over THEN 1 ELSE 0)
        BY <1>a, <2>3, <3>2 DEF Prepare, Account
      <4>3. Escaped <=> account.over
        BY <3>1 DEF Escaped
      <4> QED BY <1>a, <1>p, <3>1, <4>1, <4>2, <4>3
            DEF Limits, Copied, PastPaid, Escaped
    <3>3. CASE ~(Affordable /\ WithinMaximum /\ Running)
      <4>1. runner'.pc = "ended" /\ account' = account
        BY <1>r, <2>3, <3>3 DEF Prepare, End, RunnerPC
      <4> QED BY <1>a, <1>p, <3>1, <4>1 DEF Limits, Copied, PastPaid, Escaped
    <3> QED BY <3>2, <3>3
  <2>4. CASE MarkSent \/ AdvanceState
    <3>1. /\ runner'.pc \in {"answer", "settle"} /\ runner'.profit = runner.profit
          /\ runner'.available = runner.available
          /\ runner.pc \in {"send", "answer"}
      BY <1>a, <2>4 DEF MarkSent, AdvanceState, Runner
    <3>2. session' = session /\ account' = account /\ crashes' = crashes
      BY <2>4 DEF MarkSent, AdvanceState, bounds
    <3> QED BY <1>a, <1>p, <3>1, <3>2 DEF Limits, Copied, PastPaid, Escaped
  <2>5. CASE AnswerFails
    <3>1. runner'.pc = "ended" /\ account' = account /\ crashes' = crashes
      BY <1>r, <2>5 DEF AnswerFails, End, RunnerPC, bounds
    <3> QED BY <1>a, <1>p, <3>1 DEF Limits, Copied, PastPaid, Escaped
  <2>6. CASE Settle
    <3>1. /\ runner.pc = "settle" /\ runner'.pc = "limits" /\ crashes' = crashes
          /\ runner'.profit = runner.profit /\ runner'.available = runner.available
          /\ runner'.settings = runner.settings /\ runner'.gross = runner.gross
      BY <1>a, <2>6 DEF Settle, Runner, bounds
    <3>2. runner.profit = session.profit /\ runner.available = session.visible
      BY <3>1 DEF Limits, Copied
    <3>3. /\ session'.profit = session.profit + Net
          /\ session'.visible = Floor0(session.visible + Net)
      BY <1>a, <2>6 DEF Settle, Session, ProfitAfter
    <3>4. /\ account'.past = account.past
          /\ account'.over =
               Reached(runner.settings, session'.profit, session'.visible)
      BY <1>a, <2>6 DEF Settle, Account
    <3>5. Net' = Net
      BY <3>1 DEF Net, Allocation, AllocationOf
    <3>6. Copied'
      <4> HIDE DEF Net
      <4> QED BY <3>1, <3>2, <3>3, <3>4, <3>5, Zenon DEF Copied
    <3>7. PastPaid'
      BY <1>a, <1>p, <3>1, <3>4 DEF PastPaid, Escaped
    <3> QED BY <3>6, <3>7 DEF Limits
  <2>7. CASE CheckLimits
    <3>1. runner.pc = "limits" /\ account' = account /\ crashes' = crashes
      BY <2>7 DEF CheckLimits, bounds
    <3>2. runner'.pc = "ended" \/ (runner'.pc = "asleep" /\ ~account.over)
      <4>1. /\ runner.profit \in Int /\ runner.available \in Nat
            /\ runner.gross \in Int /\ runner.settings \in Settings
        BY <1>a DEF Runner
      <4>2. Net \in Int
        BY <4>1, AllocationAddsUp, ControlAssumption DEF Net, Allocation, AllocationOf
      <4>3. account.over = LimitReached(runner.profit + Net, runner.available + Net)
        <5>1. runner.profit + Net \in Int /\ runner.available + Net \in Int
          BY <4>1, <4>2
        <5>2. account.over = Reached(runner.settings, runner.profit + Net,
                                Floor0(runner.available + Net))
          <6> HIDE DEF Net
          <6>1. /\ session.profit = runner.profit + Net
                /\ session.visible = Floor0(runner.available + Net)
                /\ account.over =
                     Reached(runner.settings, session.profit, session.visible)
            BY <3>1 DEF Limits, Copied
          <6> QED BY <6>1
        <5> QED BY <4>1, <5>1, <5>2, FloorReached, Zenon DEF LimitReached
      <4>4. "ended" \in RunnerPC /\ "asleep" \in RunnerPC
        BY DEF RunnerPC
      <4> QED BY <1>r, <2>7, <4>3, <4>4, Zenon DEF CheckLimits, End
    <3> QED BY <1>a, <1>p, <3>1, <3>2 DEF Limits, Copied, PastPaid, Escaped
  <2>8. CASE Recover
    <3>1. /\ runner.pc = "down" /\ account' = account /\ crashes' = crashes
          /\ runner'.pc \in {"ended", "asleep"}
      BY <1>r, <2>8 DEF Recover, End, RunnerPC, bounds
    <3> QED BY <1>a, <1>p, <3>1 DEF Limits, Copied, PastPaid, Escaped
  <2> QED BY <1>1, <2>1, <2>2, <2>3, <2>4, <2>5, <2>6, <2>7, <2>8, Zenon DEF RollStep
<1>2. CASE Crash
  <2>1. runner'.pc = "down" /\ account' = account /\ crashes' = crashes + 1
    BY <1>r, <1>2 DEF Crash, RunnerPC
  <2> QED BY <1>a, <1>p, <2>1 DEF Limits, Copied, PastPaid, Escaped
<1>3. CASE ~RollStep /\ ~Crash
  <2>1. /\ runner' = runner /\ crashes' = crashes
        /\ account'.over = account.over /\ account'.past = account.past
    BY <1>a, <1>3, RunnerKept
  <2>2. session'.profit = session.profit /\ session'.visible = session.visible
    BY <1>a, <1>3, BooksKept DEF RollStep
  <2>3. Net' = Net
    BY <2>1 DEF Net, Allocation, AllocationOf
  <2>4. Copied'
    <3> HIDE DEF Net
    <3> QED BY <2>1, <2>2, <2>3, Zenon DEF Copied, Limits
  <2>5. PastPaid'
    BY <2>1 DEF Limits, PastPaid, Escaped
  <2> QED BY <2>4, <2>5 DEF Limits
<1> QED BY <1>1, <1>2, <1>3

\* However the settings change under the roll, bets beyond a limit reached are no
\* more than the goroutines that died (PastLimitByCrash).
THEOREM PastLimitHolds == Spec => []PastLimitByCrash
<1>1. Typed /\ Limits => PastLimitByCrash
  <2> SUFFICES ASSUME Typed, Limits PROVE PastLimitByCrash
    OBVIOUS
  <2>1. account.past \in Nat /\ crashes \in Nat
    BY DEF Typed, TypeOK, Account
  <2> QED BY <2>1 DEF Limits, PastPaid, PastLimitByCrash
<1> QED BY <1>1, TypedInit, TypedStep, LimitsInit, LimitsStep, PTL DEF Spec

-----------------------------------------------------------------------------
(* RESET *)

\* A RESET waits for the next roll: between rolls the row has its base; once a roll
\* has passed its reset, the row has the flag that AdvanceState reads again.
OwedInRow ==
  account.owed # {} =>
    /\ runner.pc # "reset" /\ session.override = 0
    /\ ~Rolling => IF session.reset THEN session.snapshot.base \in account.owed
                                    ELSE session.bet \in account.owed
    /\ Rolling => session.reset /\ session.snapshot.base \in account.owed
    /\ runner.pc \in {"override", "prepare", "send", "answer"}
         => runner.settings.base \in account.owed
    /\ runner.pc = "settle" => runner.bet \in account.owed

\* A roll that had to see a RESET comes to stake one of its bases.
OwedInRoll ==
  runner.owes # {} =>
    /\ runner.pc # "override"
    /\ runner.pc = "reset" =>
         runner.override = 0 /\ runner.settings.base \in runner.owes
    /\ runner.pc = "prepare" => runner.bet \in runner.owes
    /\ runner.pc \in {"send", "answer"} => bet.amount \in runner.owes

ResetKept == OwedInRow /\ OwedInRoll

\* No RESET to begin with.
LEMMA ResetInit == Init => ResetKept
<1> SUFFICES ASSUME Init PROVE ResetKept
  OBVIOUS
<1>1. account.owed = {}
  BY DEF Init
<1>2. runner.owes = {}
  BY DEF Init, Resting
<1> QED BY <1>1, <1>2 DEF ResetKept, OwedInRow, OwedInRoll

\* The end of a roll, or of its goroutine, leaves the RESET in the row.
LEMMA RestKeeps ==
  ASSUME Typed, ResetKept, NEW pc \in {"asleep", "ended", "down"},
         runner' = Resting(pc), account' = account,
         session'.override = session.override, session'.reset = session.reset,
         session'.bet = session.bet, session'.snapshot = session.snapshot
  PROVE  ResetKept'
<1>1. runner'.pc = pc /\ runner'.owes = {}
  BY DEF Resting
<1>2. OwedInRoll'
  BY <1>1 DEF OwedInRoll
<1>3. ~Rolling'
  BY <1>1 DEF Rolling
<1>4. ASSUME account.owed # {}
      PROVE  IF session.reset THEN session.snapshot.base \in account.owed
                              ELSE session.bet \in account.owed
  BY <1>4 DEF ResetKept, OwedInRow
<1>5. OwedInRow'
  <2>1. account.owed # {} => session.override = 0
    BY DEF ResetKept, OwedInRow
  <2> QED BY <1>1, <1>3, <1>4, <2>1 DEF OwedInRow
<1> QED BY <1>2, <1>5 DEF ResetKept

\* A step that leaves the goroutine alone keeps what its roll must stake.
LEMMA RollKeeps ==
  ASSUME OwedInRoll, runner' = runner, bet' = bet PROVE OwedInRoll'
BY DEF OwedInRoll

\* Each step hands the RESET on, or finds it done.
LEMMA ResetStep == Typed /\ ResetKept /\ [Next]_vars => ResetKept'
<1> SUFFICES ASSUME Typed, ResetKept, [Next]_vars PROVE ResetKept'
  OBVIOUS
<1>a. /\ session \in Session /\ runner \in Runner /\ account \in Account
      /\ session.override \in Nat /\ session.reset \in BOOLEAN
      /\ OwedInRow /\ OwedInRoll
  BY DEF Typed, TypeOK, Session, ResetKept
<1>d. Complete => /\ session'.override = session.override
                  /\ session'.reset = session.reset /\ session'.bet = session.bet
                  /\ session'.snapshot = session.snapshot
  BY <1>a DEF Complete, Session
<1>1. CASE ReadSession
  <2>1. CASE Running
    <3>1. account'.owed = {}
      BY <1>a, <1>1, <2>1 DEF ReadSession, Running, Account
    <3>2. /\ runner'.pc = AfterRead(session.reset, session.override)
          /\ runner'.settings = session.snapshot /\ runner'.bet = session.bet
          /\ runner'.override = session.override
          /\ runner'.owes = IF session.override > 0 THEN {} ELSE account.owed
      BY <1>1, <2>1 DEF ReadSession, Running, Resting
    <3>3. ~Rolling
      BY <1>1 DEF ReadSession, Rolling
    <3>4. OwedInRoll'
      BY <1>a, <3>2, <3>3 DEF OwedInRow, OwedInRoll, AfterRead
    <3> QED BY <3>1, <3>4 DEF ResetKept, OwedInRow
  <2>2. CASE ~Running
    <3>1. runner' = Resting("ended") /\ account' = account
      BY <1>1, <2>2 DEF ReadSession, End
    <3>2. /\ session'.override = session.override /\ session'.reset = session.reset
          /\ session'.bet = session.bet /\ session'.snapshot = session.snapshot
      BY <1>d, <1>1, <2>2 DEF ReadSession
    <3> QED BY <3>1, <3>2, RestKeeps
  <2> QED BY <2>1, <2>2
<1>2. CASE ApplyReset
  <2>1. account.owed = {} /\ account' = account
    BY <1>a, <1>2 DEF ApplyReset, OwedInRow
  <2>2. /\ runner'.pc = AfterRead(FALSE, runner.override)
        /\ runner'.bet = runner.settings.base /\ runner'.owes = runner.owes
    BY <1>a, <1>2 DEF ApplyReset, Runner
  <2>3. OwedInRoll'
    BY <1>a, <1>2, <2>2 DEF ApplyReset, OwedInRoll, AfterRead
  <2> QED BY <2>1, <2>3 DEF ResetKept, OwedInRow
<1>3. CASE ApplyOverride
  <2>1. runner.owes = {}
    BY <1>a, <1>3 DEF ApplyOverride, OwedInRoll
  <2>2. /\ runner'.pc = "prepare" /\ runner'.owes = runner.owes
        /\ runner'.settings = runner.settings
    BY <1>a, <1>3 DEF ApplyOverride, Runner
  <2>3. account'.owed = account.owed
    BY <1>a, <1>3 DEF ApplyOverride, Account
  <2>4. /\ session'.override = 0 /\ session'.reset = session.reset
        /\ session'.snapshot = session.snapshot
    BY <1>a, <1>3 DEF ApplyOverride, Session, NoOverride
  <2>5. runner.pc = "override"
    BY <1>3 DEF ApplyOverride
  <2> QED BY <1>a, <2>1, <2>2, <2>3, <2>4, <2>5
        DEF ResetKept, OwedInRow, OwedInRoll, Rolling
<1>4. CASE Prepare
  <2>1. runner.pc = "prepare"
    BY <1>4 DEF Prepare
  <2>2. CASE Affordable /\ WithinMaximum /\ Running
    <3>1. /\ runner'.pc = "send" /\ runner'.owes = runner.owes
          /\ runner'.settings = runner.settings /\ session' = session
      BY <1>a, <1>4, <2>2 DEF Prepare, Runner
    <3>2. account'.owed = account.owed
      BY <1>a, <1>4, <2>2 DEF Prepare, Account
    <3>3. bet'.amount = runner.bet
      BY <1>4, <2>2 DEF Prepare
    <3> QED BY <1>a, <2>1, <3>1, <3>2, <3>3
          DEF ResetKept, OwedInRow, OwedInRoll, Rolling
  <2>3. CASE ~(Affordable /\ WithinMaximum /\ Running)
    BY <1>d, <1>4, <2>3, RestKeeps DEF Prepare, End
  <2> QED BY <2>2, <2>3
<1>5. CASE MarkSent
  <2>1. runner.pc = "send" /\ session' = session /\ account' = account
    BY <1>5 DEF MarkSent
  <2>2. /\ runner'.pc = "answer" /\ runner'.owes = runner.owes
        /\ runner'.settings = runner.settings
    BY <1>a, <1>5 DEF MarkSent, Runner
  <2>3. bet'.amount = bet.amount
    BY <1>5 DEF MarkSent, Typed, TypeOK, Bet
  <2> QED BY <1>a, <2>1, <2>2, <2>3 DEF ResetKept, OwedInRow, OwedInRoll, Rolling
<1>6. CASE AnswerFails
  <2>1. /\ session'.override = session.override /\ session'.reset = session.reset
        /\ session'.bet = session.bet /\ session'.snapshot = session.snapshot
    BY <1>a, <1>6 DEF AnswerFails, Complete, Session
  <2> QED BY <1>6, <2>1, RestKeeps DEF AnswerFails, End
<1>7. CASE AdvanceState
  <2>1. /\ runner.pc = "answer" /\ session' = session /\ account' = account
        /\ runner'.pc = "settle" /\ runner'.owes = {}
    BY <1>a, <1>7 DEF AdvanceState, Runner
  <2>2. ASSUME account.owed # {} PROVE runner'.bet \in account.owed
    <3>1. session.reset /\ runner.settings.base \in account.owed
      BY <1>a, <2>1, <2>2 DEF OwedInRow, Rolling
    <3>2. runner'.bet = runner.settings.base
      <4>1. PICK a \in Answers :
              runner'.bet = Advance(runner.settings,
                        [bet |-> runner.bet, cycle |-> runner.cycle,
                         streak |-> runner.streak, last |-> runner.last,
                         reset |-> ResetGiven],
                        a.result, AllocationOf(a.gross).user).bet
        BY <1>a, <1>7 DEF AdvanceState, Runner
      <4> DEFINE st == [bet |-> runner.bet, cycle |-> runner.cycle,
                        streak |-> runner.streak, last |-> runner.last,
                        reset |-> ResetGiven]
      <4>2. st.reset
        BY <3>1 DEF ResetGiven
      <4>3. /\ st.bet \in Nat \ {0} /\ st.cycle \in Int /\ st.streak \in Nat
            /\ runner.settings \in Settings
        <5>1. /\ runner.bet \in Nat /\ runner.cycle \in Int /\ runner.streak \in Nat
              /\ runner.settings \in Settings
          BY <1>a DEF Runner
        <5>2. runner.bet > 0
          BY <2>1 DEF Typed, Active
        <5> QED BY <5>1, <5>2
      <4>4. a.result \in Results /\ a.gross \in Int
        <5>1. bet.amount \in Nat
          BY DEF Typed, TypeOK, Bet
        <5> QED BY <5>1, ControlAssumption DEF Answers, Results
      <4>5. AllocationOf(a.gross).user \in Int
        BY <4>4, AllocationAddsUp, ControlAssumption DEF AllocationOf
      <4>6. runner'.bet =
              Advance(runner.settings, st, a.result, AllocationOf(a.gross).user).bet
        BY <4>1
      <4>7. st.reset \in BOOLEAN
        BY <1>a DEF ResetGiven
      <4> HIDE DEF st
      <4> DEFINE net == AllocationOf(a.gross).user
                 settings == runner.settings
      <4>8. st.reset => Advance(settings, st, a.result, net).bet = settings.base
        <5>1. /\ settings \in Settings /\ net \in Int /\ a.result \in Results
              /\ st.bet \in Nat \ {0} /\ st.cycle \in Int /\ st.streak \in Nat
              /\ st.reset \in BOOLEAN
          BY <4>3, <4>4, <4>5, <4>7
        <5> HIDE DEF net, settings
        <5> QED BY <5>1, AdvanceTyped
      <4> QED BY <4>2, <4>6, <4>8
    <3> QED BY <3>1, <3>2
  <2>3. OwedInRow'
    BY <1>a, <2>1, <2>2 DEF OwedInRow, Rolling
  <2> QED BY <2>1, <2>3 DEF ResetKept, OwedInRoll
<1>8. CASE Settle
  <2>1. /\ runner.pc = "settle" /\ runner'.pc = "limits" /\ runner'.owes = runner.owes
    BY <1>a, <1>8 DEF Settle, Runner
  <2>2. account'.owed = account.owed
    BY <1>a, <1>8 DEF Settle, Account
  <2>3. /\ session'.override = session.override /\ session'.reset = FALSE
        /\ session'.bet = runner.bet
    BY <1>a, <1>8 DEF Settle, Session
  <2>4. OwedInRow'
    BY <1>a, <2>1, <2>2, <2>3 DEF OwedInRow, Rolling
  <2>5. OwedInRoll'
    BY <2>1 DEF OwedInRoll
  <2> QED BY <2>4, <2>5 DEF ResetKept
<1>9. CASE CheckLimits
  BY <1>d, <1>9, RestKeeps DEF CheckLimits, End
<1>10. CASE Crash
  BY <1>10, RestKeeps DEF Crash
<1>11. CASE Recover
  <2>1. /\ session'.override = session.override /\ session'.reset = session.reset
        /\ session'.bet = session.bet /\ session'.snapshot = session.snapshot
    BY <1>a, <1>11 DEF Recover, Session
  <2>2. runner' = Resting("asleep") \/ runner' = Resting("ended")
    BY <1>11 DEF Recover, End
  <2>3. account' = account
    BY <1>11 DEF Recover
  <2> QED BY <2>1, <2>2, <2>3, RestKeeps
<1>12. CASE RequestStop
  <2>1. /\ session'.override = session.override /\ session'.reset = session.reset
        /\ session'.bet = session.bet /\ session'.snapshot = session.snapshot
    BY <1>a, <1>12 DEF RequestStop, Session
  <2>2. runner' = runner /\ account' = account /\ bet' = bet
    BY <1>12 DEF RequestStop
  <2>3. OwedInRow'
    BY <1>a, <2>1, <2>2 DEF OwedInRow, Rolling
  <2> QED BY <1>a, <2>2, <2>3, RollKeeps DEF ResetKept
<1>13. ASSUME NEW c \in Callers, LookForPending(c) PROVE ResetKept'
  BY <1>a, <1>13, RollKeeps DEF LookForPending, ResetKept, OwedInRow, Rolling
<1>14. ASSUME NEW c \in Callers, Reset(c) PROVE ResetKept'
  <2>1. runner' = runner /\ bet' = bet
    BY <1>14 DEF Reset
  <2>2. CASE session' = session /\ account' = account
    <3>1. OwedInRow'
      BY <1>a, <2>1, <2>2 DEF OwedInRow, Rolling
    <3> QED BY <1>a, <2>1, <3>1, RollKeeps DEF ResetKept
  <2>3. CASE WriteFlag
    <3>1. /\ session'.override = 0 /\ session'.reset = TRUE
          /\ session'.snapshot = session.snapshot
      BY <1>a, <2>3 DEF WriteFlag, Session
    <3>2. account'.owed = IF runner.pc \in {"reset", "settle"} THEN {}
            ELSE {session.snapshot.base}
                   \cup (IF Rolling THEN {runner.settings.base} ELSE {})
      BY <1>a, <2>3 DEF WriteFlag, Account
    <3>3. OwedInRow'
      BY <1>a, <2>1, <3>1, <3>2 DEF OwedInRow, Rolling
    <3> QED BY <1>a, <2>1, <3>3, RollKeeps DEF ResetKept
  <2>4. CASE WriteRow
    <3>1. /\ session'.override = 0 /\ session'.reset = FALSE
          /\ session'.bet = saved.base
      BY <1>a, <2>4 DEF WriteRow, Session
    <3>2. account'.owed = IF Rolling THEN {} ELSE {saved.base}
      BY <1>a, <2>4 DEF WriteRow, Account
    <3>3. OwedInRow'
      BY <1>a, <2>1, <3>1, <3>2 DEF OwedInRow, Rolling
    <3> QED BY <1>a, <2>1, <3>3, RollKeeps DEF ResetKept
  <2> QED BY <1>14, <2>2, <2>3, <2>4 DEF Reset
<1>15. ASSUME NEW a \in Overrides, Override(a) PROVE ResetKept'
  <2>1. account'.owed = {} /\ runner' = runner /\ bet' = bet
    BY <1>a, <1>15 DEF Override, Account
  <2> QED BY <1>a, <2>1, RollKeeps DEF ResetKept, OwedInRow
<1>16. ASSUME NEW b \in BOOLEAN, StopOnWin(b) PROVE ResetKept'
  <2>1. /\ session'.override = session.override /\ session'.reset = session.reset
        /\ session'.bet = session.bet /\ session'.snapshot = session.snapshot
    BY <1>a, <1>16 DEF StopOnWin, Session
  <2>2. account'.owed = account.owed /\ runner' = runner /\ bet' = bet
    BY <1>a, <1>16 DEF StopOnWin, Account
  <2>3. OwedInRow'
    BY <1>a, <2>1, <2>2 DEF OwedInRow, Rolling
  <2> QED BY <1>a, <2>2, <2>3, RollKeeps DEF ResetKept
<1>17. ASSUME NEW s \in Savers,
              ReadSaved(s) \/ ReadSwitch(s) \/ \E p \in Profiles : Save(s, p)
       PROVE  ResetKept'
  <2>1. /\ session' = session /\ runner' = runner /\ bet' = bet
        /\ account'.owed = account.owed
    BY <1>a, <1>17 DEF ReadSaved, ReadSwitch, Save, saving, Account
  <2>2. OwedInRow'
    BY <1>a, <2>1 DEF OwedInRow, Rolling
  <2> QED BY <1>a, <2>1, <2>2, RollKeeps DEF ResetKept
<1>18. ASSUME NEW s \in Savers, Sync(s) PROVE ResetKept'
  <2>1. runner' = runner /\ bet' = bet
    BY <1>18 DEF Sync, saving
  <2>2. CASE session' = session /\ account' = account
    <3>1. OwedInRow'
      BY <1>a, <2>1, <2>2 DEF OwedInRow, Rolling
    <3> QED BY <1>a, <2>1, <3>1, RollKeeps DEF ResetKept
  <2>3. CASE ~(session' = session /\ account' = account)
    <3> DEFINE changed == session.snapshot.base # saver[s].settings.base
    <3>1. CASE changed
      <4>1. account'.owed = {}
        BY <1>a, <1>18, <2>3, <3>1 DEF Sync, Account
      <4> QED BY <1>a, <2>1, <4>1, RollKeeps DEF ResetKept, OwedInRow
    <3>2. CASE ~changed
      <4>1. /\ session'.override = session.override /\ session'.reset = session.reset
            /\ session'.bet = session.bet
            /\ session'.snapshot.base = session.snapshot.base
        BY <1>a, <1>18, <2>3, <3>2 DEF Sync, Session, NewSnapshot
      <4>2. account'.owed = account.owed
        BY <1>a, <1>18, <2>3, <3>2 DEF Sync, Account
      <4>3. OwedInRow'
        BY <1>a, <2>1, <4>1, <4>2 DEF OwedInRow, Rolling
      <4> QED BY <1>a, <2>1, <4>3, RollKeeps DEF ResetKept
    <3> QED BY <3>1, <3>2
  <2> QED BY <2>2, <2>3
<1>19. CASE UNCHANGED vars
  BY <1>a, <1>19 DEF vars, ResetKept, OwedInRow, OwedInRoll, Rolling
<1> QED
  BY <1>1, <1>2, <1>3, <1>4, <1>5, <1>6, <1>7, <1>8, <1>9, <1>10, <1>11, <1>12,
     <1>13, <1>14, <1>15, <1>16, <1>17, <1>18, <1>19, Zenon
  DEF Next, RollStep, CommandStep, SaveStep

\* The roll that has to see a RESET stakes a base, whatever is saved, commanded or
\* dies between (ResetHonoured).
THEOREM ResetHolds == Spec => []ResetHonoured
<1>1. ResetKept => ResetHonoured
  BY DEF ResetKept, OwedInRoll, ResetHonoured
<1> QED BY <1>1, TypedInit, TypedStep, ResetInit, ResetStep, PTL DEF Spec

-----------------------------------------------------------------------------
(* Saved settings *)

\* A save that met no command carries the user's switch.
SwitchCarried ==
  ~account.switchCrossed =>
    /\ session.stopOnWin = account.switch
    /\ \A s \in Savers :
         saver[s].pc = "flagged" => saver[s].stopOnWin = account.switch

\* A save that met no other is alone, and what it has read is what is saved.
SaveAlone ==
  ~account.crossed =>
    /\ \A s, t \in Savers : saver[s].pc # "idle" /\ saver[t].pc # "idle" => s = t
    /\ \A s \in Savers :
         saver[s].pc \in {"read", "flagged"} => saver[s].settings = saved
    /\ Running /\ (\A s \in Savers : saver[s].pc = "idle") => session.snapshot = saved

SavesKept == SwitchCarried /\ SaveAlone

\* Everything is idle to begin with, and the snapshot is what is saved.
LEMMA SavesInit == Init => SavesKept
<1> SUFFICES ASSUME Init PROVE SavesKept
  OBVIOUS
<1>1. \A s \in Savers : saver[s].pc = "idle"
  BY DEF Init, IdleSaver
<1>2. session.snapshot = saved /\ session.stopOnWin = FALSE
  BY DEF Init
<1>3. account.switch = FALSE
  BY DEF Init
<1> QED BY <1>1, <1>2, <1>3 DEF SavesKept, SwitchCarried, SaveAlone

\* Steps that leave savers, the switch and the snapshot alone keep both.
LEMMA SavesLeft ==
  ASSUME SavesKept, saver' = saver, saved' = saved, Running' => Running,
         session'.snapshot = session.snapshot,
         session'.stopOnWin = session.stopOnWin,
         account'.switch = account.switch,
         account'.switchCrossed = account.switchCrossed,
         account'.crossed = account.crossed
  PROVE  SavesKept'
BY DEF SavesKept, SwitchCarried, SaveAlone

\* Only STOP_ON_WIN and the steps of a save touch what a save carries.
LEMMA SavesUntouched ==
  ASSUME Typed, SavesKept,
         \/ RollStep \/ Crash \/ RequestStop \/ UNCHANGED vars
         \/ \E c \in Callers : LookForPending(c) \/ Reset(c)
         \/ \E a \in Overrides : Override(a)
  PROVE  SavesKept'
<1>a. session \in Session /\ account \in Account
  BY DEF Typed, TypeOK
<1> DEFINE SessionLeft == /\ Running' => Running
                          /\ session'.snapshot = session.snapshot
                          /\ session'.stopOnWin = session.stopOnWin
           AccountLeft == /\ account'.switch = account.switch
                          /\ account'.switchCrossed = account.switchCrossed
                          /\ account'.crossed = account.crossed
           SaversLeft == saver' = saver /\ saved' = saved
<1>1. Complete => SessionLeft
  BY <1>a DEF Complete, Session, Running
<1>2. CASE RollStep
  <2>1. CASE ReadSession
    <3>1. SessionLeft
      BY <1>1, <2>1 DEF ReadSession, Running
    <3>2. AccountLeft /\ SaversLeft
      BY <1>a, <2>1 DEF ReadSession, Account, commanding
    <3> QED BY <3>1, <3>2, SavesLeft
  <2>2. CASE ApplyReset \/ ApplyOverride
    <3>1. SessionLeft
      <4>1. CASE ApplyReset
        BY <1>a, <4>1 DEF ApplyReset, Session, Running
      <4>2. CASE ApplyOverride
        BY <1>a, <4>2 DEF ApplyOverride, Session, Running
      <4> QED BY <2>2, <4>1, <4>2
    <3>2. AccountLeft /\ SaversLeft
      BY <1>a, <2>2 DEF ApplyReset, ApplyOverride, Account, commanding
    <3> QED BY <3>1, <3>2, SavesLeft
  <2>3. CASE Prepare
    <3>1. SessionLeft
      BY <1>1, <2>3 DEF Prepare, Running
    <3>2. AccountLeft /\ SaversLeft
      BY <1>a, <2>3 DEF Prepare, Account, commanding
    <3> QED BY <3>1, <3>2, SavesLeft
  <2>4. CASE MarkSent \/ AdvanceState
    BY <2>4, SavesLeft DEF MarkSent, AdvanceState, commanding, Running
  <2>5. CASE AnswerFails \/ Recover
    <3>1. SessionLeft
      BY <1>a, <2>5 DEF AnswerFails, Complete, Recover, Session, Running
    <3>2. AccountLeft /\ SaversLeft
      BY <2>5 DEF AnswerFails, Recover, commanding
    <3> QED BY <3>1, <3>2, SavesLeft
  <2>6. CASE Settle
    <3>1. SessionLeft
      BY <1>a, <2>6 DEF Settle, Session, Running
    <3>2. AccountLeft /\ SaversLeft
      BY <1>a, <2>6 DEF Settle, Account, commanding
    <3> QED BY <3>1, <3>2, SavesLeft
  <2>7. CASE CheckLimits
    <3>1. SessionLeft
      BY <1>1, <2>7 DEF CheckLimits, Running
    <3>2. AccountLeft /\ SaversLeft
      BY <2>7 DEF CheckLimits, commanding
    <3> QED BY <3>1, <3>2, SavesLeft
  <2> QED BY <1>2, <2>1, <2>2, <2>3, <2>4, <2>5, <2>6, <2>7 DEF RollStep
<1>3. CASE Crash \/ RequestStop
  <2>1. SessionLeft
    BY <1>a, <1>3 DEF Crash, RequestStop, Session, Running
  <2>2. AccountLeft /\ SaversLeft
    BY <1>3 DEF Crash, RequestStop, commanding
  <2> QED BY <2>1, <2>2, SavesLeft
<1>4. ASSUME NEW c \in Callers, LookForPending(c) \/ Reset(c) PROVE SavesKept'
  <2>1. SessionLeft
    BY <1>a, <1>4 DEF LookForPending, Reset, WriteFlag, WriteRow, Session, Running
  <2>2. AccountLeft /\ SaversLeft
    BY <1>a, <1>4 DEF LookForPending, Reset, WriteFlag, WriteRow, Account
  <2> QED BY <2>1, <2>2, SavesLeft
<1>5. ASSUME NEW a \in Overrides, Override(a) PROVE SavesKept'
  <2>1. SessionLeft
    BY <1>a, <1>5 DEF Override, Session, Running
  <2>2. AccountLeft /\ SaversLeft
    BY <1>a, <1>5 DEF Override, Account
  <2> QED BY <2>1, <2>2, SavesLeft
<1>6. CASE UNCHANGED vars
  BY <1>6, SavesLeft DEF vars, Running
<1> QED BY <1>2, <1>3, <1>4, <1>5, <1>6

\* A save and a STOP_ON_WIN that meet are marked, and so are two saves; the others
\* write what they should.
LEMMA SavesStep == Typed /\ SavesKept /\ [Next]_vars => SavesKept'
<1> SUFFICES ASSUME Typed, SavesKept, [Next]_vars PROVE SavesKept'
  OBVIOUS
<1>a. /\ session \in Session /\ account \in Account /\ saver \in [Savers -> Saver]
      /\ SwitchCarried /\ SaveAlone
  BY DEF Typed, TypeOK, SavesKept
<1>1. ASSUME NEW b \in BOOLEAN, StopOnWin(b) PROVE SavesKept'
  <2>1. /\ session'.stopOnWin = b /\ session'.snapshot = session.snapshot
        /\ session'.status = session.status
    BY <1>a, <1>1 DEF StopOnWin, Session
  <2>2. /\ account'.switch = b /\ account'.crossed = account.crossed
        /\ account'.switchCrossed = SaversAt("flagged")
    BY <1>a, <1>1 DEF StopOnWin, Account
  <2>3. saver' = saver /\ saved' = saved
    BY <1>1 DEF StopOnWin
  <2>4. SwitchCarried'
    BY <2>1, <2>2, <2>3 DEF SwitchCarried, SaversAt
  <2>5. SaveAlone'
    BY <1>a, <2>1, <2>2, <2>3 DEF SaveAlone, Running
  <2> QED BY <2>4, <2>5 DEF SavesKept
<1>2. ASSUME NEW s \in Savers, NEW p \in Profiles, Save(s, p) PROVE SavesKept'
  <2>1. /\ session' = session /\ saver[s].pc = "idle" /\ saver'[s].pc = "saved"
        /\ \A t \in Savers \ {s} : saver'[t] = saver[t]
    BY <1>a, <1>2 DEF Save, Saver
  <2>2. /\ account'.switch = account.switch
        /\ account'.switchCrossed = account.switchCrossed
        /\ account'.crossed = \E t \in Savers : saver[t].pc # "idle"
    BY <1>a, <1>2 DEF Save, Account
  <2>3. SwitchCarried'
    BY <1>a, <2>1, <2>2 DEF SwitchCarried
  <2>4. SaveAlone'
    BY <2>1, <2>2 DEF SaveAlone
  <2> QED BY <2>3, <2>4 DEF SavesKept
<1>3. ASSUME NEW s \in Savers, ReadSaved(s) PROVE SavesKept'
  <2>1. /\ saver[s].pc = "saved" /\ saver'[s].pc = "read" /\ saver'[s].settings = saved
        /\ \A t \in Savers \ {s} : saver'[t] = saver[t]
    BY <1>a, <1>3 DEF ReadSaved, Saver
  <2>2. session' = session /\ account' = account /\ saved' = saved
    BY <1>3 DEF ReadSaved
  <2>3. SwitchCarried'
    BY <1>a, <2>1, <2>2 DEF SwitchCarried
  <2>4. SaveAlone'
    BY <1>a, <2>1, <2>2 DEF SaveAlone
  <2> QED BY <2>3, <2>4 DEF SavesKept
<1>4. ASSUME NEW s \in Savers, ReadSwitch(s) PROVE SavesKept'
  <2>1. session' = session /\ account' = account /\ saved' = saved
    BY <1>4 DEF ReadSwitch
  <2>2. saver[s].pc = "read" /\ \A t \in Savers \ {s} : saver'[t] = saver[t]
    BY <1>a, <1>4 DEF ReadSwitch
  <2>3. CASE Running
    <3>1. /\ saver'[s].pc = "flagged" /\ saver'[s].settings = saver[s].settings
          /\ saver'[s].stopOnWin = session.stopOnWin
      BY <1>a, <1>4, <2>3 DEF ReadSwitch, Saver, SwitchOfSession
    <3>2. SwitchCarried'
      BY <1>a, <2>1, <2>2, <3>1 DEF SwitchCarried
    <3>3. SaveAlone'
      BY <1>a, <2>1, <2>2, <3>1 DEF SaveAlone
    <3> QED BY <3>2, <3>3 DEF SavesKept
  <2>4. CASE ~Running
    <3>1. saver'[s].pc = "idle" /\ ~Running'
      BY <1>a, <1>4, <2>1, <2>4 DEF ReadSwitch, IdleSaver, Running
    <3>2. SwitchCarried'
      BY <1>a, <2>1, <2>2, <3>1 DEF SwitchCarried
    <3>3. SaveAlone'
      BY <1>a, <2>1, <2>2, <3>1 DEF SaveAlone
    <3> QED BY <3>2, <3>3 DEF SavesKept
  <2> QED BY <2>3, <2>4
<1>5. ASSUME NEW s \in Savers, Sync(s) PROVE SavesKept'
  <2>1. /\ saver[s].pc = "flagged" /\ saver'[s].pc = "idle" /\ saved' = saved
        /\ \A t \in Savers \ {s} : saver'[t] = saver[t]
    BY <1>a, <1>5 DEF Sync, IdleSaver, saving
  <2>2. /\ account'.switch = account.switch /\ account'.crossed = account.crossed
        /\ account'.switchCrossed = account.switchCrossed
    BY <1>a, <1>5 DEF Sync, Account
  <2>3. CASE Running
    <3>1. /\ session'.snapshot = saver[s].settings
          /\ session'.stopOnWin = saver[s].stopOnWin
      <4> DEFINE changed == session.snapshot.base # saver[s].settings.base
      <4>1. session' = [session EXCEPT !.snapshot = saver[s].settings,
               !.stopOnWin = saver[s].stopOnWin,
               !.bet = IF changed THEN AsColumn(saver[s].settings.base) ELSE @,
               !.override = IF changed THEN 0 ELSE @]
        BY <1>5, <2>3, Zenon DEF Sync, NewSnapshot
      <4> QED BY <1>a, <4>1, Zenon DEF Session
    <3>2. SwitchCarried'
      BY <1>a, <2>1, <2>2, <3>1 DEF SwitchCarried
    <3>3. SaveAlone'
      BY <1>a, <2>1, <2>2, <3>1 DEF SaveAlone
    <3> QED BY <3>2, <3>3 DEF SavesKept
  <2>4. CASE ~Running
    <3>1. session' = session
      BY <1>5, <2>4 DEF Sync
    <3>2. SwitchCarried'
      BY <1>a, <2>1, <2>2, <3>1 DEF SwitchCarried
    <3>3. SaveAlone'
      BY <1>a, <2>1, <2>2, <2>4, <3>1 DEF SaveAlone, Running
    <3> QED BY <3>2, <3>3 DEF SavesKept
  <2> QED BY <2>3, <2>4
<1>6. CASE \/ RollStep \/ Crash \/ RequestStop \/ UNCHANGED vars
           \/ \E c \in Callers : LookForPending(c) \/ Reset(c)
           \/ \E a \in Overrides : Override(a)
  BY <1>6, SavesUntouched
<1> QED BY <1>1, <1>2, <1>3, <1>4, <1>5, <1>6, Zenon DEF Next, CommandStep, SaveStep

\* Saving settings keeps the last STOP_ON_WIN it did not meet, for any number of
\* savers (SwitchKept).
THEOREM SwitchHolds == Spec => []SwitchKept
<1>1. SavesKept => SwitchKept
  BY DEF SavesKept, SwitchCarried, SwitchKept
<1> QED BY <1>1, TypedInit, TypedStep, SavesInit, SavesStep, PTL DEF Spec

\* Saves that did not meet leave the session working by what is saved, for any
\* number of savers (SavedIsInForce).
THEOREM SavedHolds == Spec => []SavedIsInForce
<1>1. SavesKept => SavedIsInForce
  BY DEF SavesKept, SaveAlone, SavedIsInForce
<1> QED BY <1>1, TypedInit, TypedStep, SavesInit, SavesStep, PTL DEF Spec
=============================================================================
