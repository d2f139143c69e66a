---------------------------- MODULE SessionControl ----------------------------
(***************************************************************************)
(* One trading session under its goroutine (engine.go run, roll), the      *)
(* commands a user gives meanwhile (Command: OVERRIDE, RESET, STOP_ON_WIN) *)
(* and the settings he saves (user/trading.go saveTradingSettings,         *)
(* engine.go SyncSettings).  Every action is one statement on the row of   *)
(* the session, which all of them write.                                   *)
(*                                                                         *)
(* Leases, several processes and reconciliation are TradingEngine's; here  *)
(* a goroutine dies and another takes the session over.                    *)
(***************************************************************************)
EXTENDS RollMath

CONSTANTS
  Profiles,     \* settings a user may save (whole forms)
  Opening,      \* balance at START
  Gains,        \* gross profits of a winning bet
  Rule,         \* rule_snapshot: holding and kangden
  Exempt,       \* the user pays no fees
  Scale,        \* atomic units of a coin, 10^8 in the code
  Overrides,    \* amounts a user may ask for
  Callers,      \* callers that give RESET: queue workers, HTTP requests
  Savers,       \* requests that save settings
  MaxRolls,     \* bound: bets prepared
  MaxSaves,     \* bound: settings saved
  MaxCommands,  \* bound: commands executed
  MaxCrashes    \* bound: goroutines that die

VARIABLES
  saved,     \* user_trading_settings
  session,   \* the row of trading_sessions
  bet,       \* the pending row of provider_bets
  books,     \* sums over the COMPLETED rows of provider_bets
  runner,    \* locals of roll
  resetting, \* what RESET saw before its UPDATE
  saver,     \* locals of saveTradingSettings
  account,   \* history: what the user was promised
  rolls, saves, commands, crashes

vars == <<saved, session, bet, books, runner, resetting, saver, account,
          rolls, saves, commands, crashes>>

bounds == <<rolls, saves, commands, crashes>>

\* decodeTradingSettings; 0 switches a limit off.
Settings ==
  [base : Nat \ {0}, rate : [Results -> 0..100], resetAfter : [Results -> Nat],
   boomAfter : [Results -> Nat], boomAmount : [Results -> Nat],
   profitSession : Nat, maximumBet : Nat, takeProfit : Nat, stopLoss : Nat,
   balanceBelow : Nat]

ASSUME ControlAssumption ==
  /\ Whole \in Nat \ {0} /\ Scale \in Nat \ {0} /\ Opening \in Nat
  /\ Profiles \subseteq Settings /\ Profiles # {}
  /\ Gains \subseteq Nat \ {0} /\ Overrides \subseteq Nat \ {0}
  /\ RuleOK(Rule) /\ Exempt \in BOOLEAN
  /\ MaxRolls \in Nat /\ MaxSaves \in Nat /\ MaxCommands \in Nat
  /\ MaxCrashes \in Nat

Status == {"RUNNING", "STOP_REQUESTED", "RECONCILIATION_REQUIRED", "COMPLETED"}

LastResult == Results \cup {""}

\* override is 0 for NULL; snapshot leaves StopOnWin to stopOnWin.
Session ==
  [status : Status, bet : Nat \ {0}, visible : Nat, profit : Int, cycle : Int,
   streak : Nat, last : LastResult, override : Nat, reset : BOOLEAN,
   snapshot : Settings, stopOnWin : BOOLEAN]

Pending == {"PREPARED", "SENT"}
Bet == [status : Pending \cup {"NONE"}, amount : Nat]
NoBet == [status |-> "NONE", amount |-> 0]

\* The statement roll comes to next.
RunnerPC == {"asleep", "reset", "override", "prepare", "send", "answer",
             "settle", "limits", "ended", "down"}

\* owes is history: the bases this roll may stake for a RESET it had to see.
Runner ==
  [pc : RunnerPC, settings : Settings, bet : Nat, cycle : Int, streak : Nat,
   last : LastResult, override : Nat, reset : BOOLEAN, profit : Int,
   available : Nat, gross : Int, result : LastResult,
   owes : SUBSET Nat]

Resting(pc) ==
  [pc |-> pc, settings |-> CHOOSE p \in Profiles : TRUE, bet |-> 0, cycle |-> 0,
   streak |-> 0, last |-> "", override |-> 0, reset |-> FALSE, profit |-> 0,
   available |-> 0, gross |-> 0, result |-> "", owes |-> {}]

\* What SyncSettings has read when it comes to its UPDATE.
Saver == [pc : {"idle", "saved", "read", "flagged"}, settings : Settings,
          stopOnWin : BOOLEAN]

IdleSaver == [pc |-> "idle", settings |-> CHOOSE p \in Profiles : TRUE,
              stopOnWin |-> FALSE]

\* owed: bases the next roll may stake, {} when no RESET waits; switch: the last
\* STOP_ON_WIN; crossed, switchCrossed: a save overlapped another, or a command;
\* unstaked: executions of OVERRIDE no bet has taken; over: the last roll
\* reached a limit; past: bets prepared all the same.
Account ==
  [owed : SUBSET Nat, switch : BOOLEAN, crossed : BOOLEAN,
   switchCrossed : BOOLEAN, unstaked : Int, over : BOOLEAN, past : Nat]

Init ==
  /\ saved \in Profiles
  /\ session = [status |-> "RUNNING", bet |-> saved.base, visible |-> Opening,
                profit |-> 0, cycle |-> 0, streak |-> 0, last |-> "",
                override |-> 0, reset |-> FALSE, snapshot |-> saved,
                stopOnWin |-> FALSE]
  /\ bet = NoBet
  /\ books = [gross |-> 0, user |-> 0, fees |-> 0]
  /\ runner = Resting("asleep")
  /\ resetting = [c \in Callers |-> "no"]
  /\ saver = [s \in Savers |-> IdleSaver]
  /\ account = [owed |-> {}, switch |-> FALSE, crossed |-> FALSE,
                switchCrossed |-> FALSE, unstaked |-> 0,
                over |-> FALSE, past |-> 0]
  /\ rolls = 0 /\ saves = 0 /\ commands = 0 /\ crashes = 0

Running == session.status = "RUNNING"

-----------------------------------------------------------------------------
(* roll *)

commanding == <<saved, resetting, saver>>

\* The statement that follows the reading of the row, given what was read.
AfterRead(resets, override) ==
  IF resets THEN "reset" ELSE IF override > 0 THEN "override" ELSE "prepare"

End == runner' = Resting("ended")

\* Ledger.Complete; a session it does not match is an error, which ends the
\* goroutine all the same.
Complete ==
  session' = IF session.status = "COMPLETED" THEN session
             ELSE [session EXCEPT !.status = "COMPLETED"]

ReadSession ==
  /\ runner.pc = "asleep"
  /\ \/ /\ Running
        /\ runner' = [Resting(AfterRead(session.reset, session.override))
             EXCEPT !.settings = session.snapshot, !.bet = session.bet,
                    !.cycle = session.cycle, !.streak = session.streak,
                    !.last = session.last, !.override = session.override,
                    !.reset = session.reset, !.profit = session.profit,
                    !.owes = IF session.override > 0 THEN {} ELSE account.owed]
        /\ account' = [account EXCEPT !.owed = {}]
        /\ UNCHANGED session
     \/ /\ ~Running
        /\ IF session.status = "STOP_REQUESTED" THEN Complete ELSE UNCHANGED session
        /\ End
        /\ UNCHANGED account
  /\ UNCHANGED <<commanding, bet, books, bounds>>

\* What RESET left for the next roll.
ApplyReset ==
  /\ runner.pc = "reset"
  /\ runner' = [runner EXCEPT !.pc = AfterRead(FALSE, runner.override),
                  !.bet = runner.settings.base, !.streak = 0, !.last = ""]
  /\ session' = [session EXCEPT !.reset = FALSE, !.bet = runner.settings.base,
                   !.streak = 0, !.last = ""]
  /\ UNCHANGED <<commanding, bet, books, account, bounds>>

\* The override in the row once a roll has taken it.
KeptOverride == session.override                       \* mutant
NoOverride == 0

ApplyOverride ==
  /\ runner.pc = "override"
  /\ runner' = [runner EXCEPT !.pc = "prepare", !.bet = runner.override]
  /\ session' = [session EXCEPT !.override = NoOverride, !.bet = runner.override]
  /\ account' = [account EXCEPT !.unstaked = @ - 1]
  /\ UNCHANGED <<commanding, bet, books, bounds>>

\* Bets the roll may make.
Affordable == runner.bet <= session.visible
WithinMaximum ==
  runner.settings.maximumBet > 0 => runner.bet <= runner.settings.maximumBet

\* The balance shown changes by settlements only, so that the check may be taken
\* with PrepareBet, which locks the row and looks at its status.
Prepare ==
  /\ runner.pc = "prepare"
  /\ IF Affordable /\ WithinMaximum /\ Running
       THEN /\ rolls < MaxRolls
            /\ rolls' = rolls + 1
            /\ bet' = [status |-> "PREPARED", amount |-> runner.bet]
            /\ runner' = [runner EXCEPT !.pc = "send", !.available = session.visible]
            /\ account' = [account EXCEPT !.past = IF account.over THEN @ + 1 ELSE @]
            /\ UNCHANGED session
       ELSE Complete /\ End /\ UNCHANGED <<bet, account, rolls>>
  /\ UNCHANGED <<commanding, books, saves, commands, crashes>>

MarkSent ==
  /\ runner.pc = "send"
  /\ bet' = [bet EXCEPT !.status = "SENT"]
  /\ runner' = [runner EXCEPT !.pc = "answer"]
  /\ UNCHANGED <<commanding, session, books, account, bounds>>

\* The provider refused the bet, or nobody knows what it did.  PostgreSQL refuses the
\* statements that would record either (FailConfirmed, RequireReconciliation), and
\* run completes the session over the bet.
AnswerFails ==
  /\ runner.pc = "answer"
  /\ Complete
  /\ End
  /\ UNCHANGED <<commanding, bet, books, account, bounds>>

AllocationOf(gross) == AllocateProfit(gross, Rule, Exempt)

\* A RESET given during the roll makes the next bet the base: its flag is read
\* again when the answer is there.
StaleFlag == runner.reset                              \* mutant
ResetGiven == session.reset

Answers ==
  {[result |-> "WIN", gross |-> g] : g \in Gains}
    \cup {[result |-> "LOSS", gross |-> -bet.amount]}

\* From here the locals are those of the next roll.
AdvanceState ==
  /\ runner.pc = "answer"
  /\ \E a \in Answers :
       LET next == Advance(runner.settings,
                     [bet |-> runner.bet, cycle |-> runner.cycle,
                      streak |-> runner.streak, last |-> runner.last,
                      reset |-> ResetGiven], a.result, AllocationOf(a.gross).user)
       IN runner' = [runner EXCEPT !.pc = "settle", !.result = a.result,
            !.gross = a.gross, !.bet = next.bet, !.cycle = next.cycle,
            !.streak = next.streak, !.last = next.last, !.owes = {}]
  /\ UNCHANGED <<commanding, session, bet, books, account, bounds>>

Allocation == AllocationOf(runner.gross)
Net == Allocation.user

\* The limits a settled roll may have reached, from the settings it began with.
Reached(settings, profit, balance) ==
  \/ settings.takeProfit > 0 /\ profit >= settings.takeProfit
  \/ settings.stopLoss > 0 /\ profit <= -settings.stopLoss
  \/ settings.balanceBelow > 0 /\ balance <= settings.balanceBelow

Floor0(amount) == IF amount > 0 THEN amount ELSE 0

\* The profit of the session after a settlement.
GrossAfter == session.profit + runner.gross            \* mutant
ProfitAfter == session.profit + Net

\* One transaction completes the bet and writes what roll computed over
\* whatever the row has by then, the flag of RESET included.
Settle ==
  /\ runner.pc = "settle"
  /\ session' = [session EXCEPT
       !.visible = Floor0(@ + Net), !.profit = ProfitAfter,
       !.cycle = runner.cycle, !.bet = runner.bet, !.streak = runner.streak,
       !.last = runner.last, !.reset = FALSE]
  /\ bet' = NoBet
  /\ books' = [gross |-> books.gross + runner.gross, user |-> books.user + Net,
               fees |-> books.fees + Allocation.holding + Allocation.kangden]
  /\ runner' = [runner EXCEPT !.pc = "limits"]
  /\ account' = [account EXCEPT !.over =
       Reached(runner.settings, session'.profit, session'.visible)]
  /\ UNCHANGED <<commanding, bounds>>

\* What roll takes for a limit reached.
ProfitOnly(profit, balance) ==                         \* mutant
  Reached([runner.settings EXCEPT !.stopLoss = 0], profit, balance)
LimitReached(profit, balance) == Reached(runner.settings, profit, balance)

\* The switch is read from the row as it is now.
CheckLimits ==
  /\ runner.pc = "limits"
  /\ IF \/ session.status = "STOP_REQUESTED"
        \/ session.stopOnWin /\ runner.result = "WIN"
        \/ LimitReached(runner.profit + Net, runner.available + Net)
       THEN Complete /\ End
       ELSE runner' = Resting("asleep") /\ UNCHANGED session
  /\ UNCHANGED <<commanding, bet, books, account, bounds>>

-----------------------------------------------------------------------------
(* The goroutine dies with its process, and Recover takes the session over *)

Crash ==
  /\ runner.pc \notin {"ended", "down"}
  /\ crashes < MaxCrashes
  /\ crashes' = crashes + 1
  /\ runner' = Resting("down")
  /\ UNCHANGED <<commanding, session, bet, books, account, rolls, saves, commands>>

Recover ==
  /\ runner.pc = "down"
  /\ IF bet.status = "SENT"
       THEN /\ session' = [session EXCEPT !.status = "RECONCILIATION_REQUIRED"]
            /\ End
            /\ UNCHANGED bet
       ELSE runner' = Resting("asleep") /\ bet' = NoBet /\ UNCHANGED session
  /\ UNCHANGED <<commanding, books, account, bounds>>

\* stopTrading, or an admin.
RequestStop ==
  /\ Running
  /\ session' = [session EXCEPT !.status = "STOP_REQUESTED"]
  /\ UNCHANGED <<commanding, bet, books, runner, account, bounds>>
-----------------------------------------------------------------------------
(* Engine.Command.  It fails, and changes nothing, unless the session is       *)
(* RUNNING.                                                                    *)

\* Steps of roll between reading the row and writing it back.
Rolling == runner.pc \notin {"asleep", "limits", "ended", "down"}

SaversAt(pc) == \E s \in Savers : saver[s].pc = pc

Obey ==
  /\ commands < MaxCommands
  /\ commands' = commands + 1
  /\ UNCHANGED <<rolls, saves, crashes>>

Override(amount) ==
  /\ Running
  /\ Obey
  /\ session' = [session EXCEPT !.override = amount]
  /\ account' = [account EXCEPT !.owed = {}, !.unstaked = @ + 1]
  /\ UNCHANGED <<saved, bet, books, runner, resetting, saver>>

\* The flag touches the snapshot only; a save that has read the flag and not yet
\* written will undo it.
StopOnWin(enabled) ==
  /\ Running
  /\ Obey
  /\ session' = [session EXCEPT !.stopOnWin = enabled]
  /\ account' = [account EXCEPT !.switch = enabled,
                   !.switchCrossed = SaversAt("flagged")]
  /\ UNCHANGED <<saved, bet, books, runner, resetting, saver>>

\* RESET asks for a pending bet in one statement and writes in another.
LookForPending(c) ==
  /\ Running
  /\ Obey
  /\ resetting[c] = "no"
  /\ resetting' = [resetting EXCEPT ![c] =
       IF bet.status \in Pending THEN "flag" ELSE "row"]
  /\ UNCHANGED <<saved, session, bet, books, runner, saver, account>>

\* The flag is seen by the roll in progress, or by the next; not by one that is
\* about to clear it.
WriteFlag ==
  /\ session' = [session EXCEPT !.reset = TRUE, !.override = 0]
  /\ account' = [account EXCEPT !.owed =
       IF runner.pc \in {"reset", "settle"} THEN {}
       ELSE {session.snapshot.base} \cup (IF Rolling THEN {runner.settings.base} ELSE {})]

\* The row is overwritten by a roll in progress.
WriteRow ==
  /\ session' = [session EXCEPT !.bet = saved.base, !.override = 0, !.cycle = 0,
                   !.streak = 0, !.last = "", !.reset = FALSE]
  /\ account' = [account EXCEPT !.owed = IF Rolling THEN {} ELSE {saved.base}]

Reset(c) ==
  /\ resetting[c] # "no"
  /\ IF Running
       THEN IF resetting[c] = "flag" THEN WriteFlag ELSE WriteRow
       ELSE UNCHANGED <<session, account>>
  /\ resetting' = [resetting EXCEPT ![c] = "no"]
  /\ UNCHANGED <<saved, bet, books, runner, saver, bounds>>

-----------------------------------------------------------------------------
(* saveTradingSettings.  What the form leaves out is what was read before, so  *)
(* that any settings may come of it.                                           *)

saving == <<bet, books, runner, resetting, rolls, commands, crashes>>

Save(s, p) ==
  /\ saver[s].pc = "idle"
  /\ saves < MaxSaves
  /\ saves' = saves + 1
  /\ saved' = p
  /\ saver' = [saver EXCEPT ![s].pc = "saved"]
  /\ account' = [account EXCEPT !.crossed =
       \E t \in Savers : saver[t].pc # "idle"]
  /\ UNCHANGED <<session, saving>>

\* SyncSettings: engine.settings.
ReadSaved(s) ==
  /\ saver[s].pc = "saved"
  /\ saver' = [saver EXCEPT ![s].pc = "read", ![s].settings = saved]
  /\ UNCHANGED <<saved, session, account, saves, saving>>

\* The switch of the session, which the saved settings must not change.
NoSwitch == FALSE                                      \* mutant
SwitchOfSession == session.stopOnWin

ReadSwitch(s) ==
  /\ saver[s].pc = "read"
  /\ saver' = [saver EXCEPT ![s] =
       IF Running THEN [@ EXCEPT !.pc = "flagged", !.stopOnWin = SwitchOfSession]
       ELSE IdleSaver]
  /\ UNCHANGED <<saved, session, account, saves, saving>>

\* The snapshot counts a bet in atomic units and the column in coins: cast from
\* one to the other, the base becomes Scale times itself.
AsColumn(base) == base * Scale

\* The snapshot the session gets.
BaseAlone(s) == [session.snapshot EXCEPT !.base = saver[s].settings.base] \* mutant
NewSnapshot(s) == saver[s].settings

Sync(s) ==
  LET new == saver[s].settings
      changed == session.snapshot.base # new.base
  IN
  /\ saver[s].pc = "flagged"
  /\ IF Running
       THEN /\ session' = [session EXCEPT !.snapshot = NewSnapshot(s),
                             !.stopOnWin = saver[s].stopOnWin,
                             !.bet = IF changed THEN AsColumn(new.base) ELSE @,
                             !.override = IF changed THEN 0 ELSE @]
            /\ account' = [account EXCEPT !.owed = IF changed THEN {} ELSE @]
       ELSE UNCHANGED <<session, account>>
  /\ saver' = [saver EXCEPT ![s] = IdleSaver]
  /\ UNCHANGED <<saved, saves, saving>>

-----------------------------------------------------------------------------
RollStep ==
  \/ ReadSession \/ ApplyReset \/ ApplyOverride \/ Prepare \/ MarkSent
  \/ AnswerFails \/ AdvanceState \/ Settle \/ CheckLimits \/ Recover

SaveStep(s) == ReadSaved(s) \/ ReadSwitch(s) \/ Sync(s)

\* OVERRIDE and STOP_ON_WIN are one statement, of any caller.
CommandStep ==
  \/ \E c \in Callers : LookForPending(c) \/ Reset(c)
  \/ \E a \in Overrides : Override(a)
  \/ \E b \in BOOLEAN : StopOnWin(b)

Next ==
  \/ RollStep \/ Crash \/ RequestStop \/ CommandStep
  \/ \E s \in Savers : SaveStep(s) \/ \E p \in Profiles : Save(s, p)

Spec == Init /\ [][Next]_vars

-----------------------------------------------------------------------------
(* Properties *)

\* Type invariant of the model.
TypeOK ==
  /\ saved \in Settings
  /\ session \in Session
  /\ bet \in Bet
  /\ books \in [gross : Int, user : Int, fees : Nat]
  /\ runner \in Runner
  /\ resetting \in [Callers -> {"no", "flag", "row"}]
  /\ saver \in [Savers -> Saver]
  /\ account \in Account
  /\ rolls \in 0..MaxRolls /\ saves \in 0..MaxSaves
  /\ commands \in 0..MaxCommands /\ crashes \in 0..MaxCrashes

\* Whatever is written into the row while a roll works on its copy, the profit of
\* the session is the user's share of its settled bets, and with the fees it is
\* their gross profit (ledger.go settle, allocation.go AllocateProfit).
ProfitAddsUp ==
  /\ session.profit = books.user
  /\ books.gross = books.user + books.fees

\* The roll that has to see a RESET stakes the base (engine.go Command and roll,
\* runtime.go ManualReset); one given between a roll's reading of the row and its
\* writing is overwritten.
ResetHonoured ==
  runner.pc \in {"send", "answer"} /\ runner.owes # {} => bet.amount \in runner.owes

\* Saving settings keeps the last STOP_ON_WIN, unless it was given between
\* SyncSettings' reading of the switch and its writing (engine.go:653, "preserving
\* the session-only Stop Win switch").
SwitchKept == ~account.switchCrossed => session.stopOnWin = account.switch

\* Once saves that did not overlap are done, the running session works by what is
\* saved (BUSINESS_FLOW.md section 4: new settings apply from the next roll).
SavedIsInForce ==
  /\ Running /\ ~account.crossed
  /\ \A s \in Savers : saver[s].pc = "idle"
  => session.snapshot = saved

\* A bet beyond a limit the session has reached takes a goroutine that died between
\* the settlement and the check (engine.go roll, "Take Profit tercapai").
PastLimitByCrash == account.past <= crashes

\* An execution of OVERRIDE is staked at most once, crashes included (engine.go
\* roll clears next_override in the statement that takes the amount).
OverrideStakedOnce == account.unstaked >= 0

\* A changed base is the next bet (BUSINESS_FLOW.md section 4, user/trading.go
\* "applies: next_roll").
NewBaseApplies ==
  [][session'.snapshot.base # session.snapshot.base
       => session'.bet = session'.snapshot.base]_session
=============================================================================
