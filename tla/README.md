# Ryubot: a verification project

Ryubot lets a user bet automatically on the provider Pasino.  A goroutine per
trading session places one bet after another; PostgreSQL keeps the sessions,
the bets, the fees and the commands; several processes (`ryubot serve`,
`ryubot worker`) share that database.  Real money moves, and most of what can go
wrong is an order of steps nobody wrote a test for: the repository tests its
money, payload and runtime arithmetic, and nothing of the trading engine.

This directory holds TLA+ models of that code, the TLC runs that check them on
small instances, and proofs that TLAPS checks for every instance.  Paths below
are relative to the repository (`src/`).

## 1. Inventory

| Component | State | Operations | Talks to |
|---|---|---|---|
| Trading engine, `internal/trading/engine.go`, `worker.go` | `trading_sessions` (status, worker, lease), `Engine.running`, goroutines | `Start`, `run`/`roll`, `Recover`, `reconcileExact`, `Command`, `RunWorker`, `FlushPendingFees` | ledger, provider client, command queue |
| Bet ledger, `ledger.go` | `provider_bets`, session balance, `trading_fee_balances`, referral balances | `Start`, `PrepareBet`, `MarkSent`, `Settle`, `SettleImmediate`, `AccrueSessionFees`, `RequireReconciliation`, `FailConfirmed`, `Complete` | PostgreSQL |
| Command queue, `commands.go` | `trading_commands` | `Enqueue`, `Claim`, `RequeueStale`, `Finish` | worker loop, user API |
| Rules, `runtime.go`, `allocation.go`, `money.go`, `payload.go`, `rules.go` | none | `Advance`, `AllocateProfit`, parsing, payloads | roll, reconcileExact |
| Live events, `events.go` | `trading_events`, subscriber channels | publish, `EventsAfter`, `ListenEvents` | user API |
| Provider client, `internal/pasino/client.go` | one socket per user and process, balance cache, tokens | `PlaceBet`, `Balance`, `dropSocket`, `reconnectLoop`, `Withdraw`, `Transfer` | Pasino |
| Fee payout and owner cutoff, `internal/management/service.go` | `management_fee_payouts`, cutoff runs and payouts | `dispatchFees`, `sendFee`, `runCutoffAt`, `cutoffCoin`, `processCutoffPayouts`, `stopExpiredSubscriptions` | provider client |
| User API, `internal/user/*` | login sessions, settings, wallet operations, referral claims | START/STOP/settings, `walletOperation`, `claimReferralBonus` | engine, provider client |
| Admin panel, `internal/admin/*` | `app_settings`, users | `SaveSettings`, `userAction`, reports | PostgreSQL |
| Rate limiter, `internal/security/limiter.go` | a bucket per address | `Allow` | HTTP handlers |
| Operator commands, `cmd/ryubot/*` | none | migrate, import, bonus and wallet moves | all |

How they interact.  A START or STOP reaches a process over HTTP
(`internal/user/trading.go:213-260`) or through the durable command queue
(`trading.go:116-124`, `worker.go:34-55`).  `Start` makes or claims a session row
and starts a goroutine; the goroutine renews a lease of thirty seconds at each
roll, commits its intent (`PREPARED`), marks it `SENT`, writes to the socket,
waits at most twelve seconds for a `bet_update`, and settles.  Every ten seconds
`Recover` adopts sessions whose lease ran out.  It sets a session whose bet is
uncertain aside (`RECONCILIATION_REQUIRED`), and the next START tries to prove the
result from the live balance.  The roll means to do the same when no answer comes,
but its statement is refused (below), and `run` completes the session instead.

What is hard, and what makes each part correct:

* *Engine and ledger.*  Several goroutines, in several processes, may run one
  session; any of them can be cut off between two statements.  Correct means: no
  executed bet is denied, no result is recorded for the wrong bet or twice, no
  new bet while one is uncertain, no bet after a stop, no session abandoned.
* *Fees.*  They wait in memory while the user's balance already shows the net
  amount.  Correct means: gross profit = user + holding + partner shares, also
  across crashes and in the balance a reconciliation compares with.
* *Commands and settings.*  OVERRIDE, RESET, STOP_ON_WIN and saved settings write
  the row a roll has read and will write back.  Correct means: each takes effect
  once, none undoes another, and limits and profit stay those of the bets.
* *Command queue.*  At-least-once: correct means a command is not lost, acts no
  more often than it was handed out, and its recorded answer is final.
* *Payouts, cutoff, bonus, wallet.*  A transfer cannot be rolled back and its
  answer may be lost.  Correct means: at most one transfer per obligation, an
  unknown outcome ends in a review, not in a retry, and only what is owed to
  nobody is paid out.
* *Provider socket and balance cache.*  Several callers drop and make one
  connection; correct means: an answer reaches whoever asked, no connection is
  left without an owner, nobody waits for a reader that has gone, and a cached
  balance is older than a bet only for a known reason.
* *Events.*  Notifications are lost, channels overflow, ids are committed out of
  order; correct means: an event is missed only for one of these reasons.
* *Admin settings, limiter.*  Totals validated against rows another admin changes;
  a counter under one mutex.

`PROJECT.json` lists each hazard at its line with the properties that cover it.

## 2. Modules

| Module | Models | TLC instance | Proofs |
|---|---|---|---|
| `TradingEngine` | sessions, leases, goroutines, requests, recovery, reconciliation, the socket and the provider: every statement of `run`, `roll`, `Recover`, `Start`, `reconcileExact`, STOP and the ledger functions they call | `MCTradingEngine` | `TradingEngineProofs` |
| `BetLifecycle` | the abstract specification: what the ledger promises for a bet, in two variables and five actions | | |
| `SingleTransfer` | the abstract specification of money owed: noted, marked, moved at most once, recorded or given up | | |
| `FeeLedger` | fees: the buffer in memory, the flush, the booked fees, the payouts and their transfers | `MCFeeLedger` | `FeeLedgerProofs` |
| `RollMath` | what a settled roll computes: `AllocateProfit`, `percentageOf`, `Validate`, `Advance`, `applyRate` | | |
| `SessionControl` | one session under its goroutine, OVERRIDE, RESET, STOP_ON_WIN, saved settings, the limits | `MCSessionControl` | `SessionControlProofs` |
| `CommandQueue` | the durable queue: rows, workers, the requeue, the events that tell the browser | `MCCommandQueue` | `CommandQueueProofs` |
| `WalletOperation` | withdrawals and transfers against sessions and fees on the same balance | `MCWalletOperation` | `WalletOperationProofs` |
| `CollectorAccount` | the collector's account: bonuses, bonus-move, claims, the owner cutoff | `MCCollectorAccount` | `CollectorAccountProofs` |
| `ProviderClient` | the socket of a user, the balance read over it and its cache | `MCProviderClient` | `ProviderClientProofs` |
| `EventFeed` | live events: rows, notifications, channels, browsers | `MCEventFeed` | `CommandQueueProofs` |
| `SumLemmas` | no code: what sums over finite sets are, for the proofs | | itself |

How the modules fit together.  `SessionControl` and `CollectorAccount` extend
`RollMath`; `TradingEngine` has `BetLifecycle` as an instance; `FeeLedger`,
`WalletOperation` and `CollectorAccount`, the three places that send money, have
`SingleTransfer` as one.  `CommandQueueProofs` has `EventFeed` as an instance: the
events are what the queue and the engine tell the user.  The others meet where the
code has a narrow seam, and each keeps of its neighbour what can pass through it:

* `settle` is one transaction.  `TradingEngine` has its effect on the bet,
  `FeeLedger` (`SettleBet`, `Settle`) that on the fees, `SessionControl`
  (`Settle`) that on the session row, `CollectorAccount` (`Accrue`) that on the
  bonuses.
* A START or STOP is one row of `CommandQueue`, one request of `TradingEngine`.
  `CommandQueue` keeps of the session its status and lets a pending bet be there
  or not; `TradingEngine` lets queued commands come in any order.
* `PlaceBet` is one action of `TradingEngine`, which loses the answers of a
  dropped connection; `ProviderClient` shows how the connection comes to be
  dropped and that the answer taken is the bet's own, which is what
  `TradingEngine` assumes of the socket a goroutine holds.
* `FeesArrive` of `CollectorAccount` is the end of `FeeLedger`'s `Transfer`;
  `Flush` of `WalletOperation` is its `FlushPendingFees`, and the steps of
  `Dispatch` there are a dispatch here, with one payout instead of many.

### TradingEngine

One user: the code keeps users apart (every statement has a user or a session
in its WHERE; `Engine.running` and the sockets are keyed by user).  The state:

| Variable | Code |
|---|---|
| `session` | `trading_sessions`: status, `worker_id`, whether `lease_expires_at` lies in the future |
| `bet` | `provider_bets`: status, session, result; `"balance"` marks a result inferred by `reconcileExact` |
| `provider` | what Pasino did with the bet: nothing, received (`"wire"`), executed with a result, refused |
| `socket` | bets whose `bet_update` may still come on the connection a process has |
| `runner` | a goroutine of `run`: the statement it is at, its session, its bet, the reply it read, whether its context is cancelled |
| `running` | `Engine.running[userID]` of each process |
| `recovery`, `request` | where `Recover`, and the handling of a START or STOP, stand |
| `process`, `lapses`, `faults` | life of a process; the two budgets |

Each statement the code commits by itself is one action, named after the
function or, for the pieces of one function, after what it does there
(`StartLookup`, `StartLocal`, `StartClaim`, `StartInsert`, `StartOwn`;
`RecoverClaim` ... `RecoverFlag`; `Lease`, `Load`, `PrepareBet`, `MarkSent`,
`PlaceBet`, `ReceiveUpdate`, ..., `CloseAfterError`, `Leave` for `roll` and `run`).
A transaction with row locks (`PrepareBet`, `settle`) is one action.  Details that
matter:

* A worker id is host name and pid, so a restarted process is a new one.
* `run` registers itself and cancels the user's previous goroutine; when it
  returns it removes the user's entry, even if that is another goroutine's.  The
  session is completed some statements before that: a goroutine that `Depart`s is
  at "leaving", still registered, until `Leave`, and a START or a second goroutine
  may come in between.
* `RequireReconciliation` and `FailConfirmed` never take effect
  (`StatementRefused`).  Both build their JSON with `jsonb_build_object('reason',$2)`
  (`ledger.go:332,350`); PostgreSQL cannot infer the type of `$2`, pgx prepares every
  statement with parameters, and so the statement is refused each time.  `roll`
  ignores the error (`engine.go:524-550`): the bet stays SENT and the session
  active, until `run` completes it.
* Once the context is cancelled, the statements of `roll` fail (`Stumble`), but
  the completion after an error runs on a context of its own and still takes
  effect.
* After any error `run` completes the session when its status is RUNNING or
  STOP_REQUESTED, without asking who owns it.
* The flag of `Recover` has no status guard: only the unique index of unresolved
  sessions can stop it.
* A `bet_update` names no bet.  Whoever holds the socket takes the next one as
  its answer; `dropSocket` is what keeps a late one away.
* A statement that fails although its context lives is a fault, bounded by
  `MaxFaults`; a commit whose answer is lost is the statement followed by a
  fault of the next one.

Abstracted: amounts, fees, chances and settings (a met stop rule, a balance that
is too small or a bet above the maximum is a nondeterministic "finish"; a balance
that proves a result, or does not, is a nondeterministic choice of
`ReconcileRead`), events and log lines.  The order of queued commands is left
open, which allows more than `Claim`'s `ORDER BY created_at`.  Pasino is
external: it executes or refuses a bet it received, or never decides, and answers
on the connection the bet came on.

### BetLifecycle

`book` says what the ledger holds of a bet (absent, open, void, win, loss,
assumed), `truth` what the provider did.  A bet is executed only when open; void
is only what was not, and never will be, executed; a recorded result is the
true one, unless it was assumed from the balance; nothing recorded changes.
`TradingEngine!ImplementsLifecycle` is that specification under the mapping
`BookOf`, `TruthOf`.  An assumed result may be followed by an execution: a bet
still on its way when the balance is read is exactly what `reconcileExact` cannot
see.

### SingleTransfer

`book` says what the database holds of an obligation (absent, noted, sent, recorded,
abandoned), `due` its amount, `paid` how often the provider moved it.  It is marked
before it is moved, moved once, recorded only when it was moved or is nothing, and
what was given up is never marked again; a process that is on its way when it is
given up may still pay.  The code has this three times, in three forms:

| Module | Obligation | noted | sent | recorded | abandoned |
|---|---|---|---|---|---|
| `FeeLedger` | a payout | PREPARED | SENT | COMPLETED | REVIEW_REQUIRED |
| `WalletOperation` | a request id | | PROCESSING | COMPLETED | FAILED |
| `CollectorAccount` | a slot's share of an owner | PREPARED | SENT | COMPLETED | REVIEW_REQUIRED |

`ImplementsSingleTransfer` of each is that specification under its mapping
(`BookOf`); the owners' shares of a batch are noted in one transaction.

### FeeLedger

| Variable | Code |
|---|---|
| `earned` | the fees of a user's COMPLETED `provider_bets` |
| `buffer` | `Engine.pendingFees`, in the memory of a process and shared by its users |
| `batch` | what a call of `FlushPendingFees` copied; two calls, of the ticker and of a goroutine that ends, may be under way |
| `pending` | `trading_fee_balances` |
| `payout` | `management_fee_payouts` |
| `dispatch` | where `dispatchFees` stands in a process, what its first query saw, its jobs |
| `moved` | transfers Pasino executed for a payout (external) |
| `process`, `rolls`, `faults` | life of a process; the two budgets |

`SettleBet` and `Settle` are the two ways a fee enters the books;
`FlushPendingFees` copies and empties the buffer under its mutex, and
`AccrueSessionFees` is the transaction that follows outside of it.  `Boot` is
`management.Run` up to its ticker.  `ReadFees`, `InsertPayout` and `ReadPrepared`
are the statements of `dispatchFees`; `MarkSent`, `Transfer`, `Review`, `Record`
those of `sendFee`; `Abandon` is the error return that leaves both.  The jobs are
counted, not listed, because a payout just inserted is listed a second time by
the query of PREPARED rows; their order is open, and the limits of 50 and 100
rows are left out.

A list of `SessionFee` is the user of its first entry and the sum of its fees,
which is all `AccrueSessionFees` uses.  One coin; holding and kangden behave
alike and are one amount; the referral bonus is booked in the same transaction
and left out.  A transfer to the paying account itself is skipped by the code and
counts as moved.  A dispatch that would find nothing to do is left out.

### RollMath

Pure operators.  `Whole` stands for the 10,000 basis points so that TLC can use a
small one; a rate is a percentage.  The code computes in 64 bits and returns an
error on overflow; the integers of the model are unbounded.

### SessionControl

One session of one user.  Leases, several processes and reconciliation are
`TradingEngine`'s; here a goroutine dies (`Crash`) and another takes over
(`Recover`).

| Variable | Code |
|---|---|
| `saved` | `user_trading_settings` |
| `session` | the columns of `trading_sessions` that roll, the commands and the settings write |
| `bet`, `books` | the pending bet; sums over the completed ones |
| `runner` | locals of `roll`, among them the copy of the row it works on |
| `resetting` | what RESET saw before its UPDATE |
| `saver` | what `SyncSettings` read when it comes to its UPDATE |
| `account` | history: the RESETs a roll had to see, the switch last asked for, overlaps |

`ReadSession` to `CheckLimits` are the statements of one roll, `ApplyOverride`
the one that takes the amount and clears it; `LookForPending` and `Reset` are the
two statements of RESET; `Save`, `ReadSaved`, `ReadSwitch` and `Sync` those of
saving.  OVERRIDE, RESET and STOP_ON_WIN are refused unless the session is
RUNNING.  A roll that gets no answer completes the session over its bet
(`AnswerFails`, the refused statement of `TradingEngine`).  Chance, payload and game
are left out.

### CommandQueue

| Variable | Code |
|---|---|
| `order`, `row` | `trading_commands` by `created_at`: kind, status, whether two minutes old |
| `worker` | the statement a worker is at, its command, the result it will record |
| `session` | status of the user's newest session |
| `told` | COMMAND_RESULT events written |
| `again` | the transaction of a request sent a second time, while it holds the row |
| `troubles` | the bound on crashes, failing statements, overtaken commands and requests sent again |
| `requeued`, `effects`, `hit` | history |

`LockRow` and `Claim` are the SELECT ... FOR UPDATE SKIP LOCKED and the commit;
between them no other worker sees the row.  `ProcessStart`, `ProcessStop`,
`CheckPending` and `CompleteStop` are the statements of `processCommand` that
change the session; a START may also settle the reconciliation it finds and return
without a running session (`engine.go:163-173`).  `RequeueStale` may take a row whose
worker is still at it (`TwoMinutesPass`).  A request that is sent again locks the row
it conflicts with (`EnqueueAgain`, `AgainEnds`), which `SKIP LOCKED` then passes over.

### WalletOperation

One account, one coin.  `provider`, `cache`, `fees` and `held` are the balance at
Pasino, the client's copy, the fees in `trading_fee_balances` and those still in
the engine's memory; `session` and `starter` the sessions that open on the same
balance; `payout` the payment of the booked fees to the collector; `row`,
`handler` the rows of `wallet_operations` and what the requests are doing.
`ReadBalance` ... `Finish` are the statements and calls of `walletOperation` in
order; `Leave` is the browser that goes away, which cancels the statements that are
not on a context of their own; `Answer` may not come.  Each bet leaves a fee of 0
or 1.

`PayoutMarked`, `PayoutSent`, `PayoutAnswered`, `PayoutRecorded` are `sendFee`:
marked, moved, the cache cleared when the answer is good, the books cleared in a
transaction of their own.  The answer may be lost and the transaction may fail; the
payout is then under review, the table goes on owing what the collector has, and no
other is made beside it (the unique index of open payouts).  One process dispatches
(what two can do is item 6 of "Disagreements").  The two columns of fees
(holding, kangden), which the code pays one after the other, are one.  `Owed` is
what the collector still has to get from this account: the fees of the table and of
the memory, those of a bet whose result came late, less what the payout has moved.

`Roll` is the engine's bet.  When its answer is lost the session is completed over
the bet, or set aside by `Recover`.

### CollectorAccount

| Variable | Code |
|---|---|
| `balance`, `due` | the collector's balance at Pasino, fees on their way to it, both in one coin |
| `bonus` | `referral_bonus_balances.available_amount` |
| `batches` | `owner_cutoff_batches` with their `owner_cutoff_payouts` |
| `slot` | whose minute it is; a cutoff ends before the next slot |
| `service` | where `run`/`cutoffCoin`/`processCutoffPayouts` stand in each process |
| `mover`, `claimant` | `bonus-move` and `claimReferralBonus` |
| `account` | history: bonus-move, fees booked in another coin (`astray`), batches cut between two readings |

`BeginCutoff`, `ReadBalance`, `ReadLiability`, `InsertBatch` are the statements of
`cutoffCoin`; `TakeJob` ... `FinishBatch` those of `processCutoffPayouts`.  An
error the code ignores or collects is `StatementFails`, one it returns is
`GiveUp`.  `Start` is the recovery of `Run`, which puts every SENT payout under
review, also one another process is sending.  `skipped` are the owners whose
statement failed.  `FinishBatch` writes nothing: its statement assigns one parameter
to a varchar column and compares it as text (`service.go:366`), which PostgreSQL
refuses (42P08); the error is only reported, and a batch stays PROCESSING whatever
became of its shares.

`Accrue` is one bet of a flush: its bonuses are booked in its own coin, its fee in the
coin of the flush's first entry (`ledger.go:224-240`), which may be this one or
another (`astray`); `AccrueForeign` is the bet of another coin whose fee is booked
here.  One `bonus-move` runs at a time: two operators at once are left out.
`ClaimBonus` deducts nothing: the INSERT of the event names no id, the column is a
key without a default, and the transaction rolls back.

### ProviderClient

A balance is the number of bets carried out, so that a stale one is a smaller
number.  `sockets` are the connections made, each with its `readSocket`
goroutine, the requests on their way and the messages that came back;
`registered` is `Client.sockets`, `connecting` the `connectLock`, `flight`
`balanceFlight`, `known`/`fresh` the cache.  `Ensure`, `Dial`, `Write`,
`Receive`, `Drop`, `Close`, `ReaderDrops`, `ReaderCloses` are the critical
sections of `ensureSocket`, `PlaceBet`/`readBalance`, `dropSocket` and
`readSocket`; `Cancel` a caller whose context ends; `Look` and `StoreSeen`
`Balances`, which neither shares a read nor looks at the cache; `ReceiveBlank` an
answer without the balance, an error that leaves the connection as it is;
`DropUserSocket` what a login does.  The channel of incoming messages has room for
32; a full one only makes `readSocket` wait, in the same order, and is left out.

### EventFeed

`inserted`, `open`, `table` are ids taken, rows not committed, rows committed;
`listening`, `notices` the listener's connection; `stream`, `channel`, `lastId`,
`seen` the browsers.  `Forward` reads the row of a notification and publishes it
to all channels, dropping it where one is full; `ConnectStream`, `Replay`,
`Flush`, `Deliver` are `tradingEvents`, `ConnectSocket` is `realtime`.  `excused`
is history: why a browser may miss an event.

## 3. Runs

| Run | Instance | Shows |
|---|---|---|
| `engine_handover` | 2 processes, 1 session, 2 bets, 2 goroutines, a START, a STOP, a lapsed lease, crashes | `TypeOK`, `OneFlightPerSession`, `ExecutedIsDurable`, `StopDrains` |
| `engine_reconcile` | 2 process incarnations, 1 alive, 2 sessions, 2 bets, 1 goroutine, a START repeated without end, 1 fault | `SettledIsTrue`, `ImplementsLifecycle` |
| `engine_single_start` | 1 process, 1 START, 1 STOP from the queue, 3 bets, no fault | violation of `CompletedIsSettled`: an answer that does not come is enough |
| `engine_live` | 2 process incarnations, 1 session, 1 bet, START and STOP over HTTP, fairness | `StopIsCarriedOut`, `OrphanIsAdopted` |
| `fee_books` | 2 process incarnations, 1 alive, 2 users, 3 rolls, 3 payouts, 2 flushes at a time, 1 fault, fairness | `TypeOK`, `NoFeeTwice`, `PayoutCovered`, `ImplementsSingleTransfer`, `FeeIsDispatched` |
| `session_control` | 2 profiles of settings, 2 bets, 2 savers with 2 saves, 1 caller, 2 commands, 1 crash | `ProfitAddsUp`, `ResetHonoured`, `SwitchKept`, `SavedIsInForce`, `PastLimitByCrash`, `OverrideStakedOnce` |
| `command_queue` | 2 workers, 2 commands, 2 troubles (crashes, failures, two minutes over), fairness | `ActsOncePerClaim`, `QueueOrderKept`, `FailedStartIsIdle`, `ResultIsFinal`, `NoCommandIsLost` |
| `wallet_operations` | 2 requests at a time under 2 ids, 2 sessions, 1 bet, a payout of fees, a lost answer, failed statement or browser that leaves | `ImplementsSingleTransfer`, `StatusIsTrue`, `UncoveredIsStale` |
| `collector_shares` | 2 processes, 2 slots, 2 owners, 2 users, 1 bet, 1 claim or bonus-move, 1 crash or failed statement | `ImplementsSingleTransfer`, `EveryShareTried`, `SharesAddUp`, `CutoffCovered`, `MoveIsRecorded` |
| `provider_socket` | 2 readers of the balance, a page, a bettor, a login, 2 connections, 2 attempts to reconnect, 3 events | `OwnUpdate`, `NoStraySocket`, `StaleIsExplained`, `NobodyIsLeftWaiting` |
| `event_feed` | a stream and a websocket, 3 events, channels of 1, replays of 1, a broken connection, an outage of the listener, fairness | `GapIsExplained`, `EveryEventArrives` |
| `wallet_unflushed` | 2 bets in 1 session, 1 request, nothing fails | violation of `PaysFromAvailable` |

Why the bounds are enough.

* *Engine.*  A handover needs two goroutines and two processes; a second bet is
  what a stale goroutine, answer or check could harm; a second session is what a
  completed first one makes room for.  Nothing in the model counts, so a third of
  either repeats a situation two already give, and the proofs do not depend on
  the bounds.  `MaxLapses` and `MaxFaults` bound how often time or PostgreSQL is
  against us, one being enough to reach every error branch.
* *Fees.*  Three rolls give one user a payout, a fee that comes while it is open
  and another payout after it, or two users one each; a fee is 0 or 1 because the
  code only adds, compares with 0 and subtracts what it booked.
* *Control.*  Two bets give a roll that a command or a save cuts into and the one
  that has to heed it; two savers can overlap; the two profiles differ in every
  field, and together use the base after a win, the rate, a boom, a profit
  session and each of the limits.
* *Queue.*  Two commands have an order; two workers can have one command, and two
  troubles let one be handed out again, or be sent again, and a worker die as well.
* *Wallet.*  Two requests can have one id or two and share one balance; of two
  sessions one begins before and one after a request has looked; the fee of one roll
  is enough for a payout that is under way, or stuck, while they do.
* *Collector.*  Two processes overlap on a batch; the second slot comes with
  payouts of the first still under review, or after a first with nothing to share; one
  fee gives both owners a share; one owner has a percentage, the last the rest; the
  first level of referrals pays nothing, as the code allows.  A second bet, which earns
  a bonus while bonus-move writes off the first (`account.raced`), is too many states
  beside a second process, and so is money of the account's own, without which there
  is nothing to share in a coin whose fees are booked elsewhere; with
  `Processes = {p1}`, `MaxBets = 2`, `Opening = 10`, `MaxCrashes = 0` and no symmetry
  TLC finds `CutoffCovered` true as well, and the theorems of section 4 hold for any
  number of each.
* *Socket.*  A second connection is what can be confused with the first; three
  events are a bet, a read that it overtakes and what breaks the connection.
* *Events.*  Channels and replays of one event overflow with two; three events
  give one missed, one that is received after it, and one more.

The theorems of section 4 lift what they state to every value of the constants.
Deadlock is not checked: when the bets and the clicks are used up, the system
rightly rests.  Symmetry is used where all members of a set are interchangeable
(`Repeated` empty or all of `StartRequests`) and never with liveness.

Definitions marked `mutant` are deliberate mistakes (a guard dropped, a
reset forgotten).  Nothing in the models uses them; put in the place of the
definition that follows them they make the property of `PROJECT.json` "mutants"
fail, which shows that the property depends on that line of the code.

Fairness.

* `TradingEngine!FairSpec`: weak fairness of a goroutine, a recovery and a
  request: the Go scheduler and PostgreSQL run what can run, `PlaceBet` gives up
  after twelve seconds (`client.go:512`), `Recover` ticks every ten
  (`worker.go:25`).  Weak fairness of `Boot`: systemd restarts a dead process
  (`install-vps.sh`).  Of `LeaseExpires`: thirty seconds pass.  A repeated click
  is accepted eventually (strong fairness, since the command loop is busy now and
  then).  Nothing is assumed of the provider or of clicks that are not in
  `Repeated`, and crashes, lapses and faults may or may not happen.
* `FeeLedger!FairSpec`: the same of `Boot`, of the flushes and of the dispatches:
  both tickers go on, and a provider call ends, since the context of a dispatch
  lasts 25 s (`service.go:61`).
* `CommandQueue`: weak fairness of a worker's next statement, which includes its
  restart, of `RequeueStale`, which its loop calls, of the two minutes, and of the end
  of a transaction that sends a request again (`AgainEnds`), an INSERT and its commit.
* `EventFeed`: the listener tries again after a second and takes the
  notifications there are; a page that is open connects again and reads
  (an `EventSource` does by itself).  No commit and no breakage is assumed.

### Disagreements with the documentation

Two have a run.

* `wallet_unflushed`.  `docs/BUSINESS_FLOW.md:43-45` calls available what Pasino has
  less what is held back, and lets only that be used.  The fees of settled rolls wait
  in the engine's memory until the next flush, at most two seconds (`engine.go:43`),
  also when the session has just ended: `run` completes it before it flushes
  (`engine.go:402-420`).  `availableWalletBalance` subtracts those of
  `trading_fee_balances`.  A withdrawal that meets nothing else may therefore take
  them (`PaysFromAvailable`).
* `engine_single_start`.  An unprovable result waits for the admin (line 254).  One
  START and one answer that does not come, without a crash or a fault, complete the
  session over a SENT bet (`CompletedIsSettled`): the statement that would set it
  aside is refused every time, its error is ignored, and `run` completes what is
  RUNNING.  The next START may bet again.

The models state other rules the code breaks, most of them of
`docs/BUSINESS_FLOW.md`.  Each is a definition of its module; TLC finds its
counterexample with the constants of the run named, changed as told, and that one
property.

1. `OneUncertainBet` (line 100, no new bet while the last is uncertain); constants
   of `engine_single_start` with 2 sessions, 2 bets, 3 `StartRequests`, no
   `StopRequests`.  A repeated START makes a second goroutine: the entry of the
   first can be missing, since `engine.go:394` deletes another's and `run`
   registers only after `Start` has looked.  It cancels the first in the middle of
   a bet; the error path completes the session; the next START may bet.
2. `CompletedIsSettled` again (line 254), with a second cause; constants of
   `engine_handover`.  The owner that lost its lease completes the session under the
   new owner's bet.  A delay of up to 600 s is allowed, so a lease of 30 s lapses in
   normal use.
3. `ReconciledSessionEnds` (line 253, a proved result lets the session end);
   `FairSpec` and the constants of `engine_reconcile` with 1 session and 1 bet, no
   symmetry.  `Settle` and `Complete` are two transactions, and nothing takes up a
   session whose process died, or whose statement failed, between them.
4. `StopCompletesClean` (line 252, the last result comes first); constants of
   `engine_single_start` with 2 sessions, 1 bet, 2 `StartRequests`, 2
   `StopRequests`, `Channels = {"queue", "http"}`.  STOP's check and its completion
   are two statements: a session started and asked to stop in between is completed
   with its bet pending.
5. `ChargedForOwnRolls` (lines 65-66, every difference is a recorded fee);
   constants of `fee_books`.  The fees of all users of a process wait in one list,
   and the whole list is booked for the user (and the coin) of its first entry.
6. `MovedIsEarned` (line 123, the shares are exactly the profit); constants of
   `fee_books` with `MaxProcesses = 2`, 1 user, no fault.  Of two processes that
   dispatch, one may insert an amount it read before the other completed the
   payout of it; the unique index does not see completed payouts, and
   `greatest(..., 0)` hides the second subtraction.  `serve` and `worker` both
   dispatch; `install-vps.sh` starts `serve` only.
7. `NewBaseApplies` (lines 109-111, `user/trading.go:292` "applies: next_roll");
   constants of `session_control`.  `SyncSettings` takes the base of the snapshot,
   which counts atomic units, for the value of a decimal column
   (`engine.go:674-678`): the next bet is 10^8 times the base asked for, and the
   maximum or the balance ends the session.
8. `ClaimIsGranted` (section 7, a claim sends the bonus); constants of
   `collector_shares`.  The event that `ClaimBonus` inserts has no id
   (`user/store.go:378`), so that the deduction is rolled back.
9. `OnlyUnowedIsShared` (section 10); constants of `collector_shares`.  The balance
   is read before the liabilities, and a payment may come between.
10. `NoStaleSurvives` (comment, `client.go:337-339`); constants of
    `provider_socket`.  A read that began before a bet stores its answer after the
    bet has cleared the cache.
11. `PaysBetweenSessions` (lines 199-200, no withdrawal while trading is active or a
   bet is uncertain); constants of `wallet_operations` with 1 handler, 1 id, 1
   session, no trouble and no symmetry.  `walletOperation` looks once
   (`user/wallet.go:249`) and pays some statements later (303-309), and `Start` asks
   about no wallet operation under way: a session that opens in between is active
   when the money leaves.  Nothing has to fail for it.

Smaller observations, without a property of their own:

* Three statements are refused by PostgreSQL whenever they are prepared, and their
  errors ignored or only reported: `ledger.go:332` (above), `ledger.go:350`, so that a bet Pasino
  refused stays SENT, and `management/service.go:366`, so that a batch of owners'
  shares stays PROCESSING.  No document says what a batch's status should be.
* The fees of a flush are booked in the coin of its first entry and the bonuses in
  that of each bet, so that in one coin the collector may owe more bonuses than it
  has fees (`account.astray` in `CutoffCovered`).
* A request sent again locks the row of its command; a worker that polls meanwhile
  passes over it and takes a later one (`again` in `QueueOrderKept`).
* From the transfer of a fee payout until its record, or for good when its answer is
  lost, the table owes what the collector has; `availableWalletBalance` then keeps
  back more than is owed, which is the safe side.
* A crash, or a flush whose transaction fails, loses the fees it holds in memory,
  although `provider_bets` still shows what was earned; `NoFeeTwice` is an
  inequality for that reason.
* `bonus-move` zeroes what a row has when it writes, not what it read: a bonus
  earned in between is lost to its user (`account.raced` in `MoveIsRecorded`).
* `ReadLiability` comes after `ReadBalance`: a payment between the two makes the
  owners share money that is owed (`account.crossed` in `CutoffCovered`).  From a
  transfer of bonus-move to its write-off (`Open`), or for good when its answer is
  lost (`account.doubted`), the books owe what was paid already.  The
  comment of `Balance` promises a live reading; it may be five seconds old
  (`client.go:195`).
* A reader that shares another's balance read gets that one's error, also when
  only the other's context was cancelled.  `reconnectLoop` may return just
  before its entry is deleted, and a drop in that moment starts no other.
* A START whose lease UPDATE fails after the insert, and a STOP whose second query
  fails after it wrote STOP_REQUESTED, are recorded FAILED and have taken effect
  (`hit` in `FailedStartIsIdle`).  A START handed out again after the user's STOP
  starts trading again.  `Enqueue` answers a known request id whatever the user
  and the command are.  Nobody listens to `ryubot_trading_commands`; the
  workers poll.
* An event missed live is lost for good once a later one was received
  (`excused` in `GapIsExplained`).  The goroutine that forwards events to a
  websocket waits for the channel and is not told that the browser has gone
  (`user/trading.go:66-94`).
* A withdrawal recorded FAILED may have been paid when its answer was lost
  (`unclear` in `StatusIsTrue`).
* `cutoffCoin` multiplies an amount with basis points in 64 bits
  (`service.go:297`), which overflows beyond some nine million coins.

## 4. Proofs

Every theorem holds for every value of the constants that the named assumption
of its module allows; TLC evaluates the assumptions in every run.

For the engine, all from `EngineAssumption` alone (the channels are `queue` and `http`, STARTs
are not STOPs, `None` is nothing else, the bounds are naturals): any number of
processes, sessions, bets, goroutines and requests, finite or not.

| Theorem | Says |
|---|---|
| `TypeInvariant` | `Spec => []TypeOK` |
| `InductiveInvariant` | `Spec => [](Shape /\ IInv)` |
| `ExecutedIsDurableHolds` | `Spec => []ExecutedIsDurable` |
| `SettledIsTrueHolds` | `Spec => []SettledIsTrue` |
| `OneFlightHolds` | `Spec => []OneFlightPerSession` |
| `StopDrainsHolds` | `Spec => StopDrains` |
| `EngineImplementsLifecycle` | `Spec => ImplementsLifecycle` |

For the fees, from `FeeAssumption` (amounts and bounds are naturals, `None` is no
user and no payout):

| Theorem | Says |
|---|---|
| `FeeTypes` | `Spec => []TypeOK` |
| `MovedOnceHolds` | `Spec => []MovedOnce`, for any number of processes |
| `OneProcessCovered` | `Spec => []PayoutCovered`, when `MaxProcesses = 1` and `Workers` is finite |
| `FeeImplementsSingleTransfer` | `Spec => ImplementsSingleTransfer`, for any number of processes |
| `NoFeeTwiceHolds` | `Spec => []NoFeeTwice`, when `MaxProcesses = 1` and workers, flushes, users and payouts are finite |

*Types.*  `TypeOK` is not inductive: an action applies `session` and `bet` to what
a goroutine, a request or a recovery carries.  `Shape` adds that whoever is at a
statement has the arguments it needs.

*Safety.*  None of the three properties is inductive.  Whether a settled result
is true depends on whose answer the connection holds; whether a bet may be voided
depends on whether its goroutine has written it.  `IInv` therefore says, for
every bet, that its row, the goroutine holding it, and the provider agree
(`Truthful`, `Held`); that a bet has one holder (`HeldOnce`) and a session one
holder that can still reach the provider (`CommittedOnce`, where a PREPARED bet
that Recover has voided does not count); that a connection owes answers only to
the goroutine that waits on it (`SocketsMatch`); and that a request about to
settle a bet does so for a session that never runs again (`Reconciling`), which
is why the goroutine whose bet it overtakes cannot harm anything (`Overtaken`).
`PastStable` (a session set aside or completed is never active again) carries the
last part.  Actions that touch no bet are dealt with by one frame lemma; a
goroutine's step on its own bet by `ActorStep`; the rest one by one.

*Refinement.*  Only the actions of `LedgerStep` touch a row or the provider; each
maps to one step of `BetLifecycle` or to a stutter, by `IInv`.

*A payout moves once.*  `OnceInv`: a payout that is not yet SENT has moved
nothing and is nobody's job (`Untouched`), two processes never have the same job
(`Alone`), and a job about to be transferred has not been (`NotYetMoved`).  The
status test in `sendFee`'s first UPDATE is what establishes it; restarts that set
SENT payouts aside do not disturb it, and neither do duplicate jobs.  The refinement
of `SingleTransfer` needs one fact more, `TransferInv`: whoever is about to record a
payout has moved it, and what is COMPLETED was moved.  Each step then maps to one of
`SingleTransfer` or to a stutter; a second process that takes up a payout already
being sent finds nothing to mark.

*An open payout is covered.*  With one process up (`OneUp`) no other dispatches
(`DownIdle`), so the amounts its first query saw stay booked until they are
inserted (`SeenIsBooked`): fees only grow until `sendFee` subtracts, which comes
later in the same dispatch.  `OneOpen`, the unique index, makes the subtraction of
one payout harmless to the others.  The second process that the theorem excludes
is the one of `MovedIsEarned`, section 3.

*No fee counted twice.*  `NoFeeTwice` compares four sums, of the fees in memory,
booked, paid out and earned.  Every action moves at most one amount from one sum to
the next (`NoFeeTwiceSums` names them): a settled roll adds the same fee to the first
or the second and to the last, a flush moves it from the buffer to the batch and from
there to the books, a record from the books to the payouts.  The last is where
`PayoutCovered` is needed: the code subtracts with `greatest(..., 0)`, which takes the
full amount only when it is there.  With two processes it may not be, and the
property is then false, hence the hypothesis.

*Sums.*  The library's induction theorems take an operator, which no prover here can
instantiate.  `SumLemmas` therefore states induction in set form (`SetInduction`: a
set of subsets of a finite set that has `{}` and with each member every one with one
element more has all) and proves with it what `SumFunction` does: its fold does not
depend on the order (`FoldIsLocal`, `SumRemove`), a sum changes by as much as the one
term that changes (`TotalChange`), is monotonic (`TotalOrder`), adds up (`TotalPlus`).

For the commands and the settings, from `ControlAssumption` (settings are of their
type, `RuleOK` of the rule, bounds are naturals):

| Theorem | Says |
|---|---|
| `AllocationAddsUp` | the shares of `AllocateProfit` add up to the profit, the fees are not negative, nor is the user's share of a gain |
| `TypesHold` | `Spec => []TypeOK` |
| `ProfitHolds` | `Spec => []ProfitAddsUp` |
| `OverrideHolds` | `Spec => []OverrideStakedOnce` |
| `PastLimitHolds` | `Spec => []PastLimitByCrash` |
| `ResetHolds` | `Spec => []ResetHonoured` |
| `SwitchHolds` | `Spec => []SwitchKept` |
| `SavedHolds` | `Spec => []SavedIsInForce` |

*What the roll carries.*  `ProfitAddsUp` is inductive; the others are about what
the roll has copied from a row that changes under it.  `Carried` counts the
execution of OVERRIDE a roll has taken and not staked; `Limits` says that a roll
before its bet works on a row within its limits or follows a death; `ResetKept`
follows a RESET from the row (`OwedInRow`) into the roll that read it
(`OwedInRoll`), and to the answer, where the next bet is computed; `SavesKept`
follows what each saver has read and whether anything overlapped it.

For the wallet, from `WalletAssumption`:

| Theorem | Says |
|---|---|
| `TypesHold` | `Spec => []TypeOK` |
| `PaidOnceHolds` | `Spec => []PaidOnce` |
| `WalletImplementsSingleTransfer` | `Spec => ImplementsSingleTransfer` |
| `StatusHolds` | `Spec => []StatusIsTrue` |
| `UncoveredHolds` | `Spec => []UncoveredIsStale` |

*One handler an id.*  `Payments`: whoever is past `InsertRow` is the only one with
its id, its row is PROCESSING, and before `Send` nothing has been paid under it.
The unique request id of the table is what establishes it, and the refinement of
`SingleTransfer` follows from it step by step.

*Nothing uncovered unless stale.*  What a request may pay leaves the fees it read
(`RoomChecked`); a payout has moved no more than the table still books, and nothing
before it is sent (`PayoutFits`); and as long as nothing was decided on what was no
longer true, the account holds what it owes and what its session may stake
(`Covered`).  The transfer of a payout takes the same from the balance and from what
is owed; its record takes the same from the table and from what was moved, because
the table has only grown since the amount was read; one that is never recorded goes
on counting as moved.

For the queue, from `QueueAssumption`, for any number of workers and requests:

| Theorem | Says |
|---|---|
| `TypesHold` | `Spec => []TypeOK` |
| `ActsOnceHolds` | `Spec => []ActsOncePerClaim` |
| `OneWorkerHolds` | `Spec => []OneWorkerPerCommand` |
| `ToldHolds` | `Spec => []ToldWhatIsRecorded` |
| `FailedStartHolds` | `Spec => []FailedStartIsIdle` |
| `ResultHolds` | `Spec => ResultIsFinal` |
| `QueueOrderHolds` | `Spec => []QueueOrderKept` |

*A count.*  `ActsOncePerClaim` needs a sum over workers: `Counted` says that the
effects of a command and the workers about to cause one are together no more
than the times it was handed out, and its lemmas are about the cardinality of the
set of those workers.  `Single` adds that before a command is handed out again
its one worker is at the stage its row says; `Truth` that what is recorded, told
and done then agree; `Ordered` that a command behind a waiting one was claimed
while the first was locked.  The actions are reduced to eight shapes of change
(`Outside`, `Queued`, `Locks`, `Claims`, `GoesOn`, `Finishes`, `LetsGo`,
`HandsOut`), and each invariant is proved over the shapes.

For the owners' shares, from `CollectorAssumption`, for any number of processes,
slots, owners and crashes:

| Theorem | Says |
|---|---|
| `PayoutsHold` | `Spec => []IInv` |
| `ShareOnceHolds` | `Spec => []ShareOnce` |
| `CollectorImplementsSingleTransfer` | `Spec => ImplementsSingleTransfer` |
| `EveryShareTriedHolds` | `Spec => []EveryShareTried` |
| `MoneyHolds` | `Spec => []Money` |
| `SharesAddUpHolds` | `Spec => []SharesAddUp` |
| `MoveIsRecordedHolds` | `Spec => []MoveIsRecorded` |
| `CutoffCoveredHolds` | `Spec => []CutoffCovered` |

*Who has a payout.*  The test for PREPARED in the UPDATE that takes a payout makes
whoever sends it the only one (`SenderFine`); it has not paid before the transfer
and has when the answer was good, also if a starting process has put the payout
under review meanwhile.  Here, too, the actions are reduced to shapes (`Walks`,
`Inserts`, `Takes`, `Pays`, `Records`, `Restarts`).  What the amounts are plays no
part in `ShareOnce` and `EveryShareTried`; the refinement of `SingleTransfer` takes
from `Money` below that they are naturals.

*Every share is tried.*  `Tried`: at each statement of its batch, a process has every
PREPARED share still before it, or has skipped it because a statement failed.  No
step of another process makes a share PREPARED again, and one failure does not end
the loop.

*What the shares and bonuses amount to.*  `Money` adds that balances, bonuses and
readings are naturals and that a batch's payouts are its distributable amount: the
last owner gets the rest, which is natural because percentages of at most 100 rounded
down leave one (`RollMath!PercentageOf`).  `MoveFine` follows a bonus-move: a user's
bonus is at least what the move read until it is written off, and what was written
off, what has come since (`Extra`) and what is paid and open are no more than was
paid or raced.

*What is owed is covered.*  `CutoffCovered` is not inductive: a process about to
insert a batch holds what it read some statements ago.  `CutInv` adds that it cuts the
slot it is (`SlotNow`), that the balance it read is still there unless a payment
crossed (`ReadFine`), and that what is owed with what it is about to share out would
be covered (`CutFine`).  Every other step adds no more to what is owed (`Owed`) than
to what there is (`Means`), which is `KeepsUp`: the fee of a bet, due here or booked
astray, is at least the bonuses it gives, a payment takes as much from both, unless its answer is lost or its
write-off is still to come.  The users are assumed finite (`UsersFinite`), since the
bonuses are summed over them.

For the socket, from `ClientAssumption`, for any number of readers, connections,
attempts and events:

| Theorem | Says |
|---|---|
| `WorkHolds` | `Spec => []Work` |
| `NobodyIsLeftWaitingHolds` | `Spec => []NobodyIsLeftWaiting` |
| `NoStraySocketHolds` | `Spec => []NoStraySocket` |
| `BoundHolds` | `Spec => []Bound` |
| `OwnUpdateHolds` | `Spec => []OwnUpdate` |
| `AgedHolds` | `Spec => []Aged` |
| `StaleIsExplainedHolds` | `Spec => []StaleIsExplained` |

*Who is at work.*  `Work` says of each call what it holds where it stands: whoever
dials has the connect lock and no socket is registered meanwhile (`CallsWork`), the
holder of a connection's mutex is at a statement that releases it (`Held`), and an
open connection is registered or has somebody who is about to close it (`Closing`),
its reader or a call.  Two calls may both be about to close one, and a drop leaves
the registration alone when it is no longer this connection's: that is what keeps a
connection just made from being forgotten.

*Whose answer.*  A `bet_update` names no bet.  `Bound` says that a bet on its way, as
a request or as an answer, over an open connection belongs to the bettor's current
call and that the bettor has the connection's mutex, so that there is at most one;
answers already received on a connection that was closed are also nobody else's.
It depends on `Drop` coming before the mutex is released: whoever gives up closes the
connection on which an answer may still come.

*How old an answer is.*  `Aged` compares the number of bets carried out with what a
call saw when it began (`since`): an answer to a call is not from before it began,
and a call with an answer of its own stores none that is.  What is left are the two
marks of `StaleIsExplained`, a read the bet overtook and an answer to another's
request.

For the events, from `FeedBounds`, which is the assumption of `EventFeed`; stated in
`CommandQueueProofs` about its instance `Feed`:

| Theorem | Says |
|---|---|
| `FeedTypesHold` | `FeedBounds => (Feed!Spec => []Feed!TypeOK)` |
| `GapIsExplainedHolds` | `FeedBounds => (Feed!Spec => []Feed!GapIsExplained)`, for any number of browsers and events, any size of channels and replays |

*What is not excused comes in order.*  Ids are taken in one order and committed in
another, so that neither the notifications nor a channel are in order of id.  But an
event that commits behind a larger one is excused there and then; the others are
larger than all that were committed before them, and so wait in increasing order,
those of a channel before those not yet forwarded (`InOrder`).  Once a stream is past
its replay, whatever it has neither seen nor been excused from waits in one of the
two (`StillToCome`).  The rows of a replay are the smallest ones that are missing
(`FirstOfIsInitial`), so that a replay that breaks off leaves none behind; what its limit
cuts off is excused.  The three together say that nothing unseen and not excused is below the
stream's `lastId` (`NoGap`), which is the property.

Only model-checked:

* liveness (`StopIsCarriedOut`, `OrphanIsAdopted`, `FeeIsDispatched`,
  `NoCommandIsLost`, `EveryEventArrives`): fairness and ENABLED are out of the
  prover's reach.

## 5. Not modelled

* *Amounts in reconciliation.*  `TradingEngine` lets the balance prove a result,
  or not, as it pleases; what holds there holds whatever the sums are, and
  whether the sums prove the right result is not shown.
* *Login, cookies, pages, reports, the admin panel.*  One request over one row
  each; the one interleaving, two admins who save parts of a group, is a lost
  update (`PROJECT.json` "hazards").
* *Provider calls over HTTP* (login, account creation), *credential encryption*,
  the ping of `keepSocketAlive`: a failure of the last drops the socket as
  `readSocket` does.
* *Parsing and formatting of money, the payload, the random chance*: pure text or
  randomness, with unit tests of their own.
* *Rate limiter, migrations, configuration, HTTP server, legacy import, operator
  tools, user interface, scripts*: no concurrent state, or one mutex.
* `roll_engine.go`, `runner.go`, `RequestStop`, `UpdateSessionBalance`: no caller.

What would be next: a refinement of `TradingEngine`'s `PlaceBet` by
`ProviderClient`.
