--------------------------- MODULE WalletOperation ---------------------------
(***************************************************************************)
(* Withdrawals and transfers of one account in one coin                    *)
(* (internal/user/wallet.go, walletOperation) with the rows of             *)
(* wallet_operations (internal/user/store.go), against what else moves the *)
(* same balance: sessions that open on it (Engine.Start), their rolls, the *)
(* fees they leave, first in the engine's memory and then in               *)
(* trading_fee_balances, and the dispatch that pays them to the collector. *)
(*                                                                         *)
(* Every statement and every call to the provider is a step.  The browser  *)
(* may leave, which cancels the request's context, and a statement may     *)
(* fail.  The provider pays what the balance covers, and its answer may be *)
(* lost.                                                                   *)
(***************************************************************************)
EXTENDS Integers, FiniteSets

CONSTANTS
    Handlers,      \* HTTP requests served at a time
    Ids,           \* request ids
    Amount,        \* amount each request asks for, the minimum at least
    MaxBalance,    \* bound: what the account may hold at first
    MaxServed,     \* bound: requests
    MaxSessions,   \* bound: sessions
    MaxRolls,      \* bound: bets
    MaxTroubles,   \* bound: lost answers, failed statements, browsers that
                   \* leave, a worker that dies
    None

ASSUME WalletAssumption ==
    /\ None \notin Ids
    /\ Amount \in Nat \ {0}
    /\ {MaxBalance, MaxServed, MaxSessions, MaxRolls, MaxTroubles} \subseteq Nat

VARIABLES
    provider,   \* the account's balance at the provider
    cache,      \* the balance the client cached, None if there is none
    fees,       \* holding_pending + kangden_pending
    held,       \* fees of settled rolls in the engine's memory
    payout,     \* the payout of the fees under way, and what the collector
                \* has of fees that are still on the books
    session,    \* status of the newest session and what came of it
    starter,    \* a START on its way
    row,        \* wallet_operations: status by request id
    handler,    \* what each request is doing
    served, sessions, rolls, troubles,
    paid,       \* history: payments made by request id
    unclear,    \* history: ids whose payment was made or not, nobody knows
    stale       \* history: a payment or a session was decided on a balance,
                \* fees or the absence of a session that were no longer true

vars == <<provider, cache, fees, held, payout, session, starter, row, handler,
          served, sessions, rolls, troubles, paid, unclear, stale>>

account == <<provider, fees, held, payout>>
counts == <<served, sessions, rolls>>
operation == <<row, paid, unclear>>

NoSession == [status |-> "NONE", visible |-> 0, late |-> 0]
NoPayout == [pc |-> "idle", amount |-> 0, moved |-> 0]
Idle == [pc |-> "idle", id |-> None, balance |-> 0, fees |-> 0, met |-> FALSE,
         ok |-> FALSE]
NoStart == [pc |-> "idle", balance |-> 0, fees |-> 0, met |-> FALSE]

\* What of the balance is not the user's.  session.late is the fee of a bet that
\* is still to be reconciled; what the collector has already is owed no more,
\* whatever the books say.
Owed == fees + held + session.late - payout.moved

Working == {"send", "answer", "finish", "again"}

RequestIds == Ids \cup {None}

Handler ==
    [pc : {"idle", "balance", "fees", "row", "insert"} \cup Working, id : RequestIds,
     balance : Nat, fees : Nat, met : BOOLEAN, ok : BOOLEAN]

Starter == [pc : {"idle", "fees", "insert"}, balance : Nat, fees : Nat, met : BOOLEAN]

Session == [status : {"NONE", "RUNNING", "RECONCILIATION_REQUIRED"},
            visible : Nat, late : {0, 1}]

Payout == [pc : {"idle", "send", "answer", "record", "review"}, amount : Nat, moved : Nat]

Status == {"PROCESSING", "COMPLETED", "FAILED"}

TypeOK ==
    /\ provider \in Nat /\ fees \in Nat /\ held \in Nat
    /\ cache \in Nat \cup {None}
    /\ payout \in Payout
    /\ session \in Session
    /\ session.late = 1 => session.status = "RECONCILIATION_REQUIRED"
    /\ starter \in Starter
    /\ DOMAIN row \subseteq Ids /\ row \in [DOMAIN row -> Status]
    /\ handler \in [Handlers -> Handler]
    /\ \A h \in Handlers :
           /\ handler[h].pc # "idle" => handler[h].id \in Ids
           /\ handler[h].pc \in Working => handler[h].id \in DOMAIN row
    /\ served \in 0..MaxServed /\ sessions \in 0..MaxSessions
    /\ rolls \in 0..MaxRolls /\ troubles \in 0..MaxTroubles
    /\ paid \in [Ids -> Nat] /\ unclear \subseteq Ids /\ stale \in BOOLEAN

Init ==
    /\ provider \in 1..MaxBalance /\ cache = None
    /\ fees = 0 /\ held = 0 /\ payout = NoPayout
    /\ session = NoSession /\ starter = NoStart
    /\ row = [id \in {} |-> None]
    /\ handler = [h \in Handlers |-> Idle]
    /\ served = 0 /\ sessions = 0 /\ rolls = 0 /\ troubles = 0
    /\ paid = [id \in Ids |-> 0] /\ unclear = {} /\ stale = FALSE

Trouble == troubles < MaxTroubles /\ troubles' = troubles + 1

\* The account changes under everybody who has read its balance.
Meets(hs) == [h \in Handlers |-> IF hs[h].pc # "idle" THEN [hs[h] EXCEPT !.met = TRUE]
                                                      ELSE hs[h]]
Met == [starter EXCEPT !.met = starter.pc # "idle"]

-----------------------------------------------------------------------------
(* The wallet request.                                                     *)

Unfinished == {"RUNNING", "RECONCILIATION_REQUIRED"}

\* The request is valid, HasActiveTrading says no and a withdrawal reaches its
\* minimum; a request that is refused changes nothing.
Receive(h, id) ==
    /\ handler[h].pc = "idle" /\ served < MaxServed /\ served' = served + 1
    /\ session.status \notin Unfinished
    /\ handler' = [handler EXCEPT ![h] = [Idle EXCEPT !.pc = "balance", !.id = id]]
    /\ UNCHANGED <<account, cache, session, starter, operation, sessions, rolls,
                   troubles, stale>>

Goes(h, pc) == handler' = [handler EXCEPT ![h].pc = pc]
Replies(h) == handler' = [handler EXCEPT ![h] = Idle]

\* Somebody is between a payment and the end of the cached balance.
Clearing == payout.pc = "answer" \/ \E h \in Handlers : handler[h].pc = "answer"

\* The answer of provider.Balance: the cached value, or the live one.
Known == IF cache = None THEN provider ELSE cache

ReadBalance(h) ==
    /\ handler[h].pc = "balance"
    /\ handler' = [handler EXCEPT ![h].pc = "fees", ![h].balance = Known,
                                  ![h].met = Clearing]
    /\ cache' = Known
    /\ UNCHANGED <<account, session, starter, operation, counts, troubles, stale>>

\* mutant of Available: the reserved fees are not subtracted
WholeBalance(balance, reserved) == balance

\* availableWalletBalance
Available(balance, reserved) == IF balance < reserved THEN 0 ELSE balance - reserved

\* OutstandingTradingFees, and the amount against what is left.
ReadFees(h) ==
    /\ handler[h].pc = "fees"
    /\ IF Available(handler[h].balance, fees) < Amount
       THEN Replies(h)
       ELSE handler' = [handler EXCEPT ![h].pc = "row", ![h].fees = fees]
    /\ UNCHANGED <<account, cache, session, starter, operation, counts, troubles, stale>>

\* BeginWalletOperation: SELECT ... WHERE request_id=$1.  A row that is there
\* is answered with (COMPLETED) or refused.
SelectRow(h) ==
    /\ handler[h].pc = "row"
    /\ IF handler[h].id \in DOMAIN row THEN Replies(h) ELSE Goes(h, "insert")
    /\ UNCHANGED <<account, cache, session, starter, operation, counts, troubles, stale>>

\* mutant of Inserted: the insert gives way to a row that is there
OnConflict(id) == TRUE

\* The primary key lets one insert of a request id through.
Inserted(id) == id \notin DOMAIN row

InsertRow(h) ==
    /\ handler[h].pc = "insert"
    /\ IF Inserted(handler[h].id)
       THEN /\ row' = [id \in DOMAIN row \cup {handler[h].id} |->
                          IF id = handler[h].id THEN "PROCESSING" ELSE row[id]]
            /\ Goes(h, "send")
       ELSE Replies(h) /\ UNCHANGED row
    /\ UNCHANGED <<account, cache, session, starter, paid, unclear, counts, troubles, stale>>

Pay(h) ==
    LET id == handler[h].id IN
    /\ provider >= Amount
    /\ provider' = provider - Amount
    /\ paid' = [paid EXCEPT ![id] = @ + 1]
    /\ stale' = (stale \/ provider < handler[h].balance \/ Owed > handler[h].fees
                       \/ session.status # "NONE")
    /\ starter' = Met
    /\ UNCHANGED <<fees, held, payout>>

\* Withdraw or Transfer: paid, refused, or paid or not without an answer.
Send(h) ==
    LET id == handler[h].id IN
    /\ handler[h].pc = "send"
    /\ \/ /\ Pay(h)
          /\ handler' = Meets([handler EXCEPT ![h].pc = "answer", ![h].ok = TRUE])
          /\ UNCHANGED <<troubles, unclear>>
       \/ /\ Goes(h, "finish")
          /\ UNCHANGED <<account, starter, paid, troubles, unclear, stale>>
       \/ /\ Trouble /\ unclear' = unclear \cup {id}
          /\ \/ Pay(h) /\ handler' = Meets([handler EXCEPT ![h].pc = "finish"])
             \/ Goes(h, "finish") /\ UNCHANGED <<account, starter, paid, stale>>
    /\ UNCHANGED <<cache, session, row, counts>>

Cleared == None

\* ClearBalanceCache after a payment that was answered, and that alone.
Answer(h) ==
    /\ handler[h].pc = "answer"
    /\ cache' = Cleared
    /\ Goes(h, "finish")
    /\ UNCHANGED <<account, session, starter, operation, counts, troubles, stale>>

\* mutant of Again: the second attempt records the failure of the first
AgainFailed(h) == "FAILED"

Again(h) == "COMPLETED"

\* FinishWalletOperation ... WHERE status='PROCESSING'.
Finish(h) ==
    LET id == handler[h].id
        status == CASE handler[h].pc = "again" -> Again(h)
                    [] handler[h].ok -> "COMPLETED"
                    [] OTHER -> "FAILED" IN
    /\ handler[h].pc \in {"finish", "again"}
    /\ row' = [row EXCEPT ![id] = IF @ = "PROCESSING" THEN status ELSE @]
    /\ Replies(h)
    /\ UNCHANGED <<account, cache, session, starter, paid, unclear, counts, troubles, stale>>

\* The statement fails.  A completed operation is tried once more without the
\* provider's answer, then the row stays PROCESSING.
FinishFails(h) ==
    /\ handler[h].pc \in {"finish", "again"} /\ Trouble
    /\ IF handler[h].pc = "finish" /\ handler[h].ok THEN Goes(h, "again") ELSE Replies(h)
    /\ UNCHANGED <<account, cache, session, starter, operation, counts, stale>>

\* The browser leaves or a read fails: no further statement of the request
\* succeeds.  A payment on its way may be made.
Leave(h) ==
    /\ handler[h].pc # "idle" /\ Trouble
    /\ \/ /\ handler[h].pc = "send" /\ Pay(h)
          /\ unclear' = unclear \cup {handler[h].id}
          /\ handler' = Meets([handler EXCEPT ![h] = Idle])
       \/ Replies(h) /\ UNCHANGED <<account, starter, paid, unclear, stale>>
    /\ UNCHANGED <<cache, session, row, counts>>

\* Five seconds pass; a balance that is shown fills the cache again.
Expire ==
    /\ cache # None /\ cache' = None
    /\ UNCHANGED <<account, session, starter, operation, handler, counts, troubles, stale>>

-----------------------------------------------------------------------------
(* Trading on the same balance (external to the wallet: internal/trading). *)

\* Engine.Start finds no unfinished session and reads the balance,
StartBalance ==
    /\ starter.pc = "idle" /\ session.status = "NONE" /\ sessions < MaxSessions
    /\ starter' = [pc |-> "fees", balance |-> Known, fees |-> 0, met |-> Clearing]
    /\ cache' = Known
    /\ UNCHANGED <<account, session, operation, handler, counts, troubles, stale>>

Opens(balance, reserved) == balance - reserved >= 1

\* the reserved fees of the table,
StartFees ==
    /\ starter.pc = "fees"
    /\ starter' = IF Opens(starter.balance, fees)
                  THEN [starter EXCEPT !.pc = "insert", !.fees = fees] ELSE NoStart
    /\ UNCHANGED <<account, cache, session, operation, handler, counts, troubles, stale>>

\* and opens a session on the difference.
StartSession ==
    /\ starter.pc = "insert"
    /\ session' = [status |-> "RUNNING", visible |-> starter.balance - starter.fees,
                   late |-> 0]
    /\ sessions' = sessions + 1
    /\ stale' = (stale \/ provider < starter.balance \/ Owed > starter.fees)
    /\ starter' = NoStart
    /\ UNCHANGED <<account, cache, operation, handler, served, rolls, troubles>>

\* A bet of 1: lost, or won with 2, of which 1 is the fee; the stake comes out
\* of the visible balance.  When its outcome does not reach the engine, the
\* session is completed over it and nobody books its fee.  When the worker dies
\* over it, Recover sets the session aside: the fee counts once the bet is
\* reconciled, straight into the table, and what the worker held is lost.
Roll ==
    /\ session.status = "RUNNING" /\ rolls < MaxRolls /\ rolls' = rolls + 1
    /\ session.visible >= 1 /\ provider >= 1
    /\ \/ /\ provider' = provider - 1 /\ cache' = None
          /\ session' = [session EXCEPT !.visible = @ - 1]
          /\ UNCHANGED <<held, troubles>>
       \/ /\ provider' = provider + 2 /\ held' = held + 1 /\ cache' = None
          /\ session' = [session EXCEPT !.visible = @ + 1]
          /\ UNCHANGED troubles
       \/ /\ Trouble /\ UNCHANGED cache
          /\ \E win \in BOOLEAN :
                 /\ provider' = IF win THEN provider + 2 ELSE provider - 1
                 /\ \/ session' = NoSession /\ UNCHANGED held
                    \/ /\ session' = [session EXCEPT !.status = "RECONCILIATION_REQUIRED",
                                                     !.late = IF win THEN 1 ELSE 0]
                       /\ held' \in {0, held}
    /\ handler' = Meets(handler) /\ starter' = Met
    /\ UNCHANGED <<fees, payout, operation, served, sessions, stale>>

\* The session is completed; its fees are still held in memory.
EndSession ==
    /\ session.status # "NONE"
    /\ session' = NoSession
    /\ fees' = fees + session.late
    /\ handler' = Meets(handler) /\ starter' = Met
    /\ UNCHANGED <<provider, held, payout, cache, operation, counts, troubles, stale>>

\* FlushPendingFees, after the session's last statement.
Flush ==
    /\ held > 0
    /\ fees' = fees + held /\ held' = 0
    /\ handler' = Meets(handler) /\ starter' = Met
    /\ UNCHANGED <<provider, payout, cache, session, operation, counts, troubles, stale>>

-----------------------------------------------------------------------------
(* dispatchFees and sendFee pay the collector through the same Transfer.  An *)
(* account has one unresolved payout; its two columns of fees are one here.  *)

To(pc) == payout' = [payout EXCEPT !.pc = pc]

\* The payout of the fees as they are read, marked SENT.
PayoutMarked ==
    /\ payout.pc = "idle" /\ fees > 0
    /\ payout' = [pc |-> "send", amount |-> fees, moved |-> 0]
    /\ UNCHANGED <<provider, fees, held, cache, session, starter, handler, operation,
                   counts, troubles, stale>>

\* Transfer: paid, refused, or paid or not without an answer, which all but the
\* first leave the payout under review.
PayoutSent ==
    /\ payout.pc = "send"
    /\ \/ To("review") /\ UNCHANGED <<provider, handler, starter, troubles>>
       \/ /\ provider >= payout.amount
          /\ provider' = provider - payout.amount
          /\ handler' = Meets(handler) /\ starter' = Met
          /\ \E pc \in {"answer", "review"} :
                 /\ payout' = [payout EXCEPT !.pc = pc, !.moved = payout.amount]
                 /\ IF pc = "review" THEN Trouble ELSE UNCHANGED troubles
    /\ UNCHANGED <<fees, held, cache, session, operation, counts, stale>>

\* ClearBalanceCache after a transfer that was answered.
PayoutAnswered ==
    /\ payout.pc = "answer"
    /\ To("record") /\ cache' = None
    /\ UNCHANGED <<provider, fees, held, session, starter, handler, operation,
                   counts, troubles, stale>>

\* What a payout of a leaves in the table.
Booked(a) == IF fees < a THEN 0 ELSE fees - a          \* greatest(... - $3, 0)

\* The transaction that clears the books.
PayoutRecorded ==
    /\ payout.pc = "record"
    /\ fees' = Booked(payout.amount) /\ payout' = NoPayout
    /\ handler' = Meets(handler) /\ starter' = Met
    /\ UNCHANGED <<provider, held, cache, session, operation, counts, troubles, stale>>

\* It fails, or the process dies before it: the fees stay on the books.
PayoutUnrecorded ==
    /\ payout.pc = "record" /\ Trouble
    /\ To("review")
    /\ UNCHANGED <<provider, fees, held, cache, session, starter, handler, operation,
                   counts, stale>>

Request(h) ==
    \/ ReadBalance(h)
    \/ ReadFees(h)
    \/ SelectRow(h)
    \/ InsertRow(h)
    \/ Send(h)
    \/ Answer(h)
    \/ Finish(h)
    \/ FinishFails(h)
    \/ Leave(h)

Trading ==
    \/ StartBalance \/ StartFees \/ StartSession
    \/ Roll \/ EndSession \/ Flush

Dispatch ==
    \/ PayoutMarked \/ PayoutSent \/ PayoutAnswered
    \/ PayoutRecorded \/ PayoutUnrecorded

Next ==
    \/ \E h \in Handlers : Request(h) \/ \E id \in Ids : Receive(h, id)
    \/ Expire
    \/ Trading
    \/ Dispatch

Spec == Init /\ [][Next]_vars

-----------------------------------------------------------------------------
(* Properties.                                                             *)

\* The step in which the provider pays what h asks for.
Pays(h) ==
    /\ handler[h].pc = "send" /\ handler'[h].pc # "send"
    /\ paid'[handler[h].id] > paid[handler[h].id]

\* A request id moves money at most once, however often the browser sends it
\* (BeginWalletOperation).
PaidOnce == \A id \in Ids : paid[id] <= 1

\* What a request id is for SingleTransfer: the row is inserted just before the
\* provider is called, and says so.
BookOf(id) ==
    IF id \notin DOMAIN row THEN "absent"
    ELSE CASE row[id] = "PROCESSING" -> "sent"
           [] row[id] = "COMPLETED" -> "recorded"
           [] row[id] = "FAILED" -> "abandoned"

SingleTransfers == INSTANCE SingleTransfer WITH
    Obligations <- Ids, book <- [id \in Ids |-> BookOf(id)],
    due <- [id \in Ids |-> IF id \in DOMAIN row THEN Amount ELSE 0]

\* A request sent again, two requests at a time and browsers that leave together
\* move the money of a request id as one single transfer (walletOperation,
\* BeginWalletOperation, FinishWalletOperation).
ImplementsSingleTransfer == SingleTransfers!Spec

\* What the ledger says is what the provider did; only an operation whose
\* payment was never answered may be FAILED, or PROCESSING for good, and paid.
StatusIsTrue ==
    \A id \in DOMAIN row :
        /\ row[id] = "COMPLETED" => paid[id] = 1
        /\ row[id] = "FAILED" /\ paid[id] = 1 => id \in unclear

\* "Withdrawal dan transfer tidak boleh dilakukan ketika trading masih aktif":
\* no money leaves while a session is unfinished (HasActiveTrading).
PaysBetweenSessions ==
    [][\A h \in Handlers : Pays(h) => session.status \notin Unfinished]_vars

\* The account covers the fees the collector does not have yet, unless a payment
\* or a session was decided on what was no longer true: the balance, no session,
\* or the fees, which the table does not have until FlushPendingFees.
UncoveredIsStale == Owed > provider => stale

\* "Saldo tersedia: saldo Pasino dikurangi saldo tertahan. Bot hanya boleh
\* memakai saldo tersedia": a payment during which nothing else happened to the
\* account leaves the fees in it (availableWalletBalance).
PaysFromAvailable ==
    [][\A h \in Handlers :
           Pays(h) /\ ~handler[h].met /\ session.status = "NONE" /\ troubles = 0
               => Owed <= provider']_vars
=============================================================================
