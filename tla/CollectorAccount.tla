--------------------------- MODULE CollectorAccount ---------------------------
(***************************************************************************)
(* The fee collector's account in one coin: the referral bonuses it owes   *)
(* (ledger.go accrueReferral, user/referral.go, user/store.go ClaimBonus,  *)
(* cmd/ryubot/bonus_move.go) and the shares of the owners it pays twice a  *)
(* day (management/service.go run, cutoffCoin, processCutoffPayouts).      *)
(*                                                                         *)
(* The database and the provider are two systems: every statement and      *)
(* every transfer is an action.                                            *)
(***************************************************************************)
EXTENDS RollMath, Sequences, FiniteSets, Functions, SequencesExt

CONSTANTS
  Users,         \* who earns bonuses
  Bettors,       \* who bets
  Referrer,      \* user_referrals
  Nobody,        \* the referrer of a user without one
  Referral,      \* rule: basis points of the levels
  Holding,       \* rule: basis points that go to the collector
  Gains,         \* gross profits of winning bets, in this coin or another
  Share,         \* basis points of the owners but the last, who gets the rest
  Processes,     \* bot processes: a deployment overlaps two
  Slots,         \* cutoffs of the day
  MinimumClaim,
  Opening,       \* the collector's balance in the morning
  MaxBets,       \* bound: bets that accrue a bonus or a fee
  MaxRequests,   \* bound: claims and runs of bonus-move
  MaxCrashes     \* bound: processes that die, statements about a payout that fail

VARIABLES
  balance,   \* at the provider
  due,       \* holding fees the collector has yet to receive
  bonus,     \* referral_bonus_balances.available_amount
  batches,   \* owner_cutoff_batches with their owner_cutoff_payouts
  slot,      \* whose minute it is
  service,   \* locals of a process of management.Service
  mover,     \* locals of bonus-move
  claimant,  \* locals of claimReferralBonus
  account,   \* history
  bets, requests, crashes

vars == <<balance, due, bonus, batches, slot, service, mover, claimant,
          account, bets, requests, crashes>>
bounds == <<bets, requests, crashes>>

Owners == 1..(Len(Share) + 1)

ASSUME CollectorAssumption ==
  /\ Whole \in Nat \ {0} /\ Gains \subseteq Nat \ {0} /\ Opening \in Nat
  /\ Bettors \subseteq Users /\ Nobody \notin Users
  /\ Referrer \in [Users -> Users \cup {Nobody}]
  /\ Referral \in Seq(Nat) /\ Share \in Seq(Nat) /\ Holding \in 0..Whole
  /\ SumFunction(Referral) <= Holding /\ SumFunction(Share) <= Whole
  /\ Slots \in Nat \ {0} /\ MinimumClaim \in Nat
  /\ {MaxBets, MaxRequests, MaxCrashes} \subseteq Nat
ASSUME UsersFinite == IsFiniteSet(Users)

PayoutStatus == {"PREPARED", "SENT", "COMPLETED", "REVIEW_REQUIRED"}
BatchStatus == {"NONE", "PROCESSING"}
Unresolved == {"PREPARED", "SENT", "REVIEW_REQUIRED"}

\* A batch is inserted PROCESSING and stays so: see FinishBatch.  distributable is
\* distributable_amount; paid is history: how often the provider
\* carried the payout out.
Payout == [status : PayoutStatus, amount : Nat, paid : Nat]
Batch == [status : BatchStatus, distributable : Nat, payouts : Seq(Payout)]
NoBatch == [status |-> "NONE", distributable |-> 0, payouts |-> <<>>]

\* The statement or call a process comes to next.
ServicePC == {"idle", "balance", "liability", "insert", "take",
              "transfer", "done", "failed", "finish", "down"}

\* slot is the batch at work; jobs the payouts it has yet to come to, job the one
\* it is at; checked is lastCutoffCheck.  History: the payouts it has skipped
\* because a statement failed; crossed, money left the collector after the balance
\* was read.
Service ==
  [pc : ServicePC, slot : 0..Slots, checked : 0..Slots,
   balance : Nat, liability : Nat, jobs : SUBSET Owners,
   job : Owners \cup {0}, skipped : SUBSET Owners, crossed : BOOLEAN]

Started ==
  [pc |-> "idle", slot |-> 0, checked |-> 0, balance |-> 0, liability |-> 0,
   jobs |-> {}, job |-> 0, skipped |-> {}, crossed |-> FALSE]

\* rows: what bonus-move read and has not come to; user: the row at work.
Mover == [pc : {"idle", "next", "transfer", "write"}, rows : [Users -> Nat],
          user : Users \cup {Nobody}]
NoMove == [pc |-> "idle", rows |-> [u \in Users |-> 0], user |-> Nobody]

\* moved: paid by bonus-move; written: written off by it; raced: bonuses earned
\* while a move had the user's row; doubted: moves paid and not recorded; astray:
\* holding fees of bets in this coin that were booked in another; crossed: a batch
\* was cut from readings with a payment in between.
Account == [moved : Nat, written : Nat, raced : Nat, doubted : Nat, astray : Nat,
            crossed : BOOLEAN]

Init ==
  /\ balance = Opening /\ due = 0
  /\ bonus = [u \in Users |-> 0]
  /\ batches = [s \in 1..Slots |-> NoBatch]
  /\ slot = 1
  /\ service = [p \in Processes |-> Started]
  /\ mover = NoMove
  /\ claimant = [u \in Users |-> "idle"]
  /\ account = [moved |-> 0, written |-> 0, raced |-> 0, doubted |-> 0,
                astray |-> 0, crossed |-> FALSE]
  /\ bets = 0 /\ requests = 0 /\ crashes = 0

-----------------------------------------------------------------------------
(* Bonuses are earned: the profit of a bet pays the bettor's referrers *)

\* The levels that pay among the first l: a level of 0 is skipped, its referrer is
\* not.
Paying(l) == {k \in 1..l : Referral[k] > 0}

\* The k-th referrer above a user.
Upline(u, k) ==
  LET up[i \in 0..k] == IF i = 0 THEN u
                        ELSE IF up[i - 1] = Nobody THEN Nobody
                        ELSE Referrer[up[i - 1]]
  IN up[k]

\* What a bet of u pays to v.
BonusOf(u, v, gross) ==
  SumFunction([l \in DOMAIN Referral |->
    IF Upline(u, Cardinality(Paying(l))) = v
      THEN PercentageOf(gross, Referral[l]) ELSE 0])

InMove(v) == mover.pc # "idle" /\ (mover.rows[v] > 0 \/ mover.user = v)

accruing == <<balance, batches, slot, service, mover, claimant, requests, crashes>>

\* A bet in this coin.  The bonuses are a part of the holding fee, which reaches the
\* collector later; but the fees of a flush are all booked in the coin of its first
\* bet, which need not be this one, and each bonus in the coin of its bet.
Accrue(u, gross, first) ==
  LET earned == [v \in Users |-> BonusOf(u, v, gross)]
      fee == PercentageOf(gross, Holding)
  IN
  /\ bets < MaxBets
  /\ bets' = bets + 1
  /\ bonus' = [v \in Users |-> bonus[v] + earned[v]]
  /\ due' = due + IF first = "here" THEN fee ELSE 0
  /\ account' = [account EXCEPT
       !.astray = @ + IF first = "here" THEN 0 ELSE fee,
       !.raced = @ +
         SumFunction([v \in Users |-> IF InMove(v) THEN earned[v] ELSE 0])]
  /\ UNCHANGED accruing

\* A bet in another coin, in a flush whose first bet is in this one.
AccrueForeign(gross) ==
  /\ bets < MaxBets
  /\ bets' = bets + 1
  /\ due' = due + PercentageOf(gross, Holding)
  /\ UNCHANGED <<accruing, bonus, account>>

\* dispatchFees (module FeeLedger) has sent the fees.
FeesArrive ==
  /\ due > 0
  /\ balance' = balance + due
  /\ due' = 0
  /\ UNCHANGED <<bonus, batches, slot, service, mover, claimant, account, bounds>>

-----------------------------------------------------------------------------
(* Client.Transfer from the collector, as its caller sees it *)

\* The provider takes the money or refuses; "failed" says either.
Transfers(amount) ==
  {[answer |-> "failed", taken |-> 0]} \cup
    IF amount <= balance THEN [answer : {"done", "failed"}, taken : {amount}] ELSE {}

\* The processes that have read a balance this payment makes too high.
Crossed(taken) ==
  [p \in Processes |->
    [service[p] EXCEPT !.crossed = @ \/ (taken > 0 /\ service[p].pc = "liability")]]

-----------------------------------------------------------------------------
(* Service.run at the minute of a slot *)

serving == <<due, bonus, slot, mover, claimant, bounds>>
Stays == UNCHANGED <<balance, batches, account>>

At(p, pc) == service[p].pc = pc
Goes(p, pc) == service' = [service EXCEPT ![p].pc = pc]
Leaves(p) == service' = [service EXCEPT ![p] = [Started EXCEPT !.checked = service[p].checked]]

\* The slots are hours apart, and a cutoff is given five minutes.
Tick ==
  /\ slot < Slots
  /\ \A p \in Processes : service[p].pc \in {"idle", "down"}
  /\ slot' = slot + 1
  /\ UNCHANGED <<balance, due, bonus, batches, service, mover, claimant, account,
                 bounds>>

\* The payouts of a batch that wait to be sent.
Waiting(payouts) == {i \in Owners : payouts[i].status = "PREPARED"}

\* lastCutoffError, of five minutes, says nothing at a slot hours later.  A batch
\* found is PROCESSING, however far its payouts are.  They are listed with the batch:
\* one that another process takes after that is passed over.
BeginCutoff(p) ==
  LET batch == batches[slot]
      begun == [Started EXCEPT !.checked = slot, !.slot = slot]
  IN
  /\ At(p, "idle") /\ service[p].checked # slot
  /\ service' = [service EXCEPT ![p] =
       IF batch.status = "NONE" THEN [begun EXCEPT !.pc = "balance"]
       ELSE [begun EXCEPT !.pc = "take", !.jobs = Waiting(batch.payouts)]]
  /\ UNCHANGED serving /\ Stays

\* A balance of the client's cache is one read earlier.
ReadBalance(p) ==
  /\ At(p, "balance")
  /\ service' = [service EXCEPT ![p].pc = "liability", ![p].balance = balance]
  /\ UNCHANGED serving /\ Stays

\* Payouts that may still have to be made.
NotReviewed == Unresolved \ {"REVIEW_REQUIRED"}        \* mutant
Reserved == Unresolved

PayoutsIn(statuses) ==
  SumFunction([s \in DOMAIN batches |->
    SumFunction([i \in DOMAIN batches[s].payouts |->
      IF batches[s].payouts[i].status \in statuses
        THEN batches[s].payouts[i].amount ELSE 0])])

ReadLiability(p) ==
  /\ At(p, "liability")
  /\ service' = [service EXCEPT ![p].pc = "insert",
       ![p].liability = SumFunction(bonus) + PayoutsIn(Reserved)]
  /\ UNCHANGED serving /\ Stays

Available(p) ==
  IF service[p].balance > service[p].liability
    THEN service[p].balance - service[p].liability ELSE 0

Percents(amount) == [i \in DOMAIN Share |-> PercentageOf(amount, Share[i])]
\* What the last owner gets of an amount.
HisPercent(amount) ==                                  \* mutant
  PercentageOf(amount, Whole - SumFunction(Share))
TheRest(amount) == amount - SumFunction(Percents(amount))

\* One transaction; another process may have inserted the batch.
InsertBatch(p) ==
  LET s == service[p].slot
      amounts == Append(Percents(Available(p)), TheRest(Available(p)))
  IN
  /\ At(p, "insert")
  /\ IF batches[s].status # "NONE"
       THEN Leaves(p) /\ Stays
       ELSE /\ batches' = [batches EXCEPT ![s] =
                 [status |-> "PROCESSING", distributable |-> Available(p),
                  payouts |-> [i \in Owners |->
                    [status |-> "PREPARED", amount |-> amounts[i], paid |-> 0]]]]
            /\ account' = [account EXCEPT !.crossed = @ \/ service[p].crossed]
            /\ service' = [service EXCEPT ![p] = [Started EXCEPT !.pc = "take",
                 !.slot = s, !.checked = service[p].checked,
                 !.jobs = Owners]]
            /\ UNCHANGED balance
  /\ UNCHANGED serving

JobPayout(p) == batches[service[p].slot].payouts[service[p].job]
Mark(p, i, status) ==
  batches' = [batches EXCEPT ![service[p].slot].payouts[i].status = status]
StopAtFailure(p) ==                                    \* mutant
  service' = [service EXCEPT ![p].pc = IF At(p, "failed") THEN "finish" ELSE "take",
                             ![p].job = 0]
NextJob(p) == service' = [service EXCEPT ![p].pc = "take", ![p].job = 0]

\* Payouts a process may take to SENT.
AnyJob(payout) == payout.status \in {"PREPARED", "SENT"}  \* mutant
IsPrepared(payout) == payout.status = "PREPARED"

Drops(p, i) == [service[p] EXCEPT !.jobs = @ \ {i}]

\* The payouts are taken in the order of the owners; one that is not PREPARED any
\* more is passed over.
TakeJob(p) ==
  /\ At(p, "take")
  /\ \/ service[p].jobs = {} /\ Goes(p, "finish") /\ UNCHANGED batches
     \/ \E i \in service[p].jobs :
          LET payout == batches[service[p].slot].payouts[i] IN
          /\ \A k \in service[p].jobs : i <= k
          /\ \/ /\ ~IsPrepared(payout) /\ UNCHANGED batches
                /\ service' = [service EXCEPT ![p] = Drops(p, i)]
             \/ /\ IsPrepared(payout) /\ payout.amount = 0
                /\ Mark(p, i, "COMPLETED")
                /\ service' = [service EXCEPT ![p] = Drops(p, i)]
             \/ /\ IsPrepared(payout) /\ payout.amount # 0
                /\ Mark(p, i, "SENT")
                /\ service' = [service EXCEPT ![p] =
                                 [Drops(p, i) EXCEPT !.pc = "transfer", !.job = i]]
  /\ UNCHANGED serving /\ UNCHANGED <<balance, account>>

TransferShare(p) ==
  /\ At(p, "transfer")
  /\ \E t \in Transfers(JobPayout(p).amount) :
       /\ balance' = balance - t.taken
       /\ batches' = IF t.taken = 0 THEN batches
            ELSE [batches EXCEPT ![service[p].slot].payouts[service[p].job].paid = @ + 1]
       /\ service' = [Crossed(t.taken) EXCEPT ![p].pc = t.answer]
  /\ UNCHANGED serving /\ UNCHANGED account

\* Written only where the payout is still SENT.
RecordShare(p) ==
  /\ At(p, "done")
  /\ IF JobPayout(p).status = "SENT"
       THEN Mark(p, service[p].job, "COMPLETED") ELSE UNCHANGED batches
  /\ NextJob(p)
  /\ UNCHANGED serving /\ UNCHANGED <<balance, account>>

\* Written whatever the payout has become.
RecordFailure(p) ==
  /\ At(p, "failed")
  /\ Mark(p, service[p].job, "REVIEW_REQUIRED")
  /\ NextJob(p)
  /\ UNCHANGED serving /\ UNCHANGED <<balance, account>>

\* A statement about a payout fails; the others are gone through all the same.
StatementFails(p) ==
  /\ crashes < MaxCrashes
  /\ crashes' = crashes + 1
  /\ \/ /\ At(p, "take")
        /\ \E i \in service[p].jobs :
             /\ \A k \in service[p].jobs : i <= k
             /\ service' = [service EXCEPT ![p] =
                              [Drops(p, i) EXCEPT !.skipped = @ \cup {i}]]
     \/ (At(p, "done") \/ At(p, "failed")) /\ NextJob(p)
  /\ UNCHANGED <<balance, due, bonus, batches, slot, mover, claimant, account,
                 bets, requests>>

\* The payouts that are not COMPLETED are counted, and the batch is to become
\* COMPLETED or REVIEW_REQUIRED; but the statement takes its parameter for a varchar
\* and for a text, and PostgreSQL refuses it.
FinishBatch(p) ==
  /\ At(p, "finish")
  /\ Leaves(p)
  /\ UNCHANGED serving /\ Stays

\* A statement fails, or the 90 seconds of the coin are over.
GiveUp(p) ==
  /\ service[p].pc \in {"balance", "liability", "insert", "take"}
  /\ Leaves(p)
  /\ UNCHANGED serving /\ Stays

Crash(p) ==
  /\ ~At(p, "down") /\ crashes < MaxCrashes
  /\ crashes' = crashes + 1
  /\ service' = [service EXCEPT ![p] = [Started EXCEPT !.pc = "down"]]
  /\ UNCHANGED <<balance, due, bonus, batches, slot, mover, claimant, account,
                 bets, requests>>

\* Service.Run takes every payout SENT from whoever sends it.
Start(p) ==
  /\ At(p, "down")
  /\ service' = [service EXCEPT ![p] = Started]
  /\ batches' = [s \in DOMAIN batches |-> [batches[s] EXCEPT !.payouts =
       [i \in DOMAIN @ |-> IF @[i].status = "SENT"
          THEN [@[i] EXCEPT !.status = "REVIEW_REQUIRED"] ELSE @[i]]]]
  /\ UNCHANGED serving /\ UNCHANGED <<balance, account>>

-----------------------------------------------------------------------------
(* bonus-move, run by hand beside the bot: every bonus goes to one account *)

moving == <<due, batches, slot, claimant, bets>>

StartMove ==
  /\ mover.pc = "idle" /\ requests < MaxRequests
  /\ requests' = requests + 1
  /\ mover' = [NoMove EXCEPT !.pc = "next", !.rows = bonus]
  /\ UNCHANGED <<moving, balance, bonus, service, account, crashes>>

NextRow ==
  /\ mover.pc = "next"
  /\ \/ \E u \in Users : /\ mover.rows[u] > 0
                         /\ mover' = [mover EXCEPT !.pc = "transfer", !.user = u]
     \/ /\ \A u \in Users : mover.rows[u] = 0
        /\ mover' = NoMove
  /\ UNCHANGED <<moving, balance, bonus, service, account, requests, crashes>>

RowDone ==
  mover' = [mover EXCEPT !.pc = "next", !.user = Nobody, !.rows[mover.user] = 0]

\* What bonus-move does after the answer to a transfer.
WrittenAnyway == {"done", "failed"}                    \* mutant
WrittenOff == {"done"}

MoveTransfer ==
  /\ mover.pc = "transfer"
  /\ \E t \in Transfers(mover.rows[mover.user]) :
       /\ balance' = balance - t.taken
       /\ service' = Crossed(t.taken)
       /\ IF t.answer \in WrittenOff
            THEN mover' = [mover EXCEPT !.pc = "write"]
            ELSE RowDone
       /\ account' = [account EXCEPT !.moved = @ + t.taken,
            !.doubted = @ + IF t.answer = "failed" THEN t.taken ELSE 0]
  /\ UNCHANGED <<moving, bonus, requests, crashes>>

\* The row is zeroed, whatever has been added since it was read; the statement
\* may fail.
WriteOff ==
  /\ mover.pc = "write"
  /\ \/ /\ bonus' = [bonus EXCEPT ![mover.user] = 0]
        /\ account' = [account EXCEPT !.written = @ + bonus[mover.user]]
     \/ /\ account' = [account EXCEPT !.doubted = @ + mover.rows[mover.user]]
        /\ UNCHANGED bonus
  /\ RowDone
  /\ UNCHANGED <<moving, balance, service, requests, crashes>>

MoverDies ==
  /\ mover.pc # "idle" /\ crashes < MaxCrashes
  /\ crashes' = crashes + 1
  /\ mover' = NoMove
  /\ account' = [account EXCEPT !.doubted = @ +
       IF mover.pc = "write" THEN mover.rows[mover.user] ELSE 0]
  /\ UNCHANGED <<moving, balance, bonus, service, requests>>

-----------------------------------------------------------------------------
(* claimReferralBonus *)

claiming == <<balance, due, bonus, batches, slot, service, mover, account,
              bets, crashes>>

\* A bonus below the minimum is refused at once.
AskClaim(u) ==
  /\ claimant[u] = "idle" /\ bonus[u] >= MinimumClaim /\ requests < MaxRequests
  /\ requests' = requests + 1
  /\ claimant' = [claimant EXCEPT ![u] = "checked"]
  /\ UNCHANGED claiming

\* Store.ClaimBonus: the event it inserts has no id, a key without a default, so
\* that the deduction is rolled back.  Of a row drained meanwhile it deducts
\* nothing, and the amount claimed so far is transferred: nothing, too.
ClaimBonus(u) ==
  /\ claimant[u] = "checked"
  /\ claimant' = [claimant EXCEPT ![u] = "idle"]
  /\ UNCHANGED <<claiming, requests>>

Next ==
  \/ Tick \/ FeesArrive
  \/ \E gross \in Gains :
       \/ \E u \in Bettors, first \in {"here", "elsewhere"} : Accrue(u, gross, first)
       \/ AccrueForeign(gross)
  \/ \E u \in Users : AskClaim(u) \/ ClaimBonus(u)
  \/ \E p \in Processes :
       \/ BeginCutoff(p) \/ ReadBalance(p) \/ ReadLiability(p)
       \/ InsertBatch(p) \/ TakeJob(p) \/ TransferShare(p)
       \/ RecordShare(p) \/ RecordFailure(p) \/ FinishBatch(p)
       \/ StatementFails(p) \/ GiveUp(p) \/ Crash(p) \/ Start(p)
  \/ StartMove \/ NextRow \/ MoveTransfer \/ WriteOff \/ MoverDies

Spec == Init /\ [][Next]_vars

-----------------------------------------------------------------------------
(* Properties *)

\* Type invariant of the model.
TypeOK ==
  /\ balance \in Nat /\ due \in Nat /\ bonus \in [Users -> Nat]
  /\ batches \in [1..Slots -> Batch]
  /\ slot \in 1..Slots
  /\ service \in [Processes -> Service]
  /\ mover \in Mover
  /\ claimant \in [Users -> {"idle", "checked"}]
  /\ account \in Account
  /\ bets \in 0..MaxBets /\ requests \in 0..MaxRequests
  /\ crashes \in 0..MaxCrashes

Payouts(s) == Range(batches[s].payouts)

\* However processes overlap, die and start again, the provider carries an owner's
\* payout out at most once (service.go processCutoffPayouts takes PREPARED to SENT
\* before the transfer, and a payout under review is not sent again).
ShareOnce == \A s \in 1..Slots : \A o \in Payouts(s) : o.paid <= 1

\* What an owner's share of a slot is for SingleTransfer.
OwnerShares == (1..Slots) \X Owners
NoShare == [status |-> "ABSENT", amount |-> 0, paid |-> 0]
ShareOf(x) ==
  IF batches[x[1]].status = "NONE" THEN NoShare ELSE batches[x[1]].payouts[x[2]]
BookOf(share) ==
  CASE share.status = "ABSENT" -> "absent"
    [] share.status = "PREPARED" -> "noted"
    [] share.status = "SENT" -> "sent"
    [] share.status = "COMPLETED" -> "recorded"
    [] share.status = "REVIEW_REQUIRED" -> "abandoned"

SingleTransfers == INSTANCE SingleTransfer WITH
  Obligations <- OwnerShares, book <- [x \in OwnerShares |-> BookOf(ShareOf(x))],
  due <- [x \in OwnerShares |-> ShareOf(x).amount], paid <- [x \in OwnerShares |-> ShareOf(x).paid]

\* Processes that share a batch, die, start again and lose answers together pay an
\* owner's share as one single transfer (service.go Run, cutoffCoin,
\* processCutoffPayouts).
ImplementsSingleTransfer == SingleTransfers!Spec

\* A process that comes to the end of a batch leaves no share untried, its own
\* failures aside: one transfer that fails keeps no other owner from his share, and
\* what a process that died or gave up has left is taken up by the next (service.go
\* processCutoffPayouts goes on to the next job after every failure).
EveryShareTried ==
  \A p \in Processes : At(p, "finish") =>
    Waiting(batches[service[p].slot].payouts) \subseteq service[p].skipped

\* The payouts of a batch are what it distributes, rounding included (service.go
\* cutoffCoin gives the last owner the rest).
SharesAddUp ==
  \A s \in 1..Slots : batches[s].status # "NONE" =>
    SumFunction([i \in Owners |-> batches[s].payouts[i].amount])
      = batches[s].distributable

Unpaid ==
  SumFunction([s \in 1..Slots |->
    SumFunction([i \in DOMAIN batches[s].payouts |->
      LET o == batches[s].payouts[i]
      IN IF o.status # "COMPLETED" /\ o.paid = 0 THEN o.amount ELSE 0])])

\* What bonus-move has paid and comes to write off.
Open == IF mover.pc = "write" THEN mover.rows[mover.user] ELSE 0

Covers ==
  SumFunction(bonus) + Unpaid
    <= balance + due + account.doubted + account.astray + Open

\* What the collector owes in a coin, bonuses and shares not yet paid, it has or is
\* to receive, but for what bonus-move paid and did not write off and the fees that
\* AccrueSessionFees booked in another coin; a batch cut while a payment left between
\* the reading of the balance and that of the liabilities is excepted (service.go
\* cutoffCoin; BUSINESS_FLOW.md section 10: only what is owed to nobody is shared).
CutoffCovered == account.crossed \/ Covers

\* The same without the exception.
OnlyUnowedIsShared == Covers

\* bonus-move writes off what it paid, or a bonus earned while it had the row; what
\* it paid and did not write off is in doubt (bonus_move.go "Only on a successful
\* transfer is the row written off").
MoveIsRecorded ==
  /\ account.written <= account.moved + account.raced
  /\ account.moved <= account.written + account.doubted + Open

\* A claim that reaches the minimum takes the bonus (BUSINESS_FLOW.md section 7,
\* "Bonus dikirim ke akun Pasino user").
ClaimIsGranted ==
  [][\A u \in Users :
       claimant[u] = "checked" /\ claimant'[u] # "checked" /\ bonus[u] > 0
         => bonus'[u] = 0]_vars
=============================================================================
