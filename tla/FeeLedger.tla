------------------------------ MODULE FeeLedger ------------------------------
(***************************************************************************)
(* The way of a fee: a settled roll leaves it in the memory of its process *)
(* (engine.go settleBet), a flush books it in trading_fee_balances         *)
(* (FlushPendingFees, ledger.go AccrueSessionFees), a dispatch turns the   *)
(* booked amount into a payout and moves the money at the provider         *)
(* (management/service.go dispatchFees, sendFee).                          *)
(*                                                                         *)
(* One coin.  holding_pending and kangden_pending move alike and are one   *)
(* amount, whose payout stands for either.  Referral bonuses are booked in *)
(* the transaction of the fees and are left out.                           *)
(***************************************************************************)
EXTENDS Naturals, FiniteSets, Functions

CONSTANTS
  Workers,       \* process incarnations, as in TradingEngine
  Flushes,       \* calls of FlushPendingFees under way at once in a process
  Users,
  Payouts,       \* rows management_fee_payouts may hold
  FeeAmounts,    \* fees of one roll; 0 for a loss or an exempt user
  MaxProcesses,  \* processes alive at once
  MaxRolls,      \* bound: rolls settled
  MaxFaults,     \* bound: statements that fail in a live process
  None

ASSUME FeeAssumption ==
  /\ FeeAmounts \subseteq Nat
  /\ MaxProcesses \in Nat /\ MaxRolls \in Nat /\ MaxFaults \in Nat
  /\ None \notin Users \cup Payouts

VARIABLES
  process,   \* life of a process
  earned,    \* fees of a user's COMPLETED provider_bets
  pending,   \* trading_fee_balances
  buffer,    \* Engine.pendingFees
  batch,     \* what each call of FlushPendingFees copied and has to book
  payout,    \* management_fee_payouts
  moved,     \* transfers the provider executed for a payout
  dispatch,  \* where dispatchFees stands in a process
  rolls, faults

vars == <<process, earned, pending, buffer, batch, payout, moved, dispatch,
          rolls, faults>>

accrual == <<earned, buffer, batch, rolls>>
paying  == <<payout, moved, dispatch>>

Unresolved == {"PREPARED", "SENT", "REVIEW_REQUIRED"}
PayoutStatus == Unresolved \cup {"ABSENT", "COMPLETED"}

Payout == [user : Users \cup {None}, amount : Nat, status : PayoutStatus]

\* A list of SessionFee, of which AccrueSessionFees uses the user of the first
\* entry and the sum of the fees.
SessionFees == [user : Users \cup {None}, fees : Nat]

DispatchPC == {"idle", "insert", "send", "transfer", "review", "record"}

\* seen: the amounts of the first query; jobs: how often a payout stands in the
\* list (a new one is listed again by the query of PREPARED rows); sending: the
\* job at hand.  The order of the jobs is left open.
Dispatch ==
  [pc : DispatchPC, seen : [Users -> Nat], jobs : [Payouts -> Nat],
   sending : Payouts \cup {None}]

NoFees       == [user |-> None, fees |-> 0]
NoBatch      == [f \in Flushes |-> NoFees]
AbsentPayout == [user |-> None, amount |-> 0, status |-> "ABSENT"]
NoJobs       == [p \in Payouts |-> 0]
IdleDispatch == [pc |-> "idle", seen |-> [u \in Users |-> 0], jobs |-> NoJobs,
                 sending |-> None]

Init ==
  /\ process  = [w \in Workers |-> "unborn"]
  /\ earned   = [u \in Users |-> 0]
  /\ pending  = [u \in Users |-> 0]
  /\ buffer   = [w \in Workers |-> NoFees]
  /\ batch    = [w \in Workers |-> NoBatch]
  /\ payout   = [p \in Payouts |-> AbsentPayout]
  /\ moved    = [p \in Payouts |-> 0]
  /\ dispatch = [w \in Workers |-> IdleDispatch]
  /\ rolls = 0 /\ faults = 0

Fault == /\ faults < MaxFaults
         /\ faults' = faults + 1

With(list, u, fee) ==
  [user |-> IF list = NoFees THEN u ELSE list.user, fees |-> list.fees + fee]

-----------------------------------------------------------------------------
(* Processes *)

\* management.Run begins by setting aside every payout found SENT, whichever
\* process sent it; an error of that statement is ignored.
SentSetAside ==
  [p \in Payouts |-> IF payout[p].status = "SENT"
                       THEN [payout[p] EXCEPT !.status = "REVIEW_REQUIRED"]
                       ELSE payout[p]]

Boot(w) ==
  /\ process[w] = "unborn"
  /\ Cardinality({v \in Workers : process[v] = "up"}) < MaxProcesses
  /\ process' = [process EXCEPT ![w] = "up"]
  /\ \/ payout' = SentSetAside /\ UNCHANGED faults
     \/ Fault /\ UNCHANGED payout
  /\ UNCHANGED <<accrual, pending, moved, dispatch>>

\* What waits in memory dies with the process.  Engine.Close is a flush that
\* comes first; the one that is under way, or fails, is lost all the same.
Crash(w) ==
  /\ process[w] = "up"
  /\ \E v \in Workers \ {w} : process[v] # "dead"
  /\ process' = [process EXCEPT ![w] = "dead"]
  /\ buffer' = [buffer EXCEPT ![w] = NoFees]
  /\ batch' = [batch EXCEPT ![w] = NoBatch]
  /\ dispatch' = [dispatch EXCEPT ![w] = IdleDispatch]
  /\ UNCHANGED <<earned, pending, payout, moved, rolls, faults>>

-----------------------------------------------------------------------------
(* Accrual *)

\* settleBet: SettleImmediate commits the roll without its fee, which waits in
\* memory.
SettleBet(w, u) ==
  /\ process[w] = "up"
  /\ rolls < MaxRolls
  /\ rolls' = rolls + 1
  /\ \E fee \in FeeAmounts :
       /\ earned' = [earned EXCEPT ![u] = @ + fee]
       /\ buffer' = [buffer EXCEPT ![w] = With(@, u, fee)]
  /\ UNCHANGED <<process, pending, batch, paying, faults>>

\* Settle, for a reconciled bet, books the fee in the same transaction.
Settle(w, u) ==
  /\ process[w] = "up"
  /\ rolls < MaxRolls
  /\ rolls' = rolls + 1
  /\ \E fee \in FeeAmounts :
       /\ earned' = [earned EXCEPT ![u] = @ + fee]
       /\ pending' = [pending EXCEPT ![u] = @ + fee]
  /\ UNCHANGED <<process, buffer, batch, paying, faults>>

\* The buffer once its entries are copied.
KeptBuffer(w) == buffer                                \* mutant
EmptiedBuffer(w) == [buffer EXCEPT ![w] = NoFees]

\* Called by the ticker and by every goroutine whose run ends.
FlushPendingFees(w, f) ==
  /\ process[w] = "up"
  /\ batch[w][f] = NoFees
  /\ buffer[w] # NoFees
  /\ batch' = [batch EXCEPT ![w][f] = buffer[w]]
  /\ buffer' = EmptiedBuffer(w)
  /\ UNCHANGED <<process, earned, pending, paying, rolls, faults>>

\* One transaction books the whole batch under the user of its first entry.  If
\* it fails, nobody keeps the batch.
AccrueSessionFees(w, f) ==
  LET fees == batch[w][f] IN
  /\ fees # NoFees
  /\ \/ /\ pending' = [pending EXCEPT ![fees.user] = @ + fees.fees]
        /\ UNCHANGED faults
     \/ Fault /\ UNCHANGED pending
  /\ batch' = [batch EXCEPT ![w][f] = NoFees]
  /\ UNCHANGED <<process, earned, buffer, paying, rolls>>

-----------------------------------------------------------------------------
(* dispatchFees, every thirty seconds in every process *)

At(w, pc) == process[w] = "up" /\ dispatch[w].pc = pc

Seen(w) == dispatch[w].seen
Jobs(w) == dispatch[w].jobs
Job(w)  == dispatch[w].sending

Goto(w, pc, seen, jobs, job) ==
  dispatch' = [dispatch EXCEPT ![w] =
    [pc |-> pc, seen |-> seen, jobs |-> jobs, sending |-> job]]

\* A dispatch that would find nothing to do is left out.
ReadFees(w) ==
  /\ At(w, "idle")
  /\ \/ \E u \in Users : pending[u] > 0
     \/ \E p \in Payouts : payout[p].status = "PREPARED"
  /\ Goto(w, "insert", pending, NoJobs, None)
  /\ UNCHANGED <<process, accrual, pending, payout, moved, faults>>

\* The unique index management_fee_payouts_one_unresolved.
AnyPayout(u) == TRUE                                   \* mutant
NoneUnresolved(u) ==
  \A p \in Payouts : payout[p].user = u => payout[p].status \notin Unresolved

\* INSERT ... ON CONFLICT DO NOTHING with the amount seen before.
InsertPayout(w) ==
  /\ At(w, "insert")
  /\ \E u \in Users :
       /\ Seen(w)[u] > 0
       /\ \/ /\ NoneUnresolved(u)
             /\ \E p \in Payouts :
                  /\ payout[p].status = "ABSENT"
                  /\ payout' = [payout EXCEPT ![p] =
                       [user |-> u, amount |-> Seen(w)[u], status |-> "PREPARED"]]
                  /\ Goto(w, "insert", [Seen(w) EXCEPT ![u] = 0],
                          [Jobs(w) EXCEPT ![p] = @ + 1], None)
          \/ /\ ~NoneUnresolved(u)
             /\ Goto(w, "insert", [Seen(w) EXCEPT ![u] = 0], Jobs(w), None)
             /\ UNCHANGED payout
  /\ UNCHANGED <<process, accrual, pending, moved, faults>>

\* The jobs, once the payouts that earlier dispatches left PREPARED are listed.
OnlyNewJobs(w) == Jobs(w)                             \* mutant
AllJobs(w) ==
  [p \in Payouts |->
    Jobs(w)[p] + (IF payout[p].status = "PREPARED" THEN 1 ELSE 0)]

ReadPrepared(w) ==
  /\ At(w, "insert")
  /\ \A u \in Users : Seen(w)[u] = 0
  /\ Goto(w, "send", Seen(w), AllJobs(w), None)
  /\ UNCHANGED <<process, accrual, pending, payout, moved, faults>>

\* Rows sendFee's first UPDATE matches.
AnyUnpaid(p) == payout[p].status \in Unresolved        \* mutant
StillPrepared(p) == payout[p].status = "PREPARED"

MarkSent(w) ==
  /\ At(w, "send")
  /\ \E p \in Payouts :
       /\ Jobs(w)[p] > 0
       /\ LET rest == [Jobs(w) EXCEPT ![p] = @ - 1] IN
          IF StillPrepared(p)
            THEN /\ payout' = [payout EXCEPT ![p].status = "SENT"]
                 /\ Goto(w, "transfer", Seen(w), rest, p)
            ELSE /\ Goto(w, "send", Seen(w), rest, None)
                 /\ UNCHANGED payout
  /\ UNCHANGED <<process, accrual, pending, moved, faults>>

\* The provider moves the money or not; an answer that is lost is an error like
\* a refusal.  (A transfer to oneself is skipped and counts as moved.)
Transfer(w) ==
  /\ At(w, "transfer")
  /\ \E pc \in {"record", "review"} :
       /\ Goto(w, pc, Seen(w), Jobs(w), Job(w))
       /\ \/ moved' = [moved EXCEPT ![Job(w)] = @ + 1]
          \/ pc = "review" /\ UNCHANGED moved
  /\ UNCHANGED <<process, accrual, pending, payout, faults>>

NextJob(w) == Goto(w, "send", Seen(w), Jobs(w), None)

\* The state sendFee leaves a payout in whose transfer returned an error.
Misspelt == "REVIEW"                                   \* mutant
ToReview == "REVIEW_REQUIRED"

Review(w) ==
  LET p == Job(w) IN
  /\ At(w, "review")
  /\ \/ /\ payout' = IF payout[p].status = "SENT"
                       THEN [payout EXCEPT ![p].status = ToReview]
                       ELSE payout
        /\ UNCHANGED faults
     \/ Fault /\ UNCHANGED payout
  /\ NextJob(w)
  /\ UNCHANGED <<process, accrual, pending, moved>>

Record(w) ==
  LET p == Job(w)
      u == payout[p].user
      due == payout[p].amount
  IN
  /\ At(w, "record")
  /\ IF payout[p].status = "SENT"
       THEN /\ pending' = [pending EXCEPT ![u] = IF @ > due THEN @ - due ELSE 0]
            /\ payout' = [payout EXCEPT ![p].status = "COMPLETED"]
       ELSE UNCHANGED <<pending, payout>>
  /\ NextJob(w)
  /\ UNCHANGED <<process, accrual, moved, faults>>

EndDispatch(w) ==
  /\ At(w, "send")
  /\ Jobs(w) = NoJobs
  /\ dispatch' = [dispatch EXCEPT ![w] = IdleDispatch]
  /\ UNCHANGED <<process, accrual, pending, payout, moved, faults>>

\* A failing statement, or the end of the 25 seconds, ends the whole dispatch.
Abandon(w) ==
  /\ At(w, "insert") \/ At(w, "send") \/ At(w, "record")
  /\ Fault
  /\ dispatch' = [dispatch EXCEPT ![w] = IdleDispatch]
  /\ UNCHANGED <<process, accrual, pending, payout, moved>>

-----------------------------------------------------------------------------
DispatchStep(w) ==
  \/ ReadFees(w) \/ InsertPayout(w) \/ ReadPrepared(w) \/ MarkSent(w)
  \/ Transfer(w) \/ Review(w) \/ Record(w) \/ EndDispatch(w) \/ Abandon(w)

FlushStep(w) == \E f \in Flushes : FlushPendingFees(w, f) \/ AccrueSessionFees(w, f)

Next == \E w \in Workers :
  \/ Boot(w) \/ Crash(w) \/ FlushStep(w) \/ DispatchStep(w)
  \/ \E u \in Users : SettleBet(w, u) \/ Settle(w, u)

Spec == Init /\ [][Next]_vars

\* Both tickers go on, every provider call ends, systemd restarts a process.
Fairness == \A w \in Workers :
  WF_vars(Boot(w)) /\ WF_vars(FlushStep(w)) /\ WF_vars(DispatchStep(w))

FairSpec == Spec /\ Fairness

-----------------------------------------------------------------------------
(* Properties *)

\* Type invariant of the model.
TypeOK ==
  /\ process \in [Workers -> {"unborn", "up", "dead"}]
  /\ earned \in [Users -> Nat]
  /\ pending \in [Users -> Nat]
  /\ buffer \in [Workers -> SessionFees]
  /\ batch \in [Workers -> [Flushes -> SessionFees]]
  /\ payout \in [Payouts -> Payout]
  /\ moved \in [Payouts -> Nat]
  /\ dispatch \in [Workers -> Dispatch]
  /\ rolls \in 0..MaxRolls /\ faults \in 0..MaxFaults

Waiting == SumFunction([w \in Workers |->
  buffer[w].fees + SumFunction([f \in Flushes |-> batch[w][f].fees])])

PaidOut(u) == SumFunction([p \in Payouts |->
  IF payout[p].user = u /\ payout[p].status = "COMPLETED" THEN payout[p].amount ELSE 0])

\* What waits, is booked or was paid out never exceeds what the settled rolls
\* earned: no flush, crash, reconciliation or dispatch counts a fee twice
\* (engine.go FlushPendingFees, service.go sendFee).
NoFeeTwice ==
  Waiting + SumFunction(pending) + SumFunction([u \in Users |-> PaidOut(u)])
    <= SumFunction(earned)

\* A payout that is still to be decided is covered by what is booked for its
\* user, so that sendFee's greatest(..., 0) never hides an amount
\* (service.go dispatchFees, management_fee_payouts_one_unresolved).
PayoutCovered ==
  \A p \in Payouts :
    payout[p].status \in Unresolved => payout[p].amount <= pending[payout[p].user]

\* The provider moves the money of a payout at most once, although a payout is
\* listed twice, processes die in the middle and answers are lost
\* (service.go sendFee).
MovedOnce == \A p \in Payouts : moved[p] <= 1

\* What a payout is for SingleTransfer.
BookOf(p) ==
  CASE payout[p].status = "ABSENT" -> "absent"
    [] payout[p].status = "PREPARED" -> "noted"
    [] payout[p].status = "SENT" -> "sent"
    [] payout[p].status = "COMPLETED" -> "recorded"
    [] payout[p].status = "REVIEW_REQUIRED" -> "abandoned"

SingleTransfers == INSTANCE SingleTransfer WITH
  Obligations <- Payouts, book <- [p \in Payouts |-> BookOf(p)],
  due <- [p \in Payouts |-> payout[p].amount], paid <- moved

\* Duplicate jobs, processes that dispatch beside each other, restarts and lost
\* answers together move a payout as one single transfer (service.go Run,
\* dispatchFees, sendFee).
ImplementsSingleTransfer == SingleTransfers!Spec

\* A booked fee is dispatched, also when the process that prepared its payout died
\* or gave up (service.go dispatchFees lists PREPARED payouts again).
FeeIsDispatched ==
  \A u \in Users :
    pending[u] > 0
      ~> pending[u] = 0 \/ \E p \in Payouts : /\ payout[p].user = u
                                              /\ payout[p].status \in {"SENT", "REVIEW_REQUIRED"}

\* What the provider moved never exceeds what the rolls earned (BUSINESS_FLOW.md
\* section 5: the shares of a profit are exactly its whole).
MovedIsEarned ==
  SumFunction([p \in Payouts |-> moved[p] * payout[p].amount]) <= SumFunction(earned)

\* A user is charged for his own rolls only (BUSINESS_FLOW.md section 3: every
\* difference between the balances is a recorded fee).
ChargedForOwnRolls == \A u \in Users : pending[u] + PaidOut(u) <= earned[u]
=============================================================================
