------------------------- MODULE CollectorAccountProofs -------------------------
(***************************************************************************)
(* Proofs about CollectorAccount, for any number of processes, slots,      *)
(* owners, users and levels: an owner's share is a SingleTransfer, and no  *)
(* process leaves one untried; the payouts of a batch add up to what it    *)
(* distributes; bonus-move writes off what it paid; and what the collector *)
(* owes in a coin it has or is to receive.                                 *)
(***************************************************************************)
EXTENDS CollectorAccount, SumLemmas

\* The profit of a bet is booked, in this coin or in part in another.
Accrues ==
  \E gross \in Gains :
    \/ \E u \in Bettors, first \in {"here", "elsewhere"} : Accrue(u, gross, first)
    \/ AccrueForeign(gross)

-----------------------------------------------------------------------------
(* Shape of the state                                                      *)

Fields == {"pc", "slot", "checked", "balance", "liability", "jobs", "job",
           "skipped", "crossed"}

AtBatch == {"take", "transfer", "done", "failed", "finish"}
Sending == {"transfer", "done", "failed"}

\* Before a batch is cut.
Early == {"balance", "liability", "insert"}

\* A process past the listing has a batch, and one that sends has a payout of it.
ServiceOK(p) ==
  /\ DOMAIN service[p] = Fields
  /\ service[p].pc \in ServicePC
  /\ service[p].pc \notin {"idle", "down"} => service[p].slot \in 1..Slots
  /\ service[p].pc \in AtBatch => batches[service[p].slot].status # "NONE"
  /\ service[p].jobs \subseteq Owners
  /\ service[p].pc \in Sending => service[p].job \in Owners

PayoutOK(o) ==
  DOMAIN o = {"status", "amount", "paid"} /\ o.status \in PayoutStatus

BatchOK(b) ==
  /\ DOMAIN b = {"status", "distributable", "payouts"}
  /\ b.status \in BatchStatus
  /\ b.status = "NONE" => DOMAIN b.payouts = {}
  /\ b.status # "NONE" => /\ DOMAIN b.payouts = Owners
                          /\ \A i \in Owners : PayoutOK(b.payouts[i])

Typed ==
  /\ DOMAIN service = Processes /\ DOMAIN batches = 1..Slots /\ slot \in 1..Slots
  /\ \A p \in Processes : ServiceOK(p)
  /\ \A s \in 1..Slots : BatchOK(batches[s])

\* A payout of the batch at work that waits is one p has yet to come to, or skipped.
Tried(p) ==
  service[p].pc \in AtBatch =>
    /\ \A i \in Owners : batches[service[p].slot].payouts[i].status = "PREPARED" =>
         i \in service[p].jobs \/ i \in service[p].skipped
    /\ service[p].pc = "finish" => service[p].jobs = {}

-----------------------------------------------------------------------------
(* Changes of the batches and of the processes                             *)

\* A process stays as it was, but for what history says of it.
Same(q) ==
  /\ DOMAIN service'[q] = DOMAIN service[q]
  /\ service'[q].pc = service[q].pc /\ service'[q].slot = service[q].slot
  /\ service'[q].jobs = service[q].jobs /\ service'[q].job = service[q].job
  /\ service'[q].skipped = service[q].skipped

OthersSame(p) == \A q \in Processes : q # p => Same(q)

\* The payout i of batch s changes and nothing else.
Touches(s, i) ==
  /\ s \in 1..Slots /\ i \in Owners /\ batches[s].status # "NONE"
  /\ \A t \in 1..Slots : batches'[t].status = batches[t].status
  /\ \A t \in 1..Slots : t # s => batches'[t] = batches[t]
  /\ \A k \in Owners : k # i => batches'[s].payouts[k] = batches[s].payouts[k]
  /\ batches'[s].payouts[i].amount = batches[s].payouts[i].amount
  /\ batches'[s].distributable = batches[s].distributable

\* Nothing but history.
Quiet == batches' = batches /\ \A q \in Processes : Same(q)

\* p goes on and sends nothing; a payout it has tried or skipped stays so.
Walks(p) ==
  /\ batches' = batches /\ OthersSame(p)
  /\ service'[p].pc \notin Sending
  /\ service'[p].pc \in Early =>
       BeginCutoff(p) \/ ReadBalance(p) \/ ReadLiability(p)
  /\ Tried(p) => Tried(p)'

\* p has made a batch where there was none.
Inserts(p) ==
  \E s \in 1..Slots :
    /\ batches[s].status = "NONE" /\ batches'[s].status = "PROCESSING"
    /\ \A i \in Owners : /\ batches'[s].payouts[i].status = "PREPARED"
                         /\ batches'[s].payouts[i].paid = 0
                         /\ batches'[s].payouts[i].amount =
                              Append(Percents(Available(p)), TheRest(Available(p)))[i]
    /\ batches'[s].distributable = Available(p)
    /\ \A t \in 1..Slots : t # s => batches'[t] = batches[t]
    /\ OthersSame(p) /\ service'[p].pc = "take" /\ service[p].slot = s
    /\ service[p].pc = "insert" /\ service'[p].jobs = Owners

SkipsNone(p) == service'[p].skipped = service[p].skipped

\* p has taken a payout: one of nothing is done with, the others are sent.
Takes(p) ==
  \E s \in 1..Slots, i \in Owners :
    /\ Touches(s, i) /\ OthersSame(p)
    /\ service[p].pc = "take" /\ service[p].slot = s /\ service'[p].slot = s
    /\ service'[p].jobs = service[p].jobs \ {i} /\ SkipsNone(p)
    /\ batches[s].payouts[i].status = "PREPARED"
    /\ batches'[s].payouts[i].paid = batches[s].payouts[i].paid
    /\ \/ /\ batches[s].payouts[i].amount = 0 /\ service'[p].pc = "take"
          /\ batches'[s].payouts[i].status = "COMPLETED"
       \/ /\ batches[s].payouts[i].amount # 0 /\ service'[p].pc = "transfer"
          /\ service'[p].job = i
          /\ batches'[s].payouts[i].status = "SENT"

\* The provider has answered p; it may have paid.
Pays(p) ==
  LET s == service[p].slot
      i == service[p].job
  IN
  /\ service[p].pc = "transfer" /\ OthersSame(p)
  /\ service'[p].slot = s /\ service'[p].job = i
  /\ service'[p].jobs = service[p].jobs /\ SkipsNone(p)
  /\ \/ batches' = batches /\ service'[p].pc = "failed"
     \/ /\ batches' = batches /\ batches[s].payouts[i].amount = 0
        /\ service'[p].pc \in {"done", "failed"}
     \/ /\ Touches(s, i) /\ service'[p].pc \in {"done", "failed"}
        /\ batches'[s].payouts[i].status = batches[s].payouts[i].status
        /\ batches'[s].payouts[i].paid = batches[s].payouts[i].paid + 1

\* p has recorded the answer.
Records(p) ==
  LET s == service[p].slot
      i == service[p].job
  IN
  /\ OthersSame(p) /\ service'[p].pc = "take" /\ service'[p].slot = s
  /\ service'[p].jobs = service[p].jobs /\ SkipsNone(p)
  /\ Touches(s, i) /\ batches'[s].payouts[i].paid = batches[s].payouts[i].paid
  /\ \/ /\ service[p].pc = "done" /\ batches[s].payouts[i].status = "SENT"
        /\ batches'[s].payouts[i].status = "COMPLETED"
     \/ /\ service[p].pc = "failed"
        /\ batches'[s].payouts[i].status = "REVIEW_REQUIRED"

\* p has come up and put what was sent under review.
Restarts(p) ==
  /\ service[p].pc = "down" /\ service'[p].pc = "idle" /\ OthersSame(p)
  /\ \A t \in 1..Slots :
       /\ batches'[t].status = batches[t].status
       /\ batches'[t].distributable = batches[t].distributable
       /\ batches[t].status # "NONE" =>
            \A i \in Owners :
              /\ batches'[t].payouts[i].paid = batches[t].payouts[i].paid
              /\ batches'[t].payouts[i].amount = batches[t].payouts[i].amount
              /\ batches'[t].payouts[i].status =
                   IF batches[t].payouts[i].status = "SENT" THEN "REVIEW_REQUIRED"
                   ELSE batches[t].payouts[i].status

Change ==
  \/ Quiet
  \/ \E p \in Processes :
       \/ Walks(p) \/ Inserts(p) \/ Takes(p) \/ Pays(p)
       \/ Records(p) \/ Restarts(p)

-----------------------------------------------------------------------------
(* Values                                                                  *)

\* A process that does nothing.
LEMMA StartedTyped ==
  /\ DOMAIN Started = Fields
  /\ Started.pc = "idle" /\ Started.jobs = {} /\ Started.job = 0
  /\ Started.slot = 0 /\ Started.skipped = {}
BY DEF Started, Fields

\* The fields of a process after one or two of them are set.
LEMMA SetTyped ==
  ASSUME NEW r, DOMAIN r = Fields, NEW v
  PROVE  /\ DOMAIN [r EXCEPT !.pc = v] = Fields /\ [r EXCEPT !.pc = v].pc = v
         /\ [r EXCEPT !.pc = v].slot = r.slot /\ [r EXCEPT !.pc = v].jobs = r.jobs
         /\ [r EXCEPT !.pc = v].job = r.job /\ [r EXCEPT !.pc = v].skipped = r.skipped
BY DEF Fields

\* The same of the field job.
LEMMA JobSet ==
  ASSUME NEW r, DOMAIN r = Fields, NEW v
  PROVE  /\ DOMAIN [r EXCEPT !.job = v] = Fields /\ [r EXCEPT !.job = v].job = v
         /\ [r EXCEPT !.job = v].slot = r.slot /\ [r EXCEPT !.job = v].jobs = r.jobs
         /\ [r EXCEPT !.job = v].pc = r.pc /\ [r EXCEPT !.job = v].skipped = r.skipped
BY DEF Fields

\* One process is set.
LEMMA PutSame ==
  ASSUME DOMAIN service = Processes, NEW p \in Processes, NEW new,
         service' = [service EXCEPT ![p] = new]
  PROVE  /\ DOMAIN service' = Processes /\ service'[p] = new
         /\ OthersSame(p)
         /\ \A q \in Processes : q # p => service'[q] = service[q]
<1>1. /\ DOMAIN service' = Processes /\ service'[p] = new
      /\ \A q \in Processes : q # p => service'[q] = service[q]
  BY Zenon
<1>2. OthersSame(p)
  BY <1>1, Zenon DEF OthersSame, Same
<1> QED BY <1>1, <1>2

\* A payout's status is set.
LEMMA MarkDoes ==
  ASSUME Typed, NEW s \in 1..Slots, batches[s].status # "NONE", NEW i \in Owners,
         NEW v \in PayoutStatus,
         batches' = [batches EXCEPT ![s].payouts[i].status = v]
  PROVE  /\ DOMAIN batches' = 1..Slots /\ Touches(s, i)
         /\ \A t \in 1..Slots : BatchOK(batches'[t])
         /\ batches'[s].payouts[i].status = v
         /\ batches'[s].payouts[i].paid = batches[s].payouts[i].paid
<1> DEFINE o == batches[s].payouts[i]
           new == [o EXCEPT !.status = v]
           all == [batches[s].payouts EXCEPT ![i] = new]
           b == [batches[s] EXCEPT !.payouts = all]
<1>1. BatchOK(batches[s]) /\ PayoutOK(o) /\ DOMAIN batches = 1..Slots
  BY DEF Typed, BatchOK
<1>2. /\ DOMAIN new = {"status", "amount", "paid"} /\ new.status = v
      /\ new.amount = o.amount /\ new.paid = o.paid
  BY <1>1 DEF PayoutOK
<1>3. PayoutOK(new)
  BY <1>2 DEF PayoutOK
<1>4. batches' = [batches EXCEPT ![s] = b]
  BY <1>1
<1> HIDE DEF new
<1>5. /\ DOMAIN all = Owners /\ all[i] = new
      /\ \A k \in Owners : k # i => all[k] = batches[s].payouts[k]
  BY <1>1 DEF BatchOK
<1> HIDE DEF all
<1>6. /\ DOMAIN b = {"status", "distributable", "payouts"}
      /\ b.status = batches[s].status /\ b.payouts = all
      /\ b.distributable = batches[s].distributable
  BY <1>1 DEF BatchOK
<1> HIDE DEF b
<1>7. BatchOK(b)
  BY <1>1, <1>3, <1>5, <1>6 DEF BatchOK
<1>8. /\ DOMAIN batches' = 1..Slots /\ batches'[s] = b
      /\ \A t \in 1..Slots : t # s => batches'[t] = batches[t]
  BY <1>1, <1>4
<1>9. \A t \in 1..Slots : BatchOK(batches'[t])
  BY <1>7, <1>8 DEF Typed
<1>10. Touches(s, i)
  BY <1>2, <1>5, <1>6, <1>8 DEF Touches, o
<1> QED BY <1>2, <1>5, <1>6, <1>8, <1>9, <1>10 DEF o

\* A payout is counted as paid once more.
LEMMA PaidDoes ==
  ASSUME Typed, NEW s \in 1..Slots, batches[s].status # "NONE", NEW i \in Owners,
         batches' = [batches EXCEPT ![s].payouts[i].paid = @ + 1]
  PROVE  /\ DOMAIN batches' = 1..Slots /\ Touches(s, i)
         /\ \A t \in 1..Slots : BatchOK(batches'[t])
         /\ batches'[s].payouts[i].status = batches[s].payouts[i].status
         /\ batches'[s].payouts[i].paid = batches[s].payouts[i].paid + 1
<1> DEFINE o == batches[s].payouts[i]
           new == [o EXCEPT !.paid = @ + 1]
           all == [batches[s].payouts EXCEPT ![i] = new]
           b == [batches[s] EXCEPT !.payouts = all]
<1>1. BatchOK(batches[s]) /\ PayoutOK(o) /\ DOMAIN batches = 1..Slots
  BY DEF Typed, BatchOK
<1>2. /\ DOMAIN new = {"status", "amount", "paid"} /\ new.paid = o.paid + 1
      /\ new.amount = o.amount /\ new.status = o.status
  BY <1>1 DEF PayoutOK
<1>3. PayoutOK(new)
  BY <1>1, <1>2 DEF PayoutOK
<1>4. batches' = [batches EXCEPT ![s] = b]
  BY <1>1
<1> HIDE DEF new
<1>5. /\ DOMAIN all = Owners /\ all[i] = new
      /\ \A k \in Owners : k # i => all[k] = batches[s].payouts[k]
  BY <1>1 DEF BatchOK
<1> HIDE DEF all
<1>6. /\ DOMAIN b = {"status", "distributable", "payouts"}
      /\ b.status = batches[s].status /\ b.payouts = all
      /\ b.distributable = batches[s].distributable
  BY <1>1 DEF BatchOK
<1> HIDE DEF b
<1>7. BatchOK(b)
  BY <1>1, <1>3, <1>5, <1>6 DEF BatchOK
<1>8. /\ DOMAIN batches' = 1..Slots /\ batches'[s] = b
      /\ \A t \in 1..Slots : t # s => batches'[t] = batches[t]
  BY <1>1, <1>4
<1>9. \A t \in 1..Slots : BatchOK(batches'[t])
  BY <1>7, <1>8 DEF Typed
<1>10. Touches(s, i)
  BY <1>2, <1>5, <1>6, <1>8 DEF Touches, o
<1> QED BY <1>2, <1>5, <1>6, <1>8, <1>9, <1>10 DEF o

\* A process that stays as it was keeps its batch.
LEMMA ServiceAgain ==
  ASSUME Typed, NEW q \in Processes, Same(q),
         \A s \in 1..Slots : batches[s].status # "NONE" => batches'[s].status # "NONE"
  PROVE  ServiceOK(q)'
<1>1. ServiceOK(q)
  BY DEF Typed
<1>2. q \in Processes /\ service[q].pc \in AtBatch =>
        service[q].slot \in 1..Slots
  BY <1>1 DEF ServiceOK, AtBatch
<1> QED BY <1>1, <1>2 DEF ServiceOK, Same

\* What history adds is all a payment of the collector does to a process.
LEMMA CrossedSame ==
  ASSUME Typed, NEW taken
  PROVE  /\ DOMAIN Crossed(taken) = Processes
         /\ \A q \in Processes :
              /\ DOMAIN Crossed(taken)[q] = Fields
              /\ Crossed(taken)[q].pc = service[q].pc
              /\ Crossed(taken)[q].slot = service[q].slot
              /\ Crossed(taken)[q].jobs = service[q].jobs
              /\ Crossed(taken)[q].job = service[q].job
              /\ Crossed(taken)[q].skipped = service[q].skipped
<1>1. DOMAIN Crossed(taken) = Processes
  BY DEF Crossed
<1>2. ASSUME NEW q \in Processes
      PROVE  /\ DOMAIN Crossed(taken)[q] = Fields
             /\ Crossed(taken)[q].pc = service[q].pc
             /\ Crossed(taken)[q].slot = service[q].slot
             /\ Crossed(taken)[q].jobs = service[q].jobs
             /\ Crossed(taken)[q].job = service[q].job
             /\ Crossed(taken)[q].skipped = service[q].skipped
  <2> DEFINE v == service[q].crossed \/ (taken > 0 /\ service[q].pc = "liability")
  <2>1. DOMAIN service[q] = Fields
    BY DEF Typed, ServiceOK
  <2>2. Crossed(taken)[q] = [service[q] EXCEPT !.crossed = v]
    BY DEF Crossed
  <2> HIDE DEF v
  <2> QED BY <2>1, <2>2 DEF Fields
<1> QED BY <1>1, <1>2

\* Steps that leave the batches and every process.
LEMMA QuietTyped ==
  ASSUME Typed, batches' = batches, slot' \in 1..Slots,
         DOMAIN service' = Processes, \A q \in Processes : Same(q)
  PROVE  Typed' /\ Quiet
<1>1. \A q \in Processes : ServiceOK(q)'
  BY ServiceAgain
<1>2. DOMAIN batches' = 1..Slots /\ \A s \in 1..Slots : BatchOK(batches[s])'
  BY DEF Typed, BatchOK, PayoutOK
<1> QED BY <1>1, <1>2, Zenon DEF Typed, Quiet

\* Steps of p that leave the batches.
LEMMA WalksTyped ==
  ASSUME Typed, NEW p \in Processes, batches' = batches, slot' = slot,
         DOMAIN service' = Processes, OthersSame(p), ServiceOK(p)'
  PROVE  Typed'
<1>1. \A q \in Processes : ServiceOK(q)'
  BY ServiceAgain DEF OthersSame
<1>2. DOMAIN batches' = 1..Slots /\ \A s \in 1..Slots : BatchOK(batches[s])'
  BY DEF Typed, BatchOK, PayoutOK
<1> QED BY <1>1, <1>2, Zenon DEF Typed

\* Steps of p that change batches.
LEMMA BatchTyped ==
  ASSUME Typed, NEW p \in Processes, slot' = slot,
         DOMAIN batches' = 1..Slots, \A t \in 1..Slots : BatchOK(batches'[t]),
         \A s \in 1..Slots : batches[s].status # "NONE" => batches'[s].status # "NONE",
         DOMAIN service' = Processes, OthersSame(p), ServiceOK(p)'
  PROVE  Typed'
<1>1. \A q \in Processes : ServiceOK(q)'
  BY ServiceAgain DEF OthersSame
<1>2. \A s \in 1..Slots : BatchOK(batches[s])'
  BY DEF BatchOK, PayoutOK
<1> QED BY <1>1, <1>2, Zenon DEF Typed

\* p is left with nothing.
LEMMA LeavesDoes ==
  ASSUME Typed, NEW p \in Processes,
         NEW new, DOMAIN new = Fields, new.jobs = {}, new.pc \in {"idle", "down"},
         service' = [service EXCEPT ![p] = new]
  PROVE  /\ DOMAIN service' = Processes /\ OthersSame(p) /\ ServiceOK(p)'
         /\ service'[p].pc = new.pc
<1>1. DOMAIN service' = Processes /\ OthersSame(p) /\ service'[p] = new
  BY PutSame DEF Typed
<1>2. ServiceOK(p)'
  BY <1>1 DEF ServiceOK, ServicePC, AtBatch, Sending
<1> QED BY <1>1, <1>2

\* p leaves the batch.
LEMMA LeavesBatch ==
  ASSUME Typed, NEW p \in Processes, Leaves(p)
  PROVE  /\ DOMAIN service' = Processes /\ OthersSame(p) /\ ServiceOK(p)'
         /\ service'[p].pc = "idle"
<1> DEFINE new == [Started EXCEPT !.checked = service[p].checked]
<1>1. DOMAIN new = Fields /\ new.jobs = {} /\ new.pc = "idle"
  BY DEF Started, Fields
<1>2. service' = [service EXCEPT ![p] = new]
  BY DEF Leaves
<1> HIDE DEF new
<1> QED BY <1>1, <1>2, LeavesDoes

-----------------------------------------------------------------------------
(* Each action                                                             *)

LEMMA BesideDoes ==
  ASSUME Typed,
         \/ Tick \/ FeesArrive
         \/ Accrues
         \/ \E u \in Users : AskClaim(u) \/ ClaimBonus(u)
         \/ StartMove \/ NextRow \/ WriteOff \/ MoverDies \/ UNCHANGED vars
  PROVE  Typed' /\ Quiet
<1>1. batches' = batches /\ service' = service
  BY DEF Tick, FeesArrive, Accrues, Accrue, AccrueForeign, accruing, AskClaim, ClaimBonus, StartMove, NextRow,
    WriteOff, MoverDies, vars, claiming, moving
<1>2. slot' \in 1..Slots
  <2>1. slot \in 1..Slots /\ Slots \in Nat
    BY CollectorAssumption DEF Typed
  <2>2. slot' = slot \/ (slot < Slots /\ slot' = slot + 1)
    BY DEF Tick, FeesArrive, Accrues, Accrue, AccrueForeign, accruing, AskClaim, ClaimBonus, StartMove, NextRow,
      WriteOff, MoverDies, vars, claiming, moving
  <2> QED BY <2>1, <2>2
<1>3. \A q \in Processes : Same(q)
  BY <1>1 DEF Same
<1>4. DOMAIN service' = Processes
  BY <1>1 DEF Typed
<1> QED BY <1>1, <1>2, <1>3, <1>4, QuietTyped

LEMMA MoveTransferDoes ==
  ASSUME Typed, MoveTransfer
  PROVE  Typed' /\ Quiet
<1>1. batches' = batches /\ slot' = slot
  BY DEF MoveTransfer, moving
<1>2. PICK taken : service' = Crossed(taken)
  BY DEF MoveTransfer
<1>3. DOMAIN service' = Processes
      /\ \A q \in Processes : Same(q)
  <2>1. \A q \in Processes : DOMAIN service[q] = Fields
    BY DEF Typed, ServiceOK
  <2> QED BY <1>2, <2>1, CrossedSame DEF Same
<1>4. slot \in 1..Slots
  BY DEF Typed
<1> QED BY <1>1, <1>3, <1>4, QuietTyped

LEMMA BeginCutoffDoes ==
  ASSUME Typed, NEW p \in Processes, BeginCutoff(p)
  PROVE  Typed' /\ Walks(p)
<1> DEFINE batch == batches[slot]
           begun == [Started EXCEPT !.checked = slot, !.slot = slot]
           open == [begun EXCEPT !.pc = "balance"]
           again == [begun EXCEPT !.pc = "take", !.jobs = Waiting(batch.payouts)]
<1>1. batches' = batches /\ slot' = slot /\ slot \in 1..Slots /\ BatchOK(batch)
  BY DEF BeginCutoff, serving, Stays, Typed
<1>2. \/ batch.status = "NONE" /\ service' = [service EXCEPT ![p] = open]
      \/ batch.status # "NONE" /\ service' = [service EXCEPT ![p] = again]
  BY DEF BeginCutoff
<1>3. DOMAIN open = Fields /\ open.pc = "balance" /\ open.slot = slot /\ open.jobs = {}
  BY DEF Started, Fields
<1>4. /\ DOMAIN again = Fields /\ again.pc = "take" /\ again.slot = slot
      /\ again.jobs = Waiting(batch.payouts)
  BY DEF Started, Fields
<1>6. Waiting(batch.payouts) \subseteq Owners
  BY DEF Waiting
<1> HIDE DEF batch, open, again
<1>7. CASE batch.status = "NONE" /\ service' = [service EXCEPT ![p] = open]
  <2>1. DOMAIN service' = Processes /\ OthersSame(p) /\ service'[p] = open
    BY <1>7, PutSame DEF Typed
  <2>2. ServiceOK(p)' /\ service'[p].pc = "balance"
    BY <1>1, <1>3, <2>1 DEF ServiceOK, ServicePC, AtBatch, Sending
  <2> QED BY <1>1, <2>1, <2>2, WalksTyped DEF Walks, Sending, Early, Tried, AtBatch
<1>8. CASE batch.status # "NONE" /\ service' = [service EXCEPT ![p] = again]
  <2>1. DOMAIN service' = Processes /\ OthersSame(p) /\ service'[p] = again
    BY <1>8, PutSame DEF Typed
  <2>2. batches'[slot].status # "NONE"
    BY <1>1, <1>8 DEF batch
  <2>3. ServiceOK(p)' /\ service'[p].pc = "take"
    BY <1>1, <1>4, <1>6, <2>1, <2>2 DEF ServiceOK, ServicePC, AtBatch, Sending
  <2>4. Tried(p)'
    BY <1>1, <1>4, <2>1 DEF Tried, Waiting, batch
  <2> QED BY <1>1, <2>1, <2>3, <2>4, WalksTyped DEF Walks, Sending, Early
<1> QED BY <1>2, <1>7, <1>8

LEMMA ReadsDo ==
  ASSUME Typed, NEW p \in Processes, ReadBalance(p) \/ ReadLiability(p)
  PROVE  Typed' /\ Walks(p)
<1>1. /\ batches' = batches /\ slot' = slot /\ DOMAIN service = Processes
      /\ ServiceOK(p)
  BY DEF ReadBalance, ReadLiability, serving, Stays, Typed
<1>2. CASE ReadBalance(p)
  <2> DEFINE new == [service[p] EXCEPT !.pc = "liability", !.balance = balance]
  <2>1. service[p].pc = "balance" /\ service' = [service EXCEPT ![p] = new]
    BY <1>1, <1>2 DEF ReadBalance, At
  <2>2. /\ DOMAIN new = Fields /\ new.pc = "liability" /\ new.slot = service[p].slot
        /\ new.jobs = service[p].jobs
    BY <1>1 DEF ServiceOK, Fields
  <2> HIDE DEF new
  <2>3. DOMAIN service' = Processes /\ OthersSame(p) /\ service'[p] = new
    BY <1>1, <2>1, PutSame
  <2>4. ServiceOK(p)' /\ service'[p].pc = "liability"
    BY <1>1, <2>1, <2>2, <2>3 DEF ServiceOK, ServicePC, AtBatch, Sending
  <2> QED BY <1>1, <2>3, <2>4, WalksTyped DEF Walks, Sending, Early, Tried, AtBatch
<1>3. CASE ReadLiability(p)
  <2> DEFINE v == SumFunction(bonus) + PayoutsIn(Reserved)
             new == [service[p] EXCEPT !.pc = "insert", !.liability = v]
  <2>1. service[p].pc = "liability" /\ service' = [service EXCEPT ![p] = new]
    BY <1>1, <1>3 DEF ReadLiability, At
  <2> HIDE DEF v
  <2>2. /\ DOMAIN new = Fields /\ new.pc = "insert" /\ new.slot = service[p].slot
        /\ new.jobs = service[p].jobs
    BY <1>1 DEF ServiceOK, Fields
  <2> HIDE DEF new
  <2>3. DOMAIN service' = Processes /\ OthersSame(p) /\ service'[p] = new
    BY <1>1, <2>1, PutSame
  <2>4. ServiceOK(p)' /\ service'[p].pc = "insert"
    BY <1>1, <2>1, <2>2, <2>3 DEF ServiceOK, ServicePC, AtBatch, Sending
  <2> QED BY <1>1, <2>3, <2>4, WalksTyped DEF Walks, Sending, Early, Tried, AtBatch
<1> QED BY <1>2, <1>3

\* p comes to the end of the batch, gives up, or dies.
LEMMA EndsDo ==
  ASSUME Typed, NEW p \in Processes, FinishBatch(p) \/ GiveUp(p) \/ Crash(p)
  PROVE  Typed' /\ Walks(p)
<1>1. batches' = batches /\ slot' = slot
  BY DEF FinishBatch, GiveUp, Crash, serving, Stays
<1>2. /\ DOMAIN service' = Processes /\ OthersSame(p) /\ ServiceOK(p)'
      /\ service'[p].pc \in {"idle", "down"}
  <2>1. CASE FinishBatch(p) \/ GiveUp(p)
    BY <2>1, LeavesBatch DEF FinishBatch, GiveUp
  <2>2. CASE Crash(p)
    <3> DEFINE new == [Started EXCEPT !.pc = "down"]
    <3>1. DOMAIN new = Fields /\ new.jobs = {} /\ new.pc = "down"
      BY DEF Started, Fields
    <3>2. service' = [service EXCEPT ![p] = new]
      BY <2>2 DEF Crash
    <3> HIDE DEF new
    <3> QED BY <3>1, <3>2, LeavesDoes
  <2> QED BY <2>1, <2>2
<1> QED BY <1>1, <1>2, WalksTyped DEF Walks, Sending, Early, Tried, AtBatch

\* p comes to the next payout.
LEMMA NextJobDoes ==
  ASSUME Typed, NEW p \in Processes, service[p].pc \in Sending, NextJob(p)
  PROVE  /\ DOMAIN service' = Processes /\ OthersSame(p)
         /\ DOMAIN service'[p] = Fields /\ service'[p].pc = "take"
         /\ service'[p].slot = service[p].slot /\ service'[p].jobs = service[p].jobs
         /\ SkipsNone(p)
<1> DEFINE new == [service[p] EXCEPT !.pc = "take", !.job = 0]
<1>1. DOMAIN service = Processes /\ ServiceOK(p)
  BY DEF Typed
<1>2. service' = [service EXCEPT ![p] = new]
  BY <1>1 DEF NextJob
<1>3. /\ DOMAIN new = Fields /\ new.pc = "take" /\ new.slot = service[p].slot
      /\ new.jobs = service[p].jobs /\ new.skipped = service[p].skipped
  BY <1>1 DEF ServiceOK, Fields
<1> HIDE DEF new
<1> QED BY <1>1, <1>2, <1>3, PutSame DEF SkipsNone

\* p drops a payout from what it has yet to come to.
LEMMA DropsDoes ==
  ASSUME Typed, NEW p \in Processes, NEW i
  PROVE  /\ DOMAIN Drops(p, i) = Fields /\ Drops(p, i).pc = service[p].pc
         /\ Drops(p, i).slot = service[p].slot
         /\ Drops(p, i).jobs = service[p].jobs \ {i}
         /\ Drops(p, i).skipped = service[p].skipped
<1>1. ServiceOK(p)
  BY DEF Typed
<1> QED BY <1>1 DEF ServiceOK, Fields, Drops

LEMMA StatementFailsDoes ==
  ASSUME Typed, NEW p \in Processes, StatementFails(p)
  PROVE  Typed' /\ Walks(p)
<1>1. /\ batches' = batches /\ slot' = slot /\ DOMAIN service = Processes
      /\ ServiceOK(p)
  BY DEF StatementFails, Typed
<1>2. CASE service[p].pc = "take"
           /\ \E i \in service[p].jobs :
                service' = [service EXCEPT ![p] =
                              [Drops(p, i) EXCEPT !.skipped = @ \cup {i}]]
  <2>1. PICK i \in service[p].jobs :
          service' = [service EXCEPT ![p] = [Drops(p, i) EXCEPT !.skipped = @ \cup {i}]]
    BY <1>2
  <2> DEFINE new == [Drops(p, i) EXCEPT !.skipped = @ \cup {i}]
  <2>2. /\ DOMAIN new = Fields /\ new.pc = "take" /\ new.slot = service[p].slot
        /\ new.jobs = service[p].jobs \ {i}
        /\ new.skipped = service[p].skipped \cup {i}
    BY <1>2, DropsDoes DEF Fields
  <2>3. service' = [service EXCEPT ![p] = new]
    BY <2>1
  <2> HIDE DEF new
  <2>4. DOMAIN service' = Processes /\ OthersSame(p) /\ service'[p] = new
    BY <1>1, <2>3, PutSame
  <2>5. ServiceOK(p)' /\ service'[p].pc = "take"
    BY <1>1, <1>2, <2>2, <2>4 DEF ServiceOK, AtBatch, Sending
  <2>6. Tried(p) => Tried(p)'
    BY <1>1, <1>2, <2>2, <2>4 DEF Tried, AtBatch
  <2> QED BY <1>1, <2>4, <2>5, <2>6, WalksTyped DEF Walks, Sending, Early
<1>3. CASE service[p].pc \in {"done", "failed"} /\ NextJob(p)
  <2>1. /\ DOMAIN service' = Processes /\ OthersSame(p)
        /\ DOMAIN service'[p] = Fields /\ service'[p].pc = "take"
        /\ service'[p].slot = service[p].slot /\ service'[p].jobs = service[p].jobs
        /\ SkipsNone(p)
    BY <1>3, NextJobDoes DEF Sending
  <2>2. ServiceOK(p)'
    BY <1>1, <1>3, <2>1 DEF ServiceOK, ServicePC, AtBatch, Sending
  <2>3. Tried(p) => Tried(p)'
    BY <1>1, <1>3, <2>1 DEF Tried, AtBatch, SkipsNone
  <2> QED BY <1>1, <2>1, <2>2, <2>3, WalksTyped DEF Walks, Sending, Early
<1> QED BY <1>2, <1>3 DEF StatementFails, At

LEMMA RecordsDo ==
  ASSUME Typed, NEW p \in Processes, RecordShare(p) \/ RecordFailure(p)
  PROVE  Typed' /\ (Walks(p) \/ Records(p))
<1> DEFINE s == service[p].slot
           i == service[p].job
<1>1. /\ service[p].pc \in {"done", "failed"} /\ NextJob(p) /\ slot' = slot
      /\ ServiceOK(p)
  BY DEF RecordShare, RecordFailure, At, serving, Typed
<1>2. s \in 1..Slots /\ i \in Owners /\ batches[s].status # "NONE"
  BY <1>1 DEF ServiceOK, AtBatch, Sending
<1>3. /\ DOMAIN service' = Processes /\ OthersSame(p)
      /\ DOMAIN service'[p] = Fields /\ service'[p].pc = "take"
      /\ service'[p].slot = s /\ service'[p].jobs = service[p].jobs
      /\ SkipsNone(p)
  BY <1>1, NextJobDoes DEF Sending
<1>4. CASE batches' = batches
  <2>1. ServiceOK(p)'
    BY <1>1, <1>2, <1>3, <1>4 DEF ServiceOK, ServicePC, AtBatch, Sending
  <2>2. Tried(p) => Tried(p)'
    BY <1>1, <1>3, <1>4 DEF Tried, AtBatch, SkipsNone
  <2> QED BY <1>1, <1>3, <1>4, <2>1, <2>2, WalksTyped DEF Walks, Sending, Early
<1>5. ASSUME NEW v \in {"COMPLETED", "REVIEW_REQUIRED"}, Mark(p, i, v),
             v = "COMPLETED" => service[p].pc = "done"
                                /\ batches[s].payouts[i].status = "SENT",
             v = "REVIEW_REQUIRED" => service[p].pc = "failed"
      PROVE  Typed' /\ Records(p)
  <2>1. v \in PayoutStatus /\ batches' = [batches EXCEPT ![s].payouts[i].status = v]
    BY <1>5 DEF PayoutStatus, Mark
  <2> HIDE DEF s, i
  <2>2. /\ DOMAIN batches' = 1..Slots /\ Touches(s, i)
        /\ \A t \in 1..Slots : BatchOK(batches'[t])
        /\ batches'[s].payouts[i].status = v
        /\ batches'[s].payouts[i].paid = batches[s].payouts[i].paid
    BY <1>2, <2>1, MarkDoes
  <2>3. \A t \in 1..Slots : batches[t].status # "NONE" => batches'[t].status # "NONE"
    BY <2>2 DEF Touches
  <2>4. ServiceOK(p)'
    BY <1>1, <1>2, <1>3, <2>3 DEF ServiceOK, ServicePC, AtBatch, Sending
  <2>5. Typed'
    BY <1>1, <1>3, <2>2, <2>3, <2>4, BatchTyped
  <2> QED BY <1>3, <1>5, <2>2, <2>5 DEF Records, s, i
<1>6. CASE RecordShare(p)
  BY <1>4, <1>5, <1>6 DEF RecordShare, At, JobPayout
<1>7. CASE RecordFailure(p)
  BY <1>5, <1>7 DEF RecordFailure, At
<1> QED BY <1>6, <1>7

\* The batch that is inserted is one of the rows it should be.
LEMMA InsertBatchDoes ==
  ASSUME Typed, NEW p \in Processes, InsertBatch(p)
  PROVE  Typed' /\ (Walks(p) \/ Inserts(p))
<1> DEFINE s == service[p].slot
           amounts == Append(Percents(Available(p)), TheRest(Available(p)))
           o == [i \in Owners |->
                  [status |-> "PREPARED", amount |-> amounts[i], paid |-> 0]]
           b == [status |-> "PROCESSING", distributable |-> Available(p), payouts |-> o]
           new == [Started EXCEPT !.pc = "take", !.slot = s,
                     !.checked = service[p].checked, !.jobs = Owners]
<1>1. slot' = slot /\ ServiceOK(p) /\ service[p].pc = "insert" /\ DOMAIN batches = 1..Slots
  BY DEF InsertBatch, At, serving, Typed
<1>2. s \in 1..Slots
  BY <1>1 DEF ServiceOK
<1>3. CASE Leaves(p) /\ batches' = batches
  <2>1. /\ DOMAIN service' = Processes /\ OthersSame(p) /\ ServiceOK(p)'
        /\ service'[p].pc = "idle"
    BY <1>3, LeavesBatch
  <2> QED BY <1>1, <1>3, <2>1, WalksTyped DEF Walks, Sending, Early, Tried, AtBatch
<1>4. CASE /\ batches[s].status = "NONE"
           /\ batches' = [batches EXCEPT ![s] = b]
           /\ service' = [service EXCEPT ![p] = new]
  <2>1. /\ DOMAIN o = Owners
        /\ \A i \in Owners : /\ PayoutOK(o[i]) /\ o[i].status = "PREPARED"
                             /\ o[i].paid = 0 /\ o[i].amount = amounts[i]
    BY DEF PayoutOK, PayoutStatus
  <2> HIDE DEF o, amounts, s
  <2>2. /\ DOMAIN b = {"status", "distributable", "payouts"}
        /\ b.status = "PROCESSING" /\ b.payouts = o /\ b.distributable = Available(p)
    OBVIOUS
  <2> HIDE DEF b
  <2>3. BatchOK(b)
    BY <2>1, <2>2 DEF BatchOK, BatchStatus
  <2>4. /\ DOMAIN new = Fields /\ new.pc = "take" /\ new.slot = s
        /\ new.jobs = Owners
    BY DEF Started, Fields
  <2> HIDE DEF new
  <2>5. /\ DOMAIN batches' = 1..Slots /\ batches'[s] = b
        /\ \A t \in 1..Slots : t # s => batches'[t] = batches[t]
    BY <1>1, <1>2, <1>4
  <2>6. \A t \in 1..Slots : BatchOK(batches'[t])
    BY <2>3, <2>5 DEF Typed
  <2>7. \A t \in 1..Slots : batches[t].status # "NONE" => batches'[t].status # "NONE"
    BY <1>4, <2>5
  <2>8. DOMAIN service' = Processes /\ OthersSame(p) /\ service'[p] = new
    BY <1>4, PutSame DEF Typed
  <2>9. ServiceOK(p)'
    BY <1>2, <2>2, <2>4, <2>5, <2>8 DEF ServiceOK, ServicePC, AtBatch, Sending
  <2>10. Typed'
    BY <1>1, <2>5, <2>6, <2>7, <2>8, <2>9, BatchTyped
  <2>11. /\ batches[s].status = "NONE" /\ batches'[s].status = "PROCESSING"
         /\ batches'[s].distributable = Available(p)
         /\ \A t \in 1..Slots : t # s => batches'[t] = batches[t]
    BY <1>4, <2>2, <2>5
  <2>12. \A i \in Owners : /\ batches'[s].payouts[i].status = "PREPARED"
                           /\ batches'[s].payouts[i].paid = 0
                           /\ batches'[s].payouts[i].amount =
                                Append(Percents(Available(p)), TheRest(Available(p)))[i]
    BY <2>1, <2>2, <2>5 DEF amounts
  <2>13. /\ OthersSame(p) /\ service'[p].pc = "take" /\ service[p].pc = "insert"
         /\ service'[p].jobs = Owners
    BY <1>1, <2>4, <2>8
  <2>14. service[p].slot = s
    BY DEF s
  <2>15. Inserts(p)
    BY <1>2, <2>11, <2>12, <2>13, <2>14 DEF Inserts
  <2> QED BY <2>10, <2>15
<1> QED BY <1>3, <1>4 DEF InsertBatch, Stays

LEMMA TakeJobDoes ==
  ASSUME Typed, NEW p \in Processes, TakeJob(p)
  PROVE  Typed' /\ (Walks(p) \/ Takes(p))
<1> DEFINE s == service[p].slot
<1>1. slot' = slot /\ ServiceOK(p) /\ service[p].pc = "take" /\ DOMAIN service = Processes
  BY DEF TakeJob, At, serving, Typed
<1>2. s \in 1..Slots /\ batches[s].status # "NONE"
  BY <1>1 DEF ServiceOK, AtBatch
<1>3. CASE service[p].jobs = {} /\ batches' = batches /\ Goes(p, "finish")
  <2> DEFINE new == [service[p] EXCEPT !.pc = "finish"]
  <2>1. /\ DOMAIN new = Fields /\ new.pc = "finish" /\ new.slot = s
        /\ new.jobs = service[p].jobs /\ new.skipped = service[p].skipped
    BY <1>1 DEF ServiceOK, Fields
  <2>2. service' = [service EXCEPT ![p] = new]
    BY <1>1, <1>3 DEF Goes
  <2> HIDE DEF new
  <2>3. DOMAIN service' = Processes /\ OthersSame(p) /\ service'[p] = new
    BY <1>1, <2>2, PutSame
  <2>4. ServiceOK(p)'
    BY <1>1, <1>2, <1>3, <2>1, <2>3 DEF ServiceOK, ServicePC, AtBatch, Sending
  <2>5. Tried(p) => Tried(p)'
    BY <1>1, <1>3, <2>1, <2>3 DEF Tried, AtBatch
  <2> QED BY <1>1, <1>3, <2>1, <2>3, <2>4, <2>5, WalksTyped DEF Walks, Sending, Early
<1>4. CASE \E i \in service[p].jobs :
             /\ batches' = batches /\ service' = [service EXCEPT ![p] = Drops(p, i)]
             /\ ~IsPrepared(batches[s].payouts[i])
  <2>1. PICK i \in service[p].jobs :
          /\ service' = [service EXCEPT ![p] = Drops(p, i)]
          /\ batches[s].payouts[i].status # "PREPARED"
    BY <1>4 DEF IsPrepared
  <2>2. DOMAIN service' = Processes /\ OthersSame(p) /\ service'[p] = Drops(p, i)
    BY <1>1, <2>1, PutSame
  <2>3. ServiceOK(p)' /\ service'[p].pc = "take"
    BY <1>1, <1>2, <1>4, <2>2, DropsDoes DEF ServiceOK, AtBatch, Sending
  <2>4. Tried(p) => Tried(p)'
    BY <1>1, <1>4, <2>1, <2>2, DropsDoes DEF Tried, AtBatch
  <2> QED BY <1>1, <1>4, <2>2, <2>3, <2>4, WalksTyped DEF Walks, Sending, Early
<1>5. ASSUME NEW i \in service[p].jobs, NEW v \in PayoutStatus, NEW new,
             IsPrepared(batches[s].payouts[i]), Mark(p, i, v),
             service' = [service EXCEPT ![p] = new],
             DOMAIN new = Fields, new.slot = s, new.jobs = service[p].jobs \ {i},
             new.skipped = service[p].skipped,
             \/ /\ v = "COMPLETED" /\ batches[s].payouts[i].amount = 0
                /\ new.pc = "take"
             \/ /\ v = "SENT" /\ batches[s].payouts[i].amount # 0
                /\ new.pc = "transfer" /\ new.job = i
      PROVE  Typed' /\ Takes(p)
  <2>1. i \in Owners /\ batches' = [batches EXCEPT ![s].payouts[i].status = v]
    BY <1>1, <1>5 DEF Mark, ServiceOK
  <2>2. batches[s].payouts[i].status = "PREPARED"
    BY <1>5 DEF IsPrepared
  <2> HIDE DEF s
  <2>3. /\ DOMAIN batches' = 1..Slots /\ Touches(s, i)
        /\ \A t \in 1..Slots : BatchOK(batches'[t])
        /\ batches'[s].payouts[i].status = v
        /\ batches'[s].payouts[i].paid = batches[s].payouts[i].paid
    BY <1>2, <2>1, MarkDoes
  <2>4. \A t \in 1..Slots : batches[t].status # "NONE" => batches'[t].status # "NONE"
    BY <2>3 DEF Touches
  <2>5. DOMAIN service' = Processes /\ OthersSame(p) /\ service'[p] = new
    BY <1>1, <1>5, PutSame
  <2>6. ServiceOK(p)'
    <3>1. service[p].jobs \subseteq Owners
      BY <1>1 DEF ServiceOK
    <3> QED BY <1>2, <1>5, <2>1, <2>4, <2>5, <3>1 DEF ServiceOK, ServicePC, AtBatch, Sending
  <2>7. Typed'
    BY <1>1, <2>3, <2>4, <2>5, <2>6, BatchTyped
  <2>8. /\ service[p].pc = "take" /\ service'[p].slot = s
        /\ service'[p].jobs = service[p].jobs \ {i} /\ SkipsNone(p)
        /\ \/ /\ batches[s].payouts[i].amount = 0 /\ service'[p].pc = "take"
              /\ batches'[s].payouts[i].status = "COMPLETED"
           \/ /\ batches[s].payouts[i].amount # 0 /\ service'[p].pc = "transfer"
              /\ service'[p].job = i
              /\ batches'[s].payouts[i].status = "SENT"
    BY <1>1, <1>5, <2>3, <2>5 DEF SkipsNone
  <2>9. service[p].slot = s
    BY DEF s
  <2>10. Takes(p)
    BY <1>2, <2>1, <2>2, <2>3, <2>5, <2>8, <2>9 DEF Takes
  <2> QED BY <2>7, <2>10
<1>6. CASE \E i \in service[p].jobs :
             /\ IsPrepared(batches[s].payouts[i]) /\ batches[s].payouts[i].amount = 0
             /\ Mark(p, i, "COMPLETED")
             /\ service' = [service EXCEPT ![p] = Drops(p, i)]
  <2>1. PICK i \in service[p].jobs :
             /\ IsPrepared(batches[s].payouts[i]) /\ batches[s].payouts[i].amount = 0
             /\ Mark(p, i, "COMPLETED")
             /\ service' = [service EXCEPT ![p] = Drops(p, i)]
    BY <1>6
  <2>2. /\ DOMAIN Drops(p, i) = Fields /\ Drops(p, i).slot = s
        /\ Drops(p, i).jobs = service[p].jobs \ {i} /\ Drops(p, i).pc = "take"
        /\ Drops(p, i).skipped = service[p].skipped
    BY <1>1, DropsDoes
  <2> HIDE DEF s
  <2> QED BY <1>5, <2>1, <2>2 DEF PayoutStatus
<1>7. CASE \E i \in service[p].jobs :
             /\ IsPrepared(batches[s].payouts[i]) /\ batches[s].payouts[i].amount # 0
             /\ Mark(p, i, "SENT")
             /\ service' = [service EXCEPT ![p] =
                              [Drops(p, i) EXCEPT !.pc = "transfer", !.job = i]]
  <2>1. PICK i \in service[p].jobs :
             /\ IsPrepared(batches[s].payouts[i]) /\ batches[s].payouts[i].amount # 0
             /\ Mark(p, i, "SENT")
             /\ service' = [service EXCEPT ![p] =
                              [Drops(p, i) EXCEPT !.pc = "transfer", !.job = i]]
    BY <1>7
  <2> DEFINE new == [Drops(p, i) EXCEPT !.pc = "transfer", !.job = i]
  <2>2. /\ DOMAIN Drops(p, i) = Fields /\ Drops(p, i).slot = s
        /\ Drops(p, i).jobs = service[p].jobs \ {i}
        /\ Drops(p, i).skipped = service[p].skipped
    BY <1>1, DropsDoes
  <2>3. /\ DOMAIN new = Fields /\ new.slot = s /\ new.jobs = service[p].jobs \ {i}
        /\ new.skipped = service[p].skipped
        /\ new.pc = "transfer" /\ new.job = i
    BY <2>2 DEF Fields
  <2>4. service' = [service EXCEPT ![p] = new]
    BY <2>1
  <2> HIDE DEF s, new
  <2> QED BY <1>5, <2>1, <2>3, <2>4 DEF PayoutStatus
<1> QED BY <1>3, <1>4, <1>6, <1>7 DEF TakeJob

LEMMA TransferShareDoes ==
  ASSUME Typed, NEW p \in Processes, TransferShare(p)
  PROVE  Typed' /\ Pays(p)
<1> DEFINE s == service[p].slot
           i == service[p].job
<1>1. slot' = slot /\ ServiceOK(p) /\ service[p].pc = "transfer"
  BY DEF TransferShare, At, serving, Typed
<1>2. s \in 1..Slots /\ i \in Owners /\ batches[s].status # "NONE"
  BY <1>1 DEF ServiceOK, AtBatch, Sending
<1>3. PICK t \in Transfers(batches[s].payouts[i].amount) :
        /\ batches' = IF t.taken = 0 THEN batches
             ELSE [batches EXCEPT ![s].payouts[i].paid = @ + 1]
        /\ service' = [Crossed(t.taken) EXCEPT ![p].pc = t.answer]
  BY DEF TransferShare, JobPayout
<1>4. /\ t.answer \in {"done", "failed"}
      /\ t.taken = 0 => (t.answer = "failed" \/ batches[s].payouts[i].amount = 0)
  <2> DEFINE amount == batches[s].payouts[i].amount
  <2>1. \/ t = [answer |-> "failed", taken |-> 0]
        \/ t \in [answer : {"done", "failed"}, taken : {amount}]
    BY <1>3 DEF Transfers
  <2> HIDE DEF amount
  <2>2. t \in [answer : {"done", "failed"}, taken : {amount}] =>
          t.answer \in {"done", "failed"} /\ t.taken = amount
    OBVIOUS
  <2> QED BY <2>1, <2>2 DEF amount
<1> DEFINE before == Crossed(t.taken)
           new == [before[p] EXCEPT !.pc = t.answer]
<1>5. /\ DOMAIN before = Processes
      /\ \A q \in Processes :
           /\ DOMAIN before[q] = Fields /\ before[q].pc = service[q].pc
           /\ before[q].slot = service[q].slot /\ before[q].jobs = service[q].jobs
           /\ before[q].job = service[q].job /\ before[q].skipped = service[q].skipped
  BY CrossedSame
<1> HIDE DEF before
<1>6. service' = [before EXCEPT ![p] = new]
  BY <1>3, <1>5 DEF before
<1>7. /\ DOMAIN new = Fields /\ new.pc = t.answer /\ new.slot = s /\ new.job = i
      /\ new.jobs = service[p].jobs /\ new.skipped = service[p].skipped
  BY <1>5, SetTyped
<1> HIDE DEF new
<1>8. /\ DOMAIN service' = Processes /\ service'[p] = new
      /\ \A q \in Processes : q # p => service'[q] = before[q]
  BY <1>5, <1>6, Zenon
<1>9. OthersSame(p)
  <2>1. \A q \in Processes : DOMAIN service[q] = Fields
    BY DEF Typed, ServiceOK
  <2> QED BY <1>5, <1>8, <2>1 DEF OthersSame, Same
<1>11. CASE t.taken = 0
  <2>1. batches' = batches
    BY <1>3, <1>11
  <2>2. Typed'
    BY <1>1, <1>2, <1>4, <1>7, <1>8, <1>9, <2>1, WalksTyped
      DEF ServiceOK, ServicePC, AtBatch, Sending
  <2>3. Pays(p)
    BY <1>1, <1>4, <1>7, <1>8, <1>9, <1>11, <2>1 DEF Pays, SkipsNone
  <2> QED BY <2>2, <2>3
<1>12. CASE t.taken # 0
  <2>1. batches' = [batches EXCEPT ![s].payouts[i].paid = @ + 1]
    BY <1>3, <1>12
  <2> HIDE DEF s, i
  <2>2. /\ DOMAIN batches' = 1..Slots /\ Touches(s, i)
        /\ \A r \in 1..Slots : BatchOK(batches'[r])
        /\ batches'[s].payouts[i].status = batches[s].payouts[i].status
        /\ batches'[s].payouts[i].paid = batches[s].payouts[i].paid + 1
    BY <1>2, <2>1, PaidDoes
  <2>3. \A r \in 1..Slots : batches[r].status # "NONE" => batches'[r].status # "NONE"
    BY <2>2 DEF Touches
  <2>4. ServiceOK(p)'
    BY <1>1, <1>2, <1>4, <1>7, <1>8, <2>3
      DEF ServiceOK, ServicePC, AtBatch, Sending
  <2>5. Typed'
    BY <1>1, <1>8, <1>9, <2>2, <2>3, <2>4, BatchTyped
  <2>6. Pays(p)
    BY <1>1, <1>4, <1>7, <1>8, <1>9, <2>2 DEF Pays, SkipsNone, s, i
  <2> QED BY <2>5, <2>6
<1> QED BY <1>11, <1>12

\* What becomes of a payout when a process starts.
AtStart(o) == IF o.status = "SENT" THEN [o EXCEPT !.status = "REVIEW_REQUIRED"] ELSE o

LEMMA StartDoes ==
  ASSUME Typed, NEW p \in Processes, Start(p)
  PROVE  Typed' /\ Restarts(p)
<1> DEFINE rows(t) == [i \in DOMAIN batches[t].payouts |-> AtStart(batches[t].payouts[i])]
           b(t) == [batches[t] EXCEPT !.payouts = rows(t)]
<1>1. /\ slot' = slot /\ service[p].pc = "down" /\ DOMAIN batches = 1..Slots
      /\ service' = [service EXCEPT ![p] = Started]
      /\ batches' = [t \in 1..Slots |-> b(t)]
  BY DEF Start, At, serving, Typed, AtStart
<1>2. ASSUME NEW o, PayoutOK(o)
      PROVE  /\ PayoutOK(AtStart(o)) /\ AtStart(o).amount = o.amount
             /\ AtStart(o).paid = o.paid
             /\ AtStart(o).status = IF o.status = "SENT" THEN "REVIEW_REQUIRED" ELSE o.status
  BY <1>2 DEF PayoutOK, AtStart, PayoutStatus
<1>3. ASSUME NEW t \in 1..Slots
      PROVE  /\ BatchOK(batches'[t]) /\ batches'[t].status = batches[t].status
             /\ batches'[t].distributable = batches[t].distributable
             /\ batches[t].status # "NONE" =>
                  \A i \in Owners :
                    batches'[t].payouts[i] = AtStart(batches[t].payouts[i])
  <2>1. BatchOK(batches[t])
    BY DEF Typed
  <2>2. batches'[t] = b(t)
    BY <1>1
  <2>3. /\ DOMAIN rows(t) = DOMAIN batches[t].payouts
        /\ \A i \in DOMAIN batches[t].payouts :
             rows(t)[i] = AtStart(batches[t].payouts[i])
    OBVIOUS
  <2> HIDE DEF rows
  <2>4. /\ DOMAIN b(t) = {"status", "distributable", "payouts"}
        /\ b(t).status = batches[t].status /\ b(t).payouts = rows(t)
    BY <2>1 DEF BatchOK
  <2>5. b(t).distributable = batches[t].distributable
    BY <2>1 DEF BatchOK
  <2> HIDE DEF b
  <2>6. BatchOK(b(t))
    BY <1>2, <2>1, <2>3, <2>4 DEF BatchOK
  <2> QED BY <2>1, <2>2, <2>3, <2>4, <2>5, <2>6 DEF BatchOK
<1>4. DOMAIN batches' = 1..Slots
  BY <1>1
<1>5. /\ DOMAIN service' = Processes /\ OthersSame(p) /\ ServiceOK(p)'
      /\ service'[p].pc = "idle"
  BY <1>1, StartedTyped, LeavesDoes
<1>6. Typed'
  BY <1>1, <1>3, <1>4, <1>5, BatchTyped
<1>7. Restarts(p)
  <2>1. \A t \in 1..Slots : batches[t].status # "NONE" =>
          \A i \in Owners : PayoutOK(batches[t].payouts[i])
    BY DEF Typed, BatchOK
  <2> HIDE DEF rows, b
  <2> QED BY <1>1, <1>2, <1>3, <1>5, <2>1 DEF Restarts
<1> QED BY <1>6, <1>7

\* Every step is of one of the shapes.
LEMMA StepChanges ==
  ASSUME Typed, [Next]_vars
  PROVE  Typed' /\ Change
<1>1. CASE \/ Tick \/ FeesArrive
           \/ Accrues
           \/ \E u \in Users : AskClaim(u) \/ ClaimBonus(u)
           \/ StartMove \/ NextRow \/ WriteOff \/ MoverDies \/ UNCHANGED vars
  BY <1>1, BesideDoes DEF Change
<1>2. CASE MoveTransfer
  BY <1>2, MoveTransferDoes DEF Change
<1>3. ASSUME NEW p \in Processes,
             \/ BeginCutoff(p) \/ ReadBalance(p) \/ ReadLiability(p)
             \/ InsertBatch(p) \/ TakeJob(p) \/ TransferShare(p)
             \/ RecordShare(p) \/ RecordFailure(p)
             \/ FinishBatch(p) \/ StatementFails(p) \/ GiveUp(p) \/ Crash(p) \/ Start(p)
      PROVE  Typed' /\ Change
  <2>1. Typed' /\ \/ Walks(p) \/ Inserts(p) \/ Takes(p) \/ Pays(p)
                  \/ Records(p) \/ Restarts(p)
    BY <1>3, BeginCutoffDoes, ReadsDo, InsertBatchDoes, TakeJobDoes,
      TransferShareDoes, RecordsDo,
      StatementFailsDoes, EndsDo, StartDoes
  <2> QED BY <2>1 DEF Change
<1> QED BY <1>1, <1>2, <1>3 DEF Next, Accrues

LEMMA InitTyped ==
  ASSUME Init
  PROVE  Typed
<1>1. /\ DOMAIN service = Processes /\ DOMAIN batches = 1..Slots /\ slot \in 1..Slots
      /\ \A p \in Processes : service[p] = Started
      /\ \A s \in 1..Slots : batches[s] = NoBatch
  BY CollectorAssumption DEF Init
<1>2. BatchOK(NoBatch)
  BY DEF BatchOK, NoBatch, BatchStatus
<1>3. \A p \in Processes : ServiceOK(p)
  BY <1>1, StartedTyped DEF ServiceOK, ServicePC, AtBatch, Sending
<1> QED BY <1>1, <1>2, <1>3 DEF Typed

-----------------------------------------------------------------------------
(* Who has a payout, and what may have become of it                        *)

\* Paid at most once: not before it is taken, and when it is done with.
PayoutFine(o) ==
  /\ o.paid \in {0, 1}
  /\ o.status = "PREPARED" => o.paid = 0
  /\ o.status = "COMPLETED" /\ o.amount # 0 => o.paid = 1

Sends(p, s, i) ==
  service[p].pc \in Sending /\ service[p].slot = s /\ service[p].job = i

\* Whoever sends a payout is the only one, and has paid it once he says so.
SenderFine(p, s, i) ==
  LET o == batches[s].payouts[i] IN
  Sends(p, s, i) =>
    /\ o.status \in {"SENT", "REVIEW_REQUIRED"}
    /\ service[p].pc = "transfer" => o.paid = 0 /\ o.amount # 0
    /\ service[p].pc = "done" => o.paid = 1
    /\ \A q \in Processes : Sends(q, s, i) => q = p

Fine ==
  \A s \in 1..Slots : batches[s].status # "NONE" =>
    \A i \in Owners : /\ PayoutFine(batches[s].payouts[i])
                      /\ \A p \in Processes : SenderFine(p, s, i)

IInv == Typed /\ Fine

LEMMA QuietKeeps ==
  ASSUME IInv, Quiet
  PROVE  Fine'
BY DEF IInv, Fine, Quiet, Same, SenderFine, Sends, PayoutFine

LEMMA WalksKeeps ==
  ASSUME IInv, Typed', NEW p \in Processes, Walks(p)
  PROVE  Fine'
<1> USE DEF Walks, OthersSame, Same
<1>1. ASSUME NEW s \in 1..Slots, batches'[s].status # "NONE"
      PROVE  \A i \in Owners : PayoutFine(batches'[s].payouts[i])
  BY <1>1 DEF IInv, Fine
<1>2. ASSUME NEW s \in 1..Slots, batches'[s].status # "NONE", NEW i \in Owners,
             NEW q \in Processes
      PROVE  SenderFine(q, s, i)'
  <2>1. SenderFine(q, s, i)
    BY <1>2 DEF IInv, Fine
  <2>2. \A r \in Processes : Sends(r, s, i)' => Sends(r, s, i)
    BY DEF Sends
  <2>3. Sends(q, s, i)' => service'[q].pc = service[q].pc
    BY DEF Sends
  <2> QED BY <2>1, <2>2, <2>3 DEF SenderFine
<1> QED BY <1>1, <1>2 DEF Fine

LEMMA InsertsKeeps ==
  ASSUME IInv, Typed', NEW p \in Processes, Inserts(p)
  PROVE  Fine'
<1> USE DEF OthersSame, Same
<1>1. PICK s \in 1..Slots :
        /\ batches[s].status = "NONE" /\ batches'[s].status = "PROCESSING"
        /\ \A i \in Owners : /\ batches'[s].payouts[i].status = "PREPARED"
                             /\ batches'[s].payouts[i].paid = 0
        /\ \A t \in 1..Slots : t # s => batches'[t] = batches[t]
        /\ OthersSame(p) /\ service'[p].pc = "take"
  BY DEF Inserts
<1>2. \A q \in Processes : q # p /\ service[q].pc \in AtBatch => service[q].slot # s
  BY <1>1 DEF IInv, Typed, ServiceOK
<1>4. ASSUME NEW t \in 1..Slots, batches'[t].status # "NONE", NEW i \in Owners
      PROVE  PayoutFine(batches'[t].payouts[i])
  BY <1>1, <1>4 DEF IInv, Fine, PayoutFine
<1>5. ASSUME NEW t \in 1..Slots, batches'[t].status # "NONE", NEW i \in Owners,
             NEW q \in Processes
      PROVE  SenderFine(q, t, i)'
  <2>1. ~Sends(p, t, i)'
    BY <1>1 DEF Sends, Sending
  <2>2. CASE t = s
    BY <1>1, <1>2, <2>1, <2>2 DEF SenderFine, Sends, Sending, AtBatch
  <2>3. CASE t # s
    <3>1. SenderFine(q, t, i)
      BY <1>1, <1>5, <2>3 DEF IInv, Fine
    <3>2. \A r \in Processes : Sends(r, t, i)' => Sends(r, t, i) /\ r # p
      BY <1>1, <2>1 DEF Sends
    <3>3. Sends(q, t, i)' => service'[q].pc = service[q].pc
      BY <1>1, <3>2 DEF Sends
    <3> QED BY <1>1, <2>3, <3>1, <3>2, <3>3 DEF SenderFine
  <2> QED BY <2>2, <2>3
<1> QED BY <1>4, <1>5 DEF Fine

\* The other payouts.
LEMMA OtherKeeps ==
  ASSUME IInv, NEW p \in Processes, OthersSame(p), NEW s, NEW i, Touches(s, i),
         \A t, k : Sends(p, t, k)' => t = s /\ k = i,
         NEW t \in 1..Slots, batches'[t].status # "NONE", NEW k \in Owners,
         t # s \/ k # i
  PROVE  /\ PayoutFine(batches'[t].payouts[k])
         /\ \A q \in Processes : SenderFine(q, t, k)'
<1>1. batches'[t].payouts[k] = batches[t].payouts[k] /\ batches[t].status # "NONE"
  BY DEF Touches
<1>2. \A q \in Processes : Sends(q, t, k)' => Sends(q, t, k) /\ q # p
  BY DEF Sends, OthersSame, Same
<1>3. \A q \in Processes : Sends(q, t, k)' => service'[q].pc = service[q].pc
  BY <1>2 DEF OthersSame, Same
<1>4. PayoutFine(batches[t].payouts[k]) /\ \A q \in Processes : SenderFine(q, t, k)
  BY <1>1 DEF IInv, Fine
<1> QED BY <1>1, <1>2, <1>3, <1>4 DEF SenderFine

LEMMA TakesKeeps ==
  ASSUME IInv, Typed', NEW p \in Processes, Takes(p)
  PROVE  Fine'
<1>1. PICK s \in 1..Slots, i \in Owners :
        /\ Touches(s, i) /\ OthersSame(p)
        /\ service[p].pc = "take" /\ service'[p].slot = s
        /\ batches[s].payouts[i].status = "PREPARED"
        /\ batches'[s].payouts[i].paid = batches[s].payouts[i].paid
        /\ \/ /\ batches[s].payouts[i].amount = 0 /\ service'[p].pc = "take"
              /\ batches'[s].payouts[i].status = "COMPLETED"
           \/ /\ batches[s].payouts[i].amount # 0 /\ service'[p].pc = "transfer"
              /\ service'[p].job = i
              /\ batches'[s].payouts[i].status = "SENT"
  BY DEF Takes
<1>2. /\ batches[s].status # "NONE" /\ batches[s].payouts[i].paid = 0
      /\ batches'[s].payouts[i].amount = batches[s].payouts[i].amount
      /\ \A q \in Processes : ~Sends(q, s, i)
  BY <1>1 DEF IInv, Fine, PayoutFine, SenderFine, Touches
<1>3. \A t, k : Sends(p, t, k)' => t = s /\ k = i
  BY <1>1 DEF Sends, Sending
<1>4. \A q \in Processes : Sends(q, s, i)' => q = p /\ service'[p].pc = "transfer"
  BY <1>1, <1>2 DEF Sends, OthersSame, Same, Sending
<1>5. PayoutFine(batches'[s].payouts[i])
  BY <1>1, <1>2 DEF PayoutFine
<1>6. \A q \in Processes : SenderFine(q, s, i)'
  BY <1>1, <1>2, <1>4 DEF SenderFine, Sends, Sending
<1>8. \A t \in 1..Slots : batches'[t].status # "NONE" => \A k \in Owners :
        t # s \/ k # i => /\ PayoutFine(batches'[t].payouts[k])
                          /\ \A q \in Processes : SenderFine(q, t, k)'
  BY <1>1, <1>3, OtherKeeps
<1> QED BY <1>5, <1>6, <1>8 DEF Fine

LEMMA PaysKeeps ==
  ASSUME IInv, Typed', NEW p \in Processes, Pays(p)
  PROVE  Fine'
<1>0. PICK s, i : s = service[p].slot /\ i = service[p].job
  OBVIOUS
<1> DEFINE o == batches[s].payouts[i]
<1>1. /\ service[p].pc = "transfer" /\ s \in 1..Slots /\ i \in Owners
      /\ batches[s].status # "NONE" /\ Sends(p, s, i)
      /\ OthersSame(p) /\ service'[p].slot = s /\ service'[p].job = i
      /\ service'[p].pc \in {"done", "failed"}
  BY <1>0 DEF Pays, IInv, Typed, ServiceOK, Sends, Sending, AtBatch
<1>2. /\ PayoutFine(o) /\ o.status \in {"SENT", "REVIEW_REQUIRED"}
      /\ o.paid = 0 /\ o.amount # 0 /\ \A q \in Processes : Sends(q, s, i) => q = p
  BY <1>1 DEF IInv, Fine, SenderFine
<1>3. \A q \in Processes : q # p => \A t, k : Sends(q, t, k)' => Sends(q, t, k)
  BY <1>1 DEF Sends, OthersSame, Same
<1>4. \A t, k : Sends(p, t, k)' => t = s /\ k = i
  BY <1>1 DEF Sends
<1>5. CASE batches' = batches /\ service'[p].pc = "failed"
  <2>1. ASSUME NEW t \in 1..Slots, batches'[t].status # "NONE"
        PROVE  \A k \in Owners : PayoutFine(batches'[t].payouts[k])
    BY <1>5, <2>1 DEF IInv, Fine
  <2>2. ASSUME NEW t \in 1..Slots, batches'[t].status # "NONE", NEW k \in Owners,
               NEW q \in Processes
        PROVE  SenderFine(q, t, k)'
    <3>1. SenderFine(q, t, k)
      BY <1>5, <2>2 DEF IInv, Fine
    <3>2. \A r \in Processes : Sends(r, t, k)' => Sends(r, t, k)
      BY <1>1, <1>3, <1>4
    <3>3. q # p => service'[q].pc = service[q].pc
      BY <1>1 DEF OthersSame, Same
    <3> QED BY <1>5, <3>1, <3>2, <3>3 DEF SenderFine
  <2> QED BY <2>1, <2>2 DEF Fine
<1>6. CASE /\ Touches(s, i) /\ batches'[s].payouts[i].status = o.status
           /\ batches'[s].payouts[i].paid = o.paid + 1
  <2>1. /\ batches'[s].payouts[i].paid = 1 /\ batches'[s].payouts[i].amount = o.amount
    <3>1. batches'[s].payouts[i].amount = o.amount
      BY <1>6 DEF Touches
    <3>2. batches'[s].payouts[i].paid = 1
      BY <1>2, <1>6
    <3> QED BY <3>1, <3>2
  <2>2. PayoutFine(batches'[s].payouts[i])
    BY <1>2, <1>6, <2>1 DEF PayoutFine
  <2>3. \A q \in Processes : SenderFine(q, s, i)'
    BY <1>1, <1>2, <1>3, <1>6, <2>1 DEF SenderFine
  <2> HIDE DEF o
  <2>5. \A t \in 1..Slots : batches'[t].status # "NONE" => \A k \in Owners :
          t # s \/ k # i => /\ PayoutFine(batches'[t].payouts[k])
                            /\ \A q \in Processes : SenderFine(q, t, k)'
    BY <1>1, <1>4, <1>6, OtherKeeps
  <2> QED BY <2>2, <2>3, <2>5 DEF Fine
<1> QED BY <1>0, <1>2, <1>5, <1>6 DEF Pays

LEMMA RecordsKeeps ==
  ASSUME IInv, Typed', NEW p \in Processes, Records(p)
  PROVE  Fine'
<1>0. PICK s, i : s = service[p].slot /\ i = service[p].job
  OBVIOUS
<1> DEFINE o == batches[s].payouts[i]
<1>1. /\ service[p].pc \in {"done", "failed"} /\ s \in 1..Slots /\ i \in Owners
      /\ batches[s].status # "NONE" /\ Sends(p, s, i)
      /\ OthersSame(p) /\ service'[p].pc = "take" /\ Touches(s, i)
      /\ batches'[s].payouts[i].paid = o.paid
      /\ batches'[s].payouts[i].amount = o.amount
  BY <1>0 DEF Records, IInv, Typed, ServiceOK, Sends, Sending, AtBatch, Touches
<1>2. /\ PayoutFine(o) /\ o.status \in {"SENT", "REVIEW_REQUIRED"}
      /\ service[p].pc = "done" => o.paid = 1
      /\ \A q \in Processes : Sends(q, s, i) => q = p
  BY <1>1 DEF IInv, Fine, SenderFine
<1>3. \A t, k : ~Sends(p, t, k)'
  BY <1>1 DEF Sends, Sending
<1>4. \A q \in Processes : ~Sends(q, s, i)'
  BY <1>1, <1>2, <1>3 DEF Sends, OthersSame, Same
<1>5. PayoutFine(batches'[s].payouts[i])
  BY <1>0, <1>1, <1>2 DEF PayoutFine, Records
<1>6. \A q \in Processes : SenderFine(q, s, i)'
  BY <1>4 DEF SenderFine
<1>8. \A t \in 1..Slots : batches'[t].status # "NONE" => \A k \in Owners :
        t # s \/ k # i => /\ PayoutFine(batches'[t].payouts[k])
                          /\ \A q \in Processes : SenderFine(q, t, k)'
  BY <1>1, <1>3, OtherKeeps
<1> QED BY <1>5, <1>6, <1>8 DEF Fine

LEMMA RestartsKeeps ==
  ASSUME IInv, Typed', NEW p \in Processes, Restarts(p)
  PROVE  Fine'
<1>1. /\ service[p].pc = "down" /\ service'[p].pc = "idle" /\ OthersSame(p)
      /\ \A t \in 1..Slots : batches'[t].status = batches[t].status
  BY DEF Restarts
<1>2. \A q \in Processes : \A t, k : Sends(q, t, k)' => Sends(q, t, k) /\ q # p
  BY <1>1 DEF Sends, Sending, OthersSame, Same
<1>3. ASSUME NEW t \in 1..Slots, batches'[t].status # "NONE", NEW k \in Owners
      PROVE  /\ PayoutFine(batches'[t].payouts[k])
             /\ \A q \in Processes : SenderFine(q, t, k)'
  <2>1. /\ batches'[t].payouts[k].paid = batches[t].payouts[k].paid
        /\ batches'[t].payouts[k].amount = batches[t].payouts[k].amount
        /\ batches'[t].payouts[k].status =
             IF batches[t].payouts[k].status = "SENT" THEN "REVIEW_REQUIRED"
             ELSE batches[t].payouts[k].status
    BY <1>1, <1>3 DEF Restarts
  <2>2. /\ PayoutFine(batches[t].payouts[k])
        /\ \A q \in Processes : SenderFine(q, t, k)
    BY <1>1, <1>3 DEF IInv, Fine
  <2>3. \A q \in Processes : q # p => service'[q].pc = service[q].pc
    BY <1>1 DEF OthersSame, Same
  <2>4. PayoutFine(batches'[t].payouts[k])
    BY <2>1, <2>2 DEF PayoutFine
  <2> QED BY <1>2, <2>1, <2>2, <2>3, <2>4 DEF SenderFine
<1> QED BY <1>3 DEF Fine

-----------------------------------------------------------------------------
(* The theorems                                                            *)

LEMMA InitIInv ==
  ASSUME Init
  PROVE  IInv
<1>1. \A s \in 1..Slots : batches[s].status = "NONE"
  BY DEF Init, NoBatch
<1> QED BY <1>1, InitTyped DEF IInv, Fine

LEMMA NextIInv ==
  ASSUME IInv, [Next]_vars
  PROVE  IInv'
<1>1. Typed' /\ Change
  BY StepChanges DEF IInv
<1>2. CASE Quiet
  BY <1>1, <1>2, QuietKeeps DEF IInv
<1>3. ASSUME NEW p \in Processes,
             \/ Walks(p) \/ Inserts(p) \/ Takes(p) \/ Pays(p)
             \/ Records(p) \/ Restarts(p)
      PROVE  Fine'
  BY <1>1, <1>3, WalksKeeps, InsertsKeeps, TakesKeeps, PaysKeeps, RecordsKeeps,
    RestartsKeeps
<1> QED BY <1>1, <1>2, <1>3 DEF Change, IInv

\* The invariant: whoever sends a payout is the only one, and a payout is paid only
\* between the write that takes it and the one that records the answer (service.go
\* processCutoffPayouts).
THEOREM PayoutsHold == Spec => []IInv
BY InitIInv, NextIInv, PTL DEF Spec

\* The payouts of a slot, by owner.
LEMMA PayoutsOf ==
  ASSUME IInv, NEW s \in 1..Slots, NEW o \in Payouts(s)
  PROVE  batches[s].status # "NONE" /\ \E i \in Owners : o = batches[s].payouts[i]
<1>1. PICK i \in DOMAIN batches[s].payouts : o = batches[s].payouts[i]
  BY DEF Payouts, Range
<1> QED BY <1>1 DEF IInv, Typed, BatchOK

\* However processes overlap, die and start again, and whatever statements fail, an
\* owner's share is paid at most once (service.go processCutoffPayouts, Run).
THEOREM ShareOnceHolds == Spec => []ShareOnce
<1>1. IInv => ShareOnce
  <2> SUFFICES ASSUME IInv, NEW s \in 1..Slots, NEW o \in Payouts(s)
               PROVE  o.paid <= 1
    BY DEF ShareOnce
  <2>1. PayoutFine(o)
    BY PayoutsOf DEF IInv, Fine
  <2> QED BY <2>1 DEF PayoutFine
<1> QED BY <1>1, PayoutsHold, PTL

\* Nobody else makes a payout of p's batch wait again.
LEMMA TriedAgain ==
  ASSUME Typed, NEW p \in Processes, Same(p), Tried(p),
         service[p].pc \in AtBatch => \A i \in Owners :
           batches'[service[p].slot].payouts[i].status = "PREPARED" =>
             batches[service[p].slot].payouts[i].status = "PREPARED"
  PROVE  Tried(p)'
BY DEF Tried, Same

\* A change of one payout that no longer waits.
LEMMA TouchedTried ==
  ASSUME Typed, NEW p \in Processes, OthersSame(p), NEW s, NEW i, Touches(s, i),
         batches'[s].payouts[i].status = "PREPARED" =>
           batches[s].payouts[i].status = "PREPARED"
  PROVE  \A t \in 1..Slots, k \in Owners :
           batches'[t].payouts[k].status = "PREPARED" =>
             batches[t].payouts[k].status = "PREPARED"
BY DEF Touches

AllTried == \A p \in Processes : Tried(p)

LEMMA NextTried ==
  ASSUME IInv, AllTried, [Next]_vars
  PROVE  AllTried'
<1>1. Typed /\ Change
  BY StepChanges DEF IInv
<1>2. \A q \in Processes : service[q].pc \in AtBatch =>
        service[q].slot \in 1..Slots /\ batches[service[q].slot].status # "NONE"
  BY <1>1 DEF Typed, ServiceOK, AtBatch
<1>3. CASE Quiet
  BY <1>1, <1>3, TriedAgain DEF Quiet, AllTried
<1>4. ASSUME NEW p \in Processes, Tried(p)', OthersSame(p),
             \A q \in Processes : q # p /\ service[q].pc \in AtBatch =>
               \A k \in Owners :
                 batches'[service[q].slot].payouts[k].status = "PREPARED" =>
                   batches[service[q].slot].payouts[k].status = "PREPARED"
      PROVE  AllTried'
  BY <1>1, <1>4, TriedAgain DEF AllTried, OthersSame
<1>5. ASSUME NEW p \in Processes, Walks(p) PROVE AllTried'
  BY <1>4, <1>5 DEF Walks, AllTried
<1>6. ASSUME NEW p \in Processes, Inserts(p) PROVE AllTried'
  <2>1. Tried(p)'
    BY <1>6 DEF Inserts, Tried
  <2> QED BY <1>2, <1>4, <1>6, <2>1 DEF Inserts
<1>7. ASSUME NEW p \in Processes, Takes(p) PROVE AllTried'
  <2>1. PICK s \in 1..Slots, i \in Owners :
          /\ Touches(s, i) /\ OthersSame(p)
          /\ service[p].pc = "take" /\ service[p].slot = s /\ service'[p].slot = s
          /\ service'[p].jobs = service[p].jobs \ {i} /\ SkipsNone(p)
          /\ service'[p].pc \in {"take", "transfer"}
          /\ batches'[s].payouts[i].status \in {"COMPLETED", "SENT"}
    BY <1>7 DEF Takes
  <2>2. Tried(p)'
    BY <2>1 DEF AllTried, Tried, AtBatch, SkipsNone, Touches
  <2> QED BY <1>1, <1>2, <1>4, <2>1, <2>2, TouchedTried
<1>8. ASSUME NEW p \in Processes, Pays(p) \/ Records(p) PROVE AllTried'
  <2> DEFINE s == service[p].slot
             i == service[p].job
  <2>1. /\ OthersSame(p) /\ service[p].pc \in Sending /\ service'[p].slot = s
        /\ service'[p].jobs = service[p].jobs /\ SkipsNone(p)
        /\ service'[p].pc \in {"take", "done", "failed"}
        /\ \/ batches' = batches
           \/ /\ Touches(s, i)
              /\ batches'[s].payouts[i].status = "PREPARED" =>
                   batches[s].payouts[i].status = "PREPARED"
    BY <1>8 DEF Pays, Records, Sending
  <2> HIDE DEF s, i
  <2>2. \A t \in 1..Slots, k \in Owners :
          batches'[t].payouts[k].status = "PREPARED" =>
            batches[t].payouts[k].status = "PREPARED"
    BY <1>1, <2>1, TouchedTried
  <2>3. service[p].slot = s
    BY DEF s
  <2>4. Tried(p)'
    BY <1>2, <2>1, <2>2, <2>3 DEF AllTried, Tried, AtBatch, Sending, SkipsNone
  <2> QED BY <1>2, <1>4, <2>1, <2>2, <2>4
<1>9. ASSUME NEW p \in Processes, Restarts(p) PROVE AllTried'
  <2>1. Tried(p)'
    BY <1>9 DEF Restarts, Tried, AtBatch
  <2> QED BY <1>2, <1>4, <1>9, <2>1 DEF Restarts
<1> QED BY <1>1, <1>3, <1>5, <1>6, <1>7, <1>8, <1>9 DEF Change

\* A process that comes to the end of a batch leaves no share untried but those it
\* skipped because its own statement failed (service.go processCutoffPayouts).
THEOREM EveryShareTriedHolds == Spec => []EveryShareTried
<1>1. Init => AllTried
  BY StartedTyped DEF Init, AllTried, Tried, AtBatch
<1>2. IInv /\ AllTried /\ [Next]_vars => AllTried'
  BY NextTried
<1>3. AllTried => EveryShareTried
  BY DEF AllTried, Tried, EveryShareTried, At, Waiting, AtBatch
<1> QED BY <1>1, <1>2, <1>3, PayoutsHold, PTL DEF Spec

-----------------------------------------------------------------------------
(* Percentages, rounded down                                               *)

\* What a division leaves.
LEMMA Division ==
  ASSUME NEW x \in Nat, NEW w \in Nat \ {0}
  PROVE  /\ x \div w \in Nat
         /\ w * (x \div w) <= x
         /\ x < w * (x \div w) + w
OBVIOUS

\* The largest quotient.
LEMMA Quotient ==
  ASSUME NEW x \in Nat, NEW w \in Nat \ {0}, NEW q \in Nat, w * q <= x
  PROVE  q <= x \div w
<1> DEFINE d == x \div w
<1>1. d \in Nat /\ x < w * d + w
  BY Division
<1> HIDE DEF d
<1>2. ASSUME d < q PROVE FALSE
  <2>1. d + 1 <= q
    BY <1>1, <1>2
  <2>2. \A a, b, c \in Nat : a <= b => c * a <= c * b
    OBVIOUS
  <2>3. w * (d + 1) <= w * q
    BY <1>1, <2>1, <2>2
  <2>4. w * (d + 1) = w * d + w
    BY <1>1
  <2> QED BY <1>1, <2>3, <2>4
<1> QED BY <1>1, <1>2 DEF d

\* Percentages of naturals.
LEMMA PercentTyped ==
  ASSUME NEW a \in Nat, NEW b \in Nat
  PROVE  PercentageOf(a, b) \in Nat
<1>1. a * b \in Nat /\ Whole \in Nat \ {0}
  BY CollectorAssumption
<1> QED BY <1>1, Division DEF PercentageOf

\* Two percentages are together no more than the percentage of both.
LEMMA PercentAdds ==
  ASSUME NEW a \in Nat, NEW b \in Nat, NEW c \in Nat
  PROVE  PercentageOf(a, b) + PercentageOf(a, c) <= PercentageOf(a, b + c)
<1>1. a * b \in Nat /\ a * c \in Nat /\ a * (b + c) = a * b + a * c /\ Whole \in Nat \ {0}
  BY CollectorAssumption
<1> DEFINE p == PercentageOf(a, b)
           q == PercentageOf(a, c)
<1>2. p \in Nat /\ Whole * p <= a * b
  BY <1>1, Division DEF PercentageOf
<1>3. q \in Nat /\ Whole * q <= a * c
  BY <1>1, Division DEF PercentageOf
<1> HIDE DEF p, q
<1>4. Whole * (p + q) = Whole * p + Whole * q /\ Whole * p \in Nat /\ Whole * q \in Nat
  BY <1>1, <1>2, <1>3
<1>5. Whole * (p + q) <= a * (b + c) /\ a * (b + c) \in Nat /\ p + q \in Nat
  BY <1>1, <1>2, <1>3, <1>4
<1>6. p + q <= (a * (b + c)) \div Whole
  BY <1>1, <1>5, Quotient
<1> QED BY <1>6 DEF PercentageOf, p, q

\* A larger percentage is no less.
LEMMA PercentOrder ==
  ASSUME NEW a \in Nat, NEW b \in Nat, NEW c \in Nat, b <= c
  PROVE  PercentageOf(a, b) <= PercentageOf(a, c)
<1>1. PercentageOf(a, b) + PercentageOf(a, c - b) <= PercentageOf(a, b + (c - b))
  BY PercentAdds
<1>2. b + (c - b) = c
  OBVIOUS
<1>3. /\ PercentageOf(a, b) \in Nat /\ PercentageOf(a, c - b) \in Nat
      /\ PercentageOf(a, c) \in Nat
  <2>1. c - b \in Nat
    OBVIOUS
  <2> QED BY <2>1, PercentTyped
<1> QED BY <1>1, <1>2, <1>3

\* The whole is all.
LEMMA PercentWhole ==
  ASSUME NEW a \in Nat
  PROVE  PercentageOf(a, Whole) = a
<1>1. a * Whole \in Nat /\ Whole \in Nat \ {0}
  BY CollectorAssumption
<1> DEFINE q == PercentageOf(a, Whole)
<1>2. q \in Nat /\ Whole * q <= a * Whole
  BY <1>1, Division DEF PercentageOf
<1>3. Whole * a <= a * Whole
  BY <1>1
<1>4. a <= q
  BY <1>1, <1>3, Quotient DEF PercentageOf
<1> HIDE DEF q
<1>5. ASSUME a < q PROVE FALSE
  <2>1. Whole * a < Whole * q
    BY <1>1, <1>2, <1>5
  <2> QED BY <1>1, <1>2, <2>1
<1> QED BY <1>2, <1>4, <1>5 DEF q

-----------------------------------------------------------------------------
(* What a step leaves alone                                                *)

ProcessStep(p) ==
  \/ BeginCutoff(p) \/ ReadBalance(p) \/ ReadLiability(p)
  \/ InsertBatch(p) \/ TakeJob(p) \/ TransferShare(p)
  \/ RecordShare(p) \/ RecordFailure(p)
  \/ FinishBatch(p) \/ StatementFails(p) \/ GiveUp(p) \/ Crash(p) \/ Start(p)

\* Steps of nobody's process.
BesideStep ==
  \/ Tick \/ FeesArrive
  \/ Accrues
  \/ \E u \in Users : AskClaim(u) \/ ClaimBonus(u)
  \/ StartMove \/ NextRow \/ WriteOff \/ MoverDies \/ UNCHANGED vars

\* Every step is one of these.
LEMMA StepIs ==
  ASSUME [Next]_vars
  PROVE  BesideStep \/ MoveTransfer \/ \E p \in Processes : ProcessStep(p)
BY DEF Next, BesideStep, ProcessStep, Accrues

\* The shape of a process's step.
LEMMA ProcessStepDoes ==
  ASSUME Typed, NEW p \in Processes, ProcessStep(p)
  PROVE  Typed' /\ \/ Walks(p) \/ Inserts(p) \/ Takes(p) \/ Pays(p)
                   \/ Records(p) \/ Restarts(p)
BY BeginCutoffDoes, ReadsDo, InsertBatchDoes, TakeJobDoes, TransferShareDoes, RecordsDo,
   StatementFailsDoes, EndsDo, StartDoes
   DEF ProcessStep

\* Only a payment touches another process.
LEMMA OthersUntouched ==
  ASSUME Typed, NEW p \in Processes, ProcessStep(p), ~TransferShare(p),
         NEW q \in Processes, q # p
  PROVE  service'[q] = service[q]
<1>1. DOMAIN service = Processes
  BY DEF Typed
<1>2. CASE BeginCutoff(p) \/ ReadBalance(p) \/ ReadLiability(p)
  BY <1>1, <1>2 DEF BeginCutoff, ReadBalance, ReadLiability
<1>3. CASE InsertBatch(p) \/ FinishBatch(p) \/ GiveUp(p) \/ Crash(p) \/ Start(p)
  BY <1>1, <1>3 DEF InsertBatch, FinishBatch, GiveUp, Crash, Start, Leaves
<1>4. CASE TakeJob(p)
  BY <1>1, <1>4 DEF TakeJob, Goes
<1>5. CASE RecordShare(p) \/ RecordFailure(p)
  BY <1>1, <1>5 DEF RecordShare, RecordFailure, NextJob
<1>6. CASE StatementFails(p)
  BY <1>1, <1>6 DEF StatementFails, NextJob
<1> QED BY <1>2, <1>3, <1>4, <1>5, <1>6 DEF ProcessStep

\* Of the money, a process's step moves what it pays and nothing else.
LEMMA MoneyUntouched ==
  ASSUME NEW p \in Processes, ProcessStep(p)
  PROVE  /\ UNCHANGED <<due, bonus, slot, mover, bets>>
         /\ TransferShare(p) \/ UNCHANGED balance
         /\ InsertBatch(p) \/ UNCHANGED account
<1>1. UNCHANGED <<due, bonus, slot, mover, bets>>
  BY DEF ProcessStep, BeginCutoff, ReadBalance, ReadLiability, InsertBatch, TakeJob,
    TransferShare, RecordShare, RecordFailure, FinishBatch,
    StatementFails, GiveUp, Crash, Start, serving, bounds
<1>2. TransferShare(p) \/ UNCHANGED balance
  BY DEF ProcessStep, BeginCutoff, ReadBalance, ReadLiability, InsertBatch, TakeJob,
    RecordShare, RecordFailure, FinishBatch,
    StatementFails, GiveUp, Crash, Start, Stays
<1>3. InsertBatch(p) \/ UNCHANGED account
  BY DEF ProcessStep, BeginCutoff, ReadBalance, ReadLiability, TakeJob, TransferShare,
    RecordShare, RecordFailure, FinishBatch,
    StatementFails, GiveUp, Crash, Start, Stays
<1> QED BY <1>1, <1>2, <1>3

-----------------------------------------------------------------------------
(* Amounts                                                                 *)

Amounts(s) == [i \in Owners |-> batches[s].payouts[i].amount]

\* A batch's payouts are what it distributes.
BatchSum(s) ==
  /\ batches[s].distributable \in Nat
  /\ \A i \in Owners : batches[s].payouts[i].amount \in Nat
  /\ SumFunction(Amounts(s)) = batches[s].distributable

Sums == \A s \in 1..Slots : batches[s].status # "NONE" => BatchSum(s)

\* What a process has read.
Read(p) ==
  /\ service[p].pc \in {"liability", "insert"} => service[p].balance \in Nat
  /\ service[p].pc = "insert" => service[p].liability \in Nat

\* The collector's books are naturals.
Purse ==
  /\ balance \in Nat /\ due \in Nat /\ bonus \in [Users -> Nat]
  /\ mover \in Mover /\ account \in Account
  /\ mover.pc \in {"transfer", "write"} => mover.user \in Users

Money ==
  /\ Purse
  /\ \A p \in Processes : Read(p)
  /\ Sums

\* The owners are finitely many.
LEMMA OwnersFinite ==
  /\ Len(Share) \in Nat /\ DOMAIN Share = 1..Len(Share) /\ Share \in [1..Len(Share) -> Nat]
  /\ IsFiniteSet(Owners) /\ IsFiniteSet(DOMAIN Share)
<1>1. Len(Share) \in Nat /\ DOMAIN Share = 1..Len(Share) /\ Share \in [1..Len(Share) -> Nat]
  BY CollectorAssumption
<1> QED BY <1>1, FS_Interval DEF Owners

\* The percentages of an amount are no more than it.
LEMMA PercentSum ==
  ASSUME NEW levels \in Seq(Nat), NEW amount \in Nat
  PROVE  /\ SumFunction([l \in DOMAIN levels |-> PercentageOf(amount, levels[l])]) \in Nat
         /\ SumFunction(levels) \in Nat
         /\ SumFunction([l \in DOMAIN levels |-> PercentageOf(amount, levels[l])])
              <= PercentageOf(amount, SumFunction(levels))
<1> DEFINE S == DOMAIN levels
           f == [l \in S |-> PercentageOf(amount, levels[l])]
           F(T) == SumFunctionOnSet(f, T)
           G(T) == SumFunctionOnSet(levels, T)
           Q == {T \in SUBSET S : F(T) <= PercentageOf(amount, G(T))}
<1>1. IsFiniteSet(S) /\ levels \in [S -> Nat]
  <2>1. Len(levels) \in Nat /\ S = 1..Len(levels)
    OBVIOUS
  <2> QED BY <2>1, FS_Interval
<1>2. f \in [S -> Nat]
  BY <1>1, PercentTyped
<1>3. \A l \in S : f[l] = PercentageOf(amount, levels[l]) /\ levels[l] \in Nat /\ f[l] \in Nat
  BY <1>1, <1>2
<1> HIDE DEF f, S
<1>4. \A T \in SUBSET S : IsFiniteSet(T) /\ F(T) \in Nat /\ G(T) \in Nat
  <2> SUFFICES ASSUME NEW T \in SUBSET S PROVE IsFiniteSet(T) /\ F(T) \in Nat /\ G(T) \in Nat
    OBVIOUS
  <2>1. IsFiniteSet(T)
    BY <1>1, FS_Subset
  <2> QED BY <1>3, <2>1, SumTyped
<1>5. {} \in Q
  <2>1. F({}) = 0 /\ G({}) = 0
    BY SumEmpty
  <2> QED BY <2>1, PercentTyped
<1>6. ASSUME NEW T \in Q, NEW x \in S \ T PROVE T \cup {x} \in Q
  <2>1. F(T \cup {x}) = f[x] + F(T) /\ G(T \cup {x}) = levels[x] + G(T)
    <3>1. T \in SUBSET S /\ x \in S \ T
      OBVIOUS
    <3>2. \A y \in S : f[y] \in Int
      BY <1>3
    <3>3. \A y \in S : levels[y] \in Int
      BY <1>3
    <3>4. SumFunctionOnSet(f, T \cup {x}) = f[x] + SumFunctionOnSet(f, T)
      BY <1>1, <3>1, <3>2, SumAdd
    <3>5. SumFunctionOnSet(levels, T \cup {x}) = levels[x] + SumFunctionOnSet(levels, T)
      BY <1>1, <3>1, <3>3, SumAdd
    <3> QED BY <3>4, <3>5
  <2>2. /\ F(T) \in Nat /\ G(T) \in Nat /\ levels[x] \in Nat
        /\ f[x] = PercentageOf(amount, levels[x])
        /\ F(T) <= PercentageOf(amount, G(T))
    BY <1>3, <1>4
  <2> HIDE DEF F, G
  <2>3. levels[x] + G(T) \in Nat
    BY <2>2
  <2>5. PercentageOf(amount, levels[x]) + PercentageOf(amount, G(T))
          <= PercentageOf(amount, levels[x] + G(T))
    BY <2>2, PercentAdds
  <2>6. /\ PercentageOf(amount, levels[x]) \in Nat /\ PercentageOf(amount, G(T)) \in Nat
        /\ PercentageOf(amount, levels[x] + G(T)) \in Nat
    BY <2>2, <2>3, PercentTyped
  <2>4. F(T \cup {x}) <= PercentageOf(amount, G(T \cup {x}))
    BY <2>1, <2>2, <2>5, <2>6
  <2> QED BY <2>4
<1>7. Q = SUBSET S
  <2>1. Q \subseteq SUBSET S
    OBVIOUS
  <2> HIDE DEF Q
  <2> QED BY <1>1, <1>5, <1>6, <2>1, SetInduction
<1>8. F(S) <= PercentageOf(amount, G(S)) /\ F(S) \in Nat /\ G(S) \in Nat
  BY <1>4, <1>7
<1>9. F(S) = SumFunction(f) /\ G(S) = SumFunction(levels)
  BY <1>1, <1>2 DEF SumFunction, S
<1> QED BY <1>8, <1>9 DEF f, S

\* What a cut shares out is all there is.
LEMMA CutSum ==
  ASSUME NEW a \in Nat, NEW f, DOMAIN f = Owners,
         \A i \in Owners : f[i] = Append(Percents(a), TheRest(a))[i]
  PROVE  /\ \A i \in Owners : f[i] \in Nat
         /\ SumFunction(f) = a
<1> DEFINE n == Len(Share)
           S == DOMAIN Share
           g == Percents(a)
<1>1. /\ n \in Nat /\ S = 1..n /\ Share \in [S -> Nat] /\ IsFiniteSet(Owners)
      /\ IsFiniteSet(S) /\ Owners = 1..(n + 1)
  BY OwnersFinite DEF Owners
<1>2. g = [l \in S |-> PercentageOf(a, Share[l])]
  BY DEF Percents
<1>3. SumFunction(g) \in Nat /\ SumFunction(g) <= a
  <2>1. /\ SumFunction(g) \in Nat /\ SumFunction(Share) \in Nat
        /\ SumFunction(g) <= PercentageOf(a, SumFunction(Share))
    BY <1>2, PercentSum, CollectorAssumption
  <2>2. /\ SumFunction(Share) <= Whole /\ Whole \in Nat
    BY CollectorAssumption
  <2>3. PercentageOf(a, SumFunction(Share)) <= PercentageOf(a, Whole)
    BY <2>1, <2>2, PercentOrder
  <2>4. PercentageOf(a, SumFunction(Share)) \in Nat
    BY <2>1, PercentTyped
  <2> QED BY <2>1, <2>3, <2>4, PercentWhole
<1>4. TheRest(a) = a - SumFunction(g) /\ TheRest(a) \in Nat
  BY <1>3 DEF TheRest
<1>5. g \in Seq(Nat) /\ Len(g) = n /\ DOMAIN g = 1..n
  <2>1. g \in [1..n -> Nat]
    BY <1>1, <1>2, PercentTyped
  <2> QED BY <1>1, <2>1
<1> HIDE DEF g, n, S
<1>6. f[n + 1] = TheRest(a) /\ \A i \in 1..n : f[i] = g[i] /\ f[i] \in Nat
  BY <1>1, <1>4, <1>5 DEF g
<1>7. \A i \in Owners : f[i] \in Nat
  BY <1>1, <1>4, <1>6
<1>8. SumFunctionOnSet(f, Owners) = f[n + 1] + SumFunctionOnSet(f, Owners \ {n + 1})
  <2>1. n + 1 \in Owners
    BY <1>1
  <2>2. IsFiniteSet(Owners) /\ \A i \in Owners : f[i] \in Int
    BY <1>1, <1>7
  <2>3. PICK h : h = f
    OBVIOUS
  <2>4. PICK k : k = n + 1
    OBVIOUS
  <2>5. SumFunctionOnSet(h, Owners) = h[k] + SumFunctionOnSet(h, Owners \ {k})
    BY <2>1, <2>2, <2>3, <2>4, SumRemove
  <2> QED BY <2>3, <2>4, <2>5
<1>9. Owners \ {n + 1} = 1..n
  BY <1>1
<1>10. SumFunctionOnSet(f, 1..n) = SumFunctionOnSet(g, 1..n)
  BY <1>1, <1>6, SumSame
<1>11. SumFunction(f) = SumFunctionOnSet(f, Owners) /\ SumFunction(g) = SumFunctionOnSet(g, 1..n)
  BY <1>5 DEF SumFunction
<1>12. SumFunction(f) = a - SumFunction(g) + SumFunction(g)
  BY <1>4, <1>6, <1>8, <1>9, <1>10, <1>11
<1> QED BY <1>3, <1>7, <1>12

\* A batch keeps what it distributes and its amounts.
SameAmounts(s) ==
  /\ batches'[s].distributable = batches[s].distributable
  /\ \A i \in Owners : batches'[s].payouts[i].amount = batches[s].payouts[i].amount

\* No step but the insertion changes an amount.
LEMMA AmountsStay ==
  ASSUME Typed, NEW p \in Processes,
         Quiet \/ Walks(p) \/ Takes(p) \/ Pays(p) \/ Records(p) \/ Restarts(p),
         NEW s \in 1..Slots, batches'[s].status # "NONE"
  PROVE  batches[s].status # "NONE" /\ SameAmounts(s)
<1>1. CASE batches' = batches
  BY <1>1 DEF SameAmounts
<1>2. ASSUME NEW t, NEW i, Touches(t, i) PROVE batches[s].status # "NONE" /\ SameAmounts(s)
  BY <1>2 DEF Touches, SameAmounts
<1>4. CASE Restarts(p)
  BY <1>4 DEF Restarts, SameAmounts
<1>5. CASE Takes(p)
  BY <1>2, <1>5 DEF Takes
<1>6. CASE Pays(p)
  BY <1>1, <1>2, <1>6 DEF Pays
<1>7. CASE Records(p)
  BY <1>2, <1>7 DEF Records
<1> QED BY <1>1, <1>4, <1>5, <1>6, <1>7 DEF Quiet, Walks

\* Batches that keep their amounts keep their sums.
LEMMA SumStays ==
  ASSUME NEW s, BatchSum(s), SameAmounts(s)
  PROVE  BatchSum(s)'
<1>1. Amounts(s)' = Amounts(s)
  BY DEF Amounts, SameAmounts
<1> QED BY <1>1 DEF BatchSum, SameAmounts

\* What a cut has available is a natural.
LEMMA AvailableTyped ==
  ASSUME NEW p \in Processes, Money, service[p].pc = "insert"
  PROVE  Available(p) \in Nat
BY DEF Money, Sums, Purse, Read, Available

\* The sums hold after every step of a process.
LEMMA SumsStep ==
  ASSUME Typed, Money, NEW p \in Processes, ProcessStep(p)
  PROVE  \A s \in 1..Slots : batches'[s].status # "NONE" => BatchSum(s)'
<1> SUFFICES ASSUME NEW s \in 1..Slots, batches'[s].status # "NONE" PROVE BatchSum(s)'
  OBVIOUS
<1>1. ASSUME batches[s].status # "NONE", SameAmounts(s) PROVE BatchSum(s)'
  BY <1>1, SumStays DEF Money, Sums, Purse
<1>2. CASE Inserts(p)
  <2> DEFINE a == Available(p)
  <2>1. PICK t \in 1..Slots :
          /\ \A i \in Owners : batches'[t].payouts[i].amount = Append(Percents(a), TheRest(a))[i]
          /\ batches'[t].distributable = a
          /\ \A r \in 1..Slots : r # t => batches'[r] = batches[r]
          /\ service'[p].pc = "take"
    BY <1>2 DEF Inserts
  <2>2. CASE s # t
    BY <1>1, <2>1, <2>2 DEF SameAmounts
  <2>3. CASE s = t
    <3>1. a \in Nat
      BY <1>2, AvailableTyped DEF Inserts
    <3>2. /\ DOMAIN Amounts(s)' = Owners
          /\ \A i \in Owners : Amounts(s)'[i] = Append(Percents(a), TheRest(a))[i]
          /\ \A i \in Owners : Amounts(s)'[i] = batches'[s].payouts[i].amount
      BY <2>1, <2>3 DEF Amounts
    <3> HIDE DEF a
    <3>3. (\A i \in Owners : Amounts(s)'[i] \in Nat) /\ SumFunction(Amounts(s)') = a
      BY <3>1, <3>2, CutSum
    <3> QED BY <2>1, <2>3, <3>1, <3>2, <3>3 DEF BatchSum
  <2> QED BY <2>2, <2>3
<1> QED BY <1>1, <1>2, ProcessStepDoes, AmountsStay

-----------------------------------------------------------------------------
(* Payments and readings                                                   *)

\* What the provider takes is the amount or nothing, and the balance has it.
LEMMA TakenIs ==
  ASSUME NEW amount \in Nat, NEW t \in Transfers(amount), balance \in Nat
  PROVE  /\ t.taken \in Nat /\ t.taken <= balance /\ t.taken \in {0, amount}
         /\ t.answer \in {"done", "failed"}
         /\ t.answer = "done" => t.taken = amount
<1>1. \/ t = [answer |-> "failed", taken |-> 0]
      \/ t \in [answer : {"done", "failed"}, taken : {amount}] /\ amount <= balance
  BY DEF Transfers
<1>2. t \in [answer : {"done", "failed"}, taken : {amount}] =>
        t.answer \in {"done", "failed"} /\ t.taken = amount
  OBVIOUS
<1> QED BY <1>1, <1>2

\* A payment leaves what was read, and history says whom it crosses.
LEMMA CrossedReads ==
  ASSUME Typed, NEW taken, NEW q \in Processes
  PROVE  /\ Crossed(taken)[q].balance = service[q].balance
         /\ Crossed(taken)[q].liability = service[q].liability
         /\ Crossed(taken)[q].pc = service[q].pc /\ Crossed(taken)[q].slot = service[q].slot
         /\ Crossed(taken)[q].crossed
              <=> service[q].crossed \/ (taken > 0 /\ service[q].pc = "liability")
<1> DEFINE v == service[q].crossed \/ (taken > 0 /\ service[q].pc = "liability")
<1>1. DOMAIN service[q] = Fields
  BY DEF Typed, ServiceOK
<1>2. Crossed(taken)[q] = [service[q] EXCEPT !.crossed = v]
  BY DEF Crossed
<1> HIDE DEF v
<1>3. /\ Crossed(taken)[q].balance = service[q].balance
      /\ Crossed(taken)[q].liability = service[q].liability
      /\ Crossed(taken)[q].pc = service[q].pc /\ Crossed(taken)[q].slot = service[q].slot
      /\ Crossed(taken)[q].crossed = v
  BY <1>1, <1>2 DEF Fields
<1> QED BY <1>3 DEF v

\* What a process has read stays: no payment has come since, unless history says so.
Stayed(q) ==
  /\ service'[q].pc = service[q].pc /\ service'[q].slot = service[q].slot
  /\ service'[q].balance = service[q].balance
  /\ service'[q].liability = service[q].liability
  /\ ~service'[q].crossed =>
       ~service[q].crossed /\ (service[q].pc = "liability" => balance <= balance')

\* A payment.
LEMMA PaymentStayed ==
  ASSUME Typed, balance \in Nat, NEW taken \in Nat, taken <= balance,
         balance' = balance - taken,
         NEW q \in Processes, service'[q] = Crossed(taken)[q]
  PROVE  Stayed(q)
<1>1. taken > 0 \/ balance <= balance'
  OBVIOUS
<1> QED BY <1>1, CrossedReads DEF Stayed

\* Whoever is about to cut a batch has come there by reading, or stayed.
LEMMA EarlyStays ==
  ASSUME Typed, Money, [Next]_vars, NEW q \in Processes, service'[q].pc \in Early
  PROVE  BeginCutoff(q) \/ ReadBalance(q) \/ ReadLiability(q) \/ Stayed(q)
<1>0. balance \in Nat /\ due \in Nat
  BY DEF Money, Sums, Purse
<1>1. CASE BesideStep
  <2>1. service' = service /\ (balance' = balance \/ balance' = balance + due)
    BY <1>1 DEF BesideStep, Tick, FeesArrive, Accrues, Accrue, AccrueForeign, accruing, AskClaim, ClaimBonus, StartMove,
      NextRow, WriteOff, MoverDies, vars, claiming, moving
  <2>2. balance <= balance'
    BY <1>0, <2>1
  <2> QED BY <2>1, <2>2 DEF Stayed
<1>2. CASE MoveTransfer
  <2>1. mover.rows[mover.user] \in Nat
    BY <1>2 DEF Money, Sums, Purse, Mover, MoveTransfer
  <2>2. PICK t \in Transfers(mover.rows[mover.user]) :
          balance' = balance - t.taken /\ service' = Crossed(t.taken)
    BY <1>2 DEF MoveTransfer
  <2>3. t.taken \in Nat /\ t.taken <= balance
    BY <1>0, <2>1, TakenIs
  <2>4. service'[q] = Crossed(t.taken)[q] /\ balance' = balance - t.taken
    BY <2>2
  <2>5. Stayed(q)
    BY <1>0, <2>3, <2>4, PaymentStayed
  <2> QED BY <2>5
<1>3. ASSUME NEW p \in Processes, ProcessStep(p)
      PROVE  BeginCutoff(q) \/ ReadBalance(q) \/ ReadLiability(q) \/ Stayed(q)
  <2>1. CASE q = p
    <3>1. service'[p].pc \in Early
      BY <2>1
    <3>2. service'[p].pc \notin {"take", "transfer", "done", "failed", "idle"}
      BY <3>1 DEF Early
    <3> QED BY <1>3, <2>1, <3>1, <3>2, ProcessStepDoes
        DEF Walks, Inserts, Takes, Pays, Records, Restarts
  <2>2. CASE q # p /\ ~TransferShare(p)
    <3>1. service'[q] = service[q]
      BY <1>3, <2>2, OthersUntouched
    <3>2. balance' = balance
      BY <1>3, <2>2, MoneyUntouched
    <3>3. balance <= balance'
      BY <1>0, <3>2
    <3> QED BY <3>1, <3>3 DEF Stayed
  <2>3. CASE q # p /\ TransferShare(p)
    <3>1. /\ batches[service[p].slot].status # "NONE" /\ service[p].slot \in 1..Slots
          /\ service[p].job \in Owners
      BY <2>3 DEF TransferShare, At, Typed, ServiceOK, AtBatch, Sending
    <3>2. JobPayout(p).amount \in Nat
      BY <3>1 DEF Money, Sums, Purse, BatchSum, JobPayout
    <3>3. PICK t \in Transfers(JobPayout(p).amount) :
            /\ balance' = balance - t.taken
            /\ service' = [Crossed(t.taken) EXCEPT ![p].pc = t.answer]
      BY <2>3 DEF TransferShare
    <3>4. t.taken \in Nat /\ t.taken <= balance
      BY <1>0, <3>2, TakenIs
    <3>5. service'[q] = Crossed(t.taken)[q]
      BY <2>3, <3>3, CrossedSame
    <3>6. Stayed(q)
      BY <1>0, <3>3, <3>4, <3>5, PaymentStayed
    <3> QED BY <3>6
  <2> QED BY <2>1, <2>2, <2>3
<1> QED BY <1>1, <1>2, <1>3, StepIs

-----------------------------------------------------------------------------
(* Bonuses                                                                 *)

\* The levels are finitely many.
LEMMA LevelsFinite ==
  IsFiniteSet(DOMAIN Referral) /\ \A l \in DOMAIN Referral : Referral[l] \in Nat
<1>1. /\ Len(Referral) \in Nat /\ DOMAIN Referral = 1..Len(Referral)
      /\ Referral \in [1..Len(Referral) -> Nat]
  BY CollectorAssumption
<1> QED BY <1>1, FS_Interval

\* A bonus is a natural.
LEMMA BonusTyped ==
  ASSUME NEW u, NEW v, NEW gross \in Nat
  PROVE  BonusOf(u, v, gross) \in Nat
<1>1. IsFiniteSet(DOMAIN Referral) /\ \A l \in DOMAIN Referral : Referral[l] \in Nat
  BY LevelsFinite
<1>2. [l \in DOMAIN Referral |-> IF Upline(u, Cardinality(Paying(l))) = v
         THEN PercentageOf(gross, Referral[l]) ELSE 0] \in [DOMAIN Referral -> Nat]
  BY <1>1, PercentTyped
<1> QED BY <1>1, <1>2, TotalTyped DEF BonusOf

\* A level pays one referrer: the bonuses of a bet are no more than its holding fee.
LEMMA BonusesCovered ==
  ASSUME NEW u, NEW gross \in Nat
  PROVE  SumFunction([v \in Users |-> BonusOf(u, v, gross)]) <= PercentageOf(gross, Holding)
<1> DEFINE L == DOMAIN Referral
           to(l) == Upline(u, Cardinality(Paying(l)))
           pay == [l \in L |-> PercentageOf(gross, Referral[l])]
           e == [v \in Users |-> BonusOf(u, v, gross)]
           part(T) == [l \in L |-> IF to(l) \in T THEN pay[l] ELSE 0]
           Q == {T \in SUBSET Users : SumFunctionOnSet(e, T) = SumFunction(part(T))}
<1>1. IsFiniteSet(L) /\ \A l \in L : Referral[l] \in Nat
  BY LevelsFinite
<1>2. pay \in [L -> Nat] /\ \A l \in L : pay[l] = PercentageOf(gross, Referral[l])
  BY <1>1, PercentTyped
<1>3. e \in [Users -> Nat]
  BY BonusTyped
<1>4. \A v \in Users : e[v] = SumFunction(part({v}))
  <2> SUFFICES ASSUME NEW v \in Users PROVE e[v] = SumFunction(part({v}))
    OBVIOUS
  <2>1. e[v] = SumFunction([l \in L |->
           IF to(l) = v THEN PercentageOf(gross, Referral[l]) ELSE 0])
    BY DEF BonusOf
  <2> HIDE DEF to
  <2>2. part({v}) = [l \in L |-> IF to(l) = v THEN PercentageOf(gross, Referral[l]) ELSE 0]
    OBVIOUS
  <2> QED BY <2>1, <2>2
<1> HIDE DEF to, pay, e, L
<1>5. \A T : part(T) \in [L -> Int] /\ SumFunction(part(T)) \in Int
  <2> SUFFICES ASSUME NEW T PROVE part(T) \in [L -> Int] /\ SumFunction(part(T)) \in Int
    OBVIOUS
  <2>1. part(T) \in [L -> Int]
    BY <1>2
  <2> QED BY <1>1, <2>1, TotalTyped
<1>6. {} \in Q
  <2>1. part({}) \in [L -> Int] /\ \A l \in L : part({})[l] = 0
    BY <1>5
  <2> HIDE DEF part
  <2>2. SumFunction(part({})) = 0
    BY <1>1, <2>1, TotalZero
  <2> QED BY <2>2, SumEmpty
<1>7. ASSUME NEW T \in Q, NEW x \in Users \ T PROVE T \cup {x} \in Q
  <2>1. SumFunctionOnSet(e, T \cup {x}) = e[x] + SumFunctionOnSet(e, T)
    <3>1. T \in SUBSET Users /\ \A v \in Users : e[v] \in Int
      BY <1>3
    <3> QED BY <3>1, SumAdd, UsersFinite
  <2>2. \A l \in L : part(T \cup {x})[l] = part(T)[l] + part({x})[l]
    BY <1>2
  <2>3. SumFunction(part(T \cup {x})) = SumFunction(part(T)) + SumFunction(part({x}))
    <3> DEFINE f == part(T)
               g == part({x})
               h == part(T \cup {x})
    <3>1. f \in [L -> Int] /\ g \in [L -> Int] /\ h \in [L -> Int]
      BY <1>5
    <3>2. \A l \in L : h[l] = f[l] + g[l]
      BY <2>2
    <3> HIDE DEF f, g, h
    <3>3. SumFunction(h) = SumFunction(f) + SumFunction(g)
      BY <1>1, <3>1, <3>2, TotalPlus
    <3> QED BY <3>3 DEF f, g, h
  <2>4. SumFunctionOnSet(e, T) = SumFunction(part(T)) /\ e[x] = SumFunction(part({x}))
    BY <1>4
  <2>5. SumFunctionOnSet(e, T \cup {x}) = SumFunction(part(T \cup {x}))
    <3> HIDE DEF part
    <3> QED BY <1>5, <2>1, <2>3, <2>4
  <2> QED BY <2>5
<1>8. Q = SUBSET Users
  <2>1. Q \in SUBSET SUBSET Users
    OBVIOUS
  <2> HIDE DEF Q
  <2> QED BY <1>6, <1>7, <2>1, SetInduction, UsersFinite
<1>9. SumFunction(e) = SumFunction(part(Users))
  <2>1. SumFunctionOnSet(e, Users) = SumFunction(part(Users))
    BY <1>8
  <2>2. DOMAIN e = Users
    BY <1>3
  <2> QED BY <2>1, <2>2 DEF SumFunction
<1>10. SumFunction(part(Users)) <= SumFunction(pay)
  <2>1. pay \in [L -> Int] /\ \A l \in L : part(Users)[l] <= pay[l]
    BY <1>2
  <2> HIDE DEF part
  <2> QED BY <1>1, <1>5, <2>1, TotalOrder
<1>11. /\ SumFunction(pay) \in Nat /\ SumFunction(Referral) \in Nat
       /\ SumFunction(pay) <= PercentageOf(gross, SumFunction(Referral))
  BY PercentSum, CollectorAssumption DEF pay, L
<1>12. /\ PercentageOf(gross, SumFunction(Referral)) <= PercentageOf(gross, Holding)
       /\ PercentageOf(gross, SumFunction(Referral)) \in Nat
       /\ PercentageOf(gross, Holding) \in Nat
  <2>1. Holding \in Nat /\ SumFunction(Referral) <= Holding
    BY CollectorAssumption
  <2> QED BY <1>11, <2>1, PercentOrder, PercentTyped
<1>13. SumFunction(e) \in Int
  BY <1>3, TotalTyped, UsersFinite
<1>14. SumFunction(e) <= PercentageOf(gross, Holding)
  BY <1>9, <1>10, <1>11, <1>12, <1>13
<1> QED BY <1>14 DEF e

-----------------------------------------------------------------------------
(* What each step does to the collector's books                            *)

\* A total of bonuses is a natural.
LEMMA BonusTotal ==
  ASSUME Purse
  PROVE  SumFunction(bonus) \in Nat
BY TotalTyped, UsersFinite DEF Purse

\* History in the record account.
LEMMA AccountSet ==
  ASSUME account \in Account, NEW m \in Nat, NEW w \in Nat, NEW r \in Nat, NEW d \in Nat
  PROVE  /\ [account EXCEPT !.raced = r] \in Account
         /\ [account EXCEPT !.moved = m, !.doubted = d] \in Account
         /\ [account EXCEPT !.written = w] \in Account
         /\ [account EXCEPT !.doubted = d] \in Account
         /\ account.moved \in Nat /\ account.written \in Nat /\ account.raced \in Nat
         /\ account.doubted \in Nat /\ account.crossed \in BOOLEAN
         /\ account.astray \in Nat
BY DEF Account

\* What bonuses a bet earns of users a move has the row of.
RacedOf(earned) == [v \in Users |-> IF InMove(v) THEN earned[v] ELSE 0]

\* Bonuses are earned: they are a part of the holding fee, booked here or astray.
EarnedDoes(earned) ==
  /\ earned \in [Users -> Nat] /\ bonus' \in [Users -> Nat]
  /\ \A v \in Users : bonus'[v] = bonus[v] + earned[v]
  /\ due' \in Nat /\ account'.astray \in Nat
  /\ due + account.astray + SumFunction(earned) <= due' + account'.astray
  /\ balance' = balance /\ mover' = mover
  /\ RacedOf(earned) \in [Users -> Nat] /\ account' \in Account
  /\ account'.raced = account.raced + SumFunction(RacedOf(earned))
  /\ account'.moved = account.moved /\ account'.written = account.written
  /\ account'.doubted = account.doubted /\ account'.crossed = account.crossed

LEMMA AccrueDoes ==
  ASSUME Purse, NEW u \in Bettors, NEW gross \in Gains, NEW first,
         Accrue(u, gross, first)
  PROVE  \E earned : EarnedDoes(earned)
<1> DEFINE earned == [v \in Users |-> BonusOf(u, v, gross)]
           h == PercentageOf(gross, Holding)
<1>1. gross \in Nat /\ Holding \in Nat
  BY CollectorAssumption
<1>2. earned \in [Users -> Nat] /\ SumFunction(earned) <= h /\ h \in Nat
  BY <1>1, BonusTyped, BonusesCovered, PercentTyped
<1> DEFINE here == IF first = "here" THEN h ELSE 0
           away == IF first = "here" THEN 0 ELSE h
<1>3. /\ bonus' = [v \in Users |-> bonus[v] + earned[v]] /\ due' = due + here
      /\ account' = [account EXCEPT !.astray = account.astray + away,
           !.raced = account.raced + SumFunction(RacedOf(earned))]
      /\ balance' = balance /\ mover' = mover
  BY DEF Accrue, RacedOf, accruing
<1>12. here \in Nat /\ away \in Nat /\ here + away = h
  BY <1>2
<1> HIDE DEF earned, h, here, away
<1>4. SumFunction(earned) \in Nat
  BY <1>2, TotalTyped, UsersFinite
<1>5. RacedOf(earned) \in [Users -> Nat]
  BY <1>2 DEF RacedOf
<1>6. SumFunction(RacedOf(earned)) \in Nat
  BY <1>5, TotalTyped, UsersFinite
<1>8. \A v \in Users : bonus'[v] = bonus[v] + earned[v] /\ bonus'[v] \in Nat
  BY <1>2, <1>3 DEF Purse
<1>9. bonus' \in [Users -> Nat]
  BY <1>3, <1>8
<1> DEFINE r == account.raced + SumFunction(RacedOf(earned))
           a == account.astray + away
<1>10. r \in Nat /\ a \in Nat /\ account' = [account EXCEPT !.astray = a, !.raced = r]
  BY <1>3, <1>6, <1>12 DEF Purse, Account
<1> HIDE DEF r, a
<1>11. /\ account' \in Account /\ account'.raced = r /\ account'.astray = a
       /\ account'.moved = account.moved /\ account'.written = account.written
       /\ account'.doubted = account.doubted /\ account'.crossed = account.crossed
  BY <1>10 DEF Purse, Account
<1>7. /\ due' \in Nat /\ account'.astray \in Nat
      /\ due + account.astray + SumFunction(earned) <= due' + account'.astray
  BY <1>2, <1>3, <1>4, <1>11, <1>12 DEF Purse, Account, a
<1> QED BY <1>2, <1>3, <1>5, <1>7, <1>8, <1>9, <1>11 DEF EarnedDoes, r

\* A fee from another coin comes with no bonus.
LEMMA AccrueForeignDoes ==
  ASSUME Purse, NEW gross \in Gains, AccrueForeign(gross)
  PROVE  \E earned : EarnedDoes(earned)
<1> DEFINE none == [v \in Users |-> 0]
           h == PercentageOf(gross, Holding)
<1>1. h \in Nat
  BY CollectorAssumption, PercentTyped
<1>2. /\ due' = due + h
      /\ UNCHANGED <<balance, mover, bonus, account>>
  BY DEF AccrueForeign, accruing
<1>3. RacedOf(none) = none
  BY DEF RacedOf
<1> HIDE DEF h
<1>4. none \in [Users -> Nat] /\ none \in [Users -> Int] /\ \A v \in Users : none[v] = 0
  OBVIOUS
<1> HIDE DEF none
<1>5. SumFunction(none) = 0
  BY <1>4, TotalZero, UsersFinite
<1>6. /\ due' \in Nat /\ account'.astray \in Nat
      /\ due + account.astray + SumFunction(none) <= due' + account'.astray
  BY <1>1, <1>2, <1>5 DEF Purse, Account
<1>7. account'.raced = account.raced + SumFunction(RacedOf(none))
  BY <1>2, <1>3, <1>5 DEF Purse, Account
<1>8. bonus' \in [Users -> Nat] /\ \A v \in Users : bonus'[v] = bonus[v] + none[v]
  BY <1>2, <1>4 DEF Purse
<1>9. account' \in Account
  BY <1>2 DEF Purse
<1> QED BY <1>2, <1>3, <1>4, <1>6, <1>7, <1>8, <1>9 DEF EarnedDoes

\* The record account is as it was but for these.
Booked(moved, written, doubted) ==
  /\ account' \in Account
  /\ account'.moved = moved /\ account'.written = written
  /\ account'.doubted = doubted
  /\ account'.raced = account.raced /\ account'.crossed = account.crossed
  /\ account'.astray = account.astray

\* The row at work is done with.
LEMMA RowDoneDoes ==
  ASSUME Purse, mover.user \in Users, RowDone
  PROVE  /\ mover' \in Mover /\ mover'.pc = "next" /\ mover'.user = Nobody
         /\ mover'.rows[mover.user] = 0
         /\ \A v \in Users : v # mover.user => mover'.rows[v] = mover.rows[v]
<1> DEFINE rows == [mover.rows EXCEPT ![mover.user] = 0]
<1>1. mover' = [mover EXCEPT !.pc = "next", !.user = Nobody, !.rows = rows]
  BY DEF RowDone
<1>2. /\ rows \in [Users -> Nat] /\ rows[mover.user] = 0
      /\ \A v \in Users : v # mover.user => rows[v] = mover.rows[v]
  BY DEF Purse, Mover
<1> HIDE DEF rows
<1>3. mover'.pc = "next" /\ mover'.user = Nobody /\ mover'.rows = rows /\ mover' \in Mover
  BY <1>1, <1>2 DEF Purse, Mover
<1> QED BY <1>2, <1>3

\* A move is paid or not.
MoveDoes(t) ==
  LET amount == mover.rows[mover.user] IN
  /\ mover.pc = "transfer" /\ mover.user \in Users /\ amount \in Nat
  /\ t.taken \in Nat /\ t.taken <= balance /\ balance' = balance - t.taken
  /\ service' = Crossed(t.taken) /\ bonus' = bonus /\ due' = due
  /\ \/ /\ t.taken = amount
        /\ mover' \in Mover /\ mover'.pc = "write" /\ mover'.user = mover.user
        /\ mover'.rows = mover.rows
        /\ Booked(account.moved + t.taken, account.written, account.doubted)
     \/ /\ RowDone
        /\ Booked(account.moved + t.taken, account.written, account.doubted + t.taken)

LEMMA MoveTransferPays ==
  ASSUME Purse, MoveTransfer
  PROVE  \E t : MoveDoes(t)
<1> DEFINE amount == mover.rows[mover.user]
<1>1. mover.pc = "transfer" /\ mover.user \in Users /\ amount \in Nat
  BY DEF Purse, Mover, MoveTransfer
<1>2. PICK t \in Transfers(amount) :
        /\ balance' = balance - t.taken /\ service' = Crossed(t.taken)
        /\ IF t.answer \in WrittenOff
             THEN mover' = [mover EXCEPT !.pc = "write"] ELSE RowDone
        /\ account' = [account EXCEPT !.moved = @ + t.taken,
             !.doubted = @ + IF t.answer = "failed" THEN t.taken ELSE 0]
  BY DEF MoveTransfer
<1> HIDE DEF amount
<1>3. /\ t.taken \in Nat /\ t.taken <= balance /\ t.answer \in {"done", "failed"}
      /\ t.answer = "done" => t.taken = amount
  BY <1>1, TakenIs DEF Purse
<1>4. bonus' = bonus /\ due' = due
  BY DEF MoveTransfer, moving
<1> DEFINE d == account.doubted + IF t.answer = "failed" THEN t.taken ELSE 0
           m == account.moved + t.taken
<1>5. d \in Nat /\ m \in Nat /\ account' = [account EXCEPT !.moved = m, !.doubted = d]
  BY <1>2, <1>3 DEF Purse, Account
<1>6. (t.answer = "failed" => d = account.doubted + t.taken)
      /\ (t.answer = "done" => d = account.doubted)
  BY <1>3 DEF Purse, Account
<1> HIDE DEF d, m
<1>7. Booked(m, account.written, d)
  BY <1>5 DEF Purse, Account, Booked
<1>8. CASE t.answer = "done"
  <2>1. mover' = [mover EXCEPT !.pc = "write"]
    BY <1>2, <1>8 DEF WrittenOff
  <2>2. /\ mover' \in Mover /\ mover'.pc = "write" /\ mover'.user = mover.user
        /\ mover'.rows = mover.rows
    BY <2>1 DEF Purse, Mover
  <2>3. t.taken = amount /\ Booked(account.moved + t.taken, account.written, account.doubted)
    BY <1>3, <1>6, <1>7, <1>8 DEF m
  <2> QED BY <1>1, <1>2, <1>3, <1>4, <2>2, <2>3 DEF MoveDoes, amount
<1>9. CASE t.answer = "failed"
  <2>1. RowDone
    BY <1>2, <1>9 DEF WrittenOff
  <2>2. Booked(account.moved + t.taken, account.written, account.doubted + t.taken)
    BY <1>6, <1>7, <1>9 DEF m
  <2> QED BY <1>1, <1>2, <1>3, <1>4, <2>1, <2>2 DEF MoveDoes, amount
<1> QED BY <1>3, <1>8, <1>9

\* A row is written off, or the statement fails.
WriteOffDoes ==
  /\ mover.pc = "write" /\ mover.user \in Users /\ RowDone
  /\ balance' = balance /\ due' = due
  /\ \/ /\ bonus' \in [Users -> Nat] /\ bonus'[mover.user] = 0
        /\ \A v \in Users : v # mover.user => bonus'[v] = bonus[v]
        /\ Booked(account.moved, account.written + bonus[mover.user], account.doubted)
     \/ /\ bonus' = bonus
        /\ Booked(account.moved, account.written,
                  account.doubted + mover.rows[mover.user])

LEMMA WriteOffBooks ==
  ASSUME Purse, WriteOff
  PROVE  WriteOffDoes
<1>1. /\ mover.pc = "write" /\ mover.user \in Users /\ RowDone
      /\ balance' = balance /\ due' = due
  BY DEF Purse, WriteOff, moving
<1>2. CASE /\ bonus' = [bonus EXCEPT ![mover.user] = 0]
           /\ account' = [account EXCEPT !.written = @ + bonus[mover.user]]
  <2>1. /\ bonus' \in [Users -> Nat] /\ bonus'[mover.user] = 0
        /\ \A v \in Users : v # mover.user => bonus'[v] = bonus[v]
        /\ bonus[mover.user] \in Nat
    BY <1>1, <1>2 DEF Purse
  <2> DEFINE w == account.written + bonus[mover.user]
  <2>2. w \in Nat /\ account' = [account EXCEPT !.written = w]
    BY <1>2, <2>1 DEF Purse, Account
  <2> HIDE DEF w
  <2>3. Booked(account.moved, w, account.doubted)
    BY <2>2 DEF Purse, Account, Booked
  <2> QED BY <1>1, <2>1, <2>3 DEF WriteOffDoes, w
<1>3. CASE /\ account' = [account EXCEPT !.doubted = @ + mover.rows[mover.user]]
           /\ UNCHANGED bonus
  <2> DEFINE d == account.doubted + mover.rows[mover.user]
  <2>1. mover.rows[mover.user] \in Nat
    BY <1>1 DEF Purse, Mover
  <2>2. d \in Nat /\ account' = [account EXCEPT !.doubted = d]
    BY <1>3, <2>1 DEF Purse, Account
  <2> HIDE DEF d
  <2>3. Booked(account.moved, account.written, d)
    BY <2>2 DEF Purse, Account, Booked
  <2> QED BY <1>1, <1>3, <2>3 DEF WriteOffDoes, d
<1> QED BY <1>2, <1>3 DEF WriteOff

\* No move.
LEMMA NoMoveTyped ==
  /\ NoMove \in Mover /\ NoMove.pc = "idle" /\ NoMove.user = Nobody
  /\ \A u \in Users : NoMove.rows[u] = 0
BY DEF NoMove, Mover

\* A move begins, goes to its next row, is over, or dies.
StartMoveDoes ==
  /\ mover.pc = "idle" /\ mover' \in Mover /\ mover'.pc = "next"
  /\ mover'.rows = bonus /\ mover'.user = Nobody
  /\ UNCHANGED <<balance, due, bonus, account>>

NextRowDoes ==
  /\ mover.pc = "next" /\ mover' \in Mover
  /\ \/ /\ mover'.pc = "transfer" /\ mover'.user \in Users /\ mover'.rows = mover.rows
        /\ mover.rows[mover'.user] > 0
     \/ mover' = NoMove
  /\ UNCHANGED <<balance, due, bonus, account>>

MoverDiesDoes ==
  /\ mover.pc # "idle" /\ mover' = NoMove /\ UNCHANGED <<balance, due, bonus>>
  /\ Booked(account.moved, account.written, account.doubted + Open)

\* What bonus-move comes to write off is a natural.
LEMMA OpenTyped ==
  ASSUME Purse
  PROVE  /\ Open \in Nat
         /\ mover.pc = "write" => Open = mover.rows[mover.user]
         /\ mover.pc # "write" => Open = 0
BY DEF Purse, Mover, Open

LEMMA MovesDo ==
  ASSUME Purse
  PROVE  /\ StartMove => StartMoveDoes
         /\ NextRow => NextRowDoes
         /\ MoverDies => MoverDiesDoes
<1>1. ASSUME StartMove PROVE StartMoveDoes
  <2>1. mover' = [NoMove EXCEPT !.pc = "next", !.rows = bonus] /\ bonus \in [Users -> Nat]
    BY <1>1 DEF StartMove, Purse
  <2>2. mover' \in Mover /\ mover'.pc = "next" /\ mover'.rows = bonus /\ mover'.user = Nobody
    BY <2>1 DEF Mover, NoMove
  <2> QED BY <1>1, <2>2 DEF StartMoveDoes, StartMove, moving
<1>2. ASSUME NextRow PROVE NextRowDoes
  <2>1. mover.pc = "next" /\ UNCHANGED <<balance, due, bonus, account>>
    BY <1>2 DEF NextRow, moving
  <2>2. ASSUME NEW u \in Users, mover.rows[u] > 0,
               mover' = [mover EXCEPT !.pc = "transfer", !.user = u]
        PROVE  NextRowDoes
    <3>1. mover' \in Mover /\ mover'.pc = "transfer" /\ mover'.user = u /\ mover'.rows = mover.rows
      BY <2>2 DEF Purse, Mover
    <3> QED BY <2>1, <2>2, <3>1 DEF NextRowDoes
  <2>3. CASE mover' = NoMove
    BY <2>1, <2>3, NoMoveTyped DEF NextRowDoes
  <2> QED BY <1>2, <2>2, <2>3 DEF NextRow
<1>3. ASSUME MoverDies PROVE MoverDiesDoes
  <2>1. /\ mover.pc # "idle" /\ mover' = NoMove /\ UNCHANGED <<balance, due, bonus>>
        /\ account' = [account EXCEPT !.doubted = account.doubted + Open]
    BY <1>3 DEF MoverDies, moving, Open
  <2> DEFINE d == account.doubted + Open
  <2>2. d \in Nat /\ account' = [account EXCEPT !.doubted = d]
    BY <2>1, OpenTyped DEF Purse, Account
  <2> HIDE DEF d
  <2>3. Booked(account.moved, account.written, d)
    BY <2>2 DEF Purse, Account, Booked
  <2> QED BY <2>1, <2>3 DEF MoverDiesDoes, d
<1> QED BY <1>1, <1>2, <1>3

\* Steps beside the processes.
BooksStep ==
  \/ \E earned : EarnedDoes(earned)
  \/ balance' = balance + due /\ due' = 0 /\ UNCHANGED <<bonus, mover, account>>
  \/ StartMoveDoes \/ NextRowDoes \/ WriteOffDoes \/ MoverDiesDoes
  \/ UNCHANGED <<balance, due, bonus, mover, account>>

LEMMA BesideBooks ==
  ASSUME Purse, BesideStep
  PROVE  BooksStep
<1>1. CASE Accrues
  BY <1>1, AccrueDoes, AccrueForeignDoes DEF BooksStep, Accrues
<1>2. CASE FeesArrive
  BY <1>2 DEF FeesArrive, BooksStep
<1>3. CASE Tick \/ UNCHANGED vars \/ \E u \in Users : AskClaim(u) \/ ClaimBonus(u)
  BY <1>3 DEF Tick, vars, AskClaim, ClaimBonus, claiming, BooksStep
<1>4. CASE StartMove \/ NextRow \/ MoverDies
  BY <1>4, MovesDo DEF BooksStep
<1>5. CASE WriteOff
  BY <1>5, WriteOffBooks DEF BooksStep
<1> QED BY <1>1, <1>2, <1>3, <1>4, <1>5 DEF BesideStep

\* The books stay naturals.
LEMMA PurseBeside ==
  ASSUME Purse, BooksStep
  PROVE  Purse'
<1>1. CASE \E earned : EarnedDoes(earned)
  BY <1>1 DEF EarnedDoes, Purse
<1>2. CASE balance' = balance + due /\ due' = 0 /\ UNCHANGED <<bonus, mover, account>>
  BY <1>2 DEF Purse
<1>3. CASE StartMoveDoes \/ NextRowDoes
  BY <1>3, NoMoveTyped DEF StartMoveDoes, NextRowDoes, Purse
<1>4. CASE WriteOffDoes
  BY <1>4, RowDoneDoes DEF WriteOffDoes, Booked, Purse
<1>5. CASE MoverDiesDoes
  BY <1>5, NoMoveTyped DEF MoverDiesDoes, Booked, Purse
<1>6. CASE UNCHANGED <<balance, due, bonus, mover, account>>
  BY <1>6 DEF Purse
<1> QED BY <1>1, <1>2, <1>3, <1>4, <1>5, <1>6 DEF BooksStep

LEMMA PurseMoved ==
  ASSUME Purse, NEW t, MoveDoes(t)
  PROVE  Purse'
<1>1. balance' \in Nat /\ bonus' = bonus /\ due' = due /\ account' \in Account
  BY DEF MoveDoes, Booked, Purse
<1>2. mover'.pc \in {"transfer", "write"} => mover'.user \in Users
  BY RowDoneDoes DEF MoveDoes
<1>3. mover' \in Mover
  BY RowDoneDoes DEF MoveDoes
<1> QED BY <1>1, <1>2, <1>3 DEF Purse

-----------------------------------------------------------------------------
(* What is not paid                                                        *)

\* What is still due of a payout, of a batch and of all of them.
Owing(o) == IF o.status # "COMPLETED" /\ o.paid = 0 THEN o.amount ELSE 0
Kept(o) == IF o.status \in Reserved THEN o.amount ELSE 0
OwingTo(b) == [i \in DOMAIN b.payouts |-> Owing(b.payouts[i])]
KeptFor(b) == [i \in DOMAIN b.payouts |-> Kept(b.payouts[i])]
OwingIn(bs) == [s \in 1..Slots |-> SumFunction(OwingTo(bs[s]))]
KeptIn(bs) == [s \in 1..Slots |-> SumFunction(KeptFor(bs[s]))]

Sound(b) ==
  /\ BatchOK(b)
  /\ b.status # "NONE" => \A i \in Owners : b.payouts[i].amount \in Nat

LEMMA UnpaidIs ==
  /\ Unpaid = SumFunction(OwingIn(batches))
  /\ DOMAIN batches = 1..Slots => PayoutsIn(Reserved) = SumFunction(KeptIn(batches))
<1>1. Unpaid = SumFunction(OwingIn(batches))
  BY DEF Unpaid, OwingIn, OwingTo, Owing
<1>2. ASSUME DOMAIN batches = 1..Slots
      PROVE  PayoutsIn(Reserved) = SumFunction(KeptIn(batches))
  BY <1>2 DEF PayoutsIn, KeptIn, KeptFor, Kept
<1> QED BY <1>1, <1>2

\* The same after a step.
LEMMA UnpaidIsNext == Unpaid' = SumFunction(OwingIn(batches'))
  BY DEF Unpaid, OwingIn, OwingTo, Owing

\* Who has a payout of a batch.
LEMMA SlotsFinite == IsFiniteSet(1..Slots)
<1>1. Slots \in Nat
  BY CollectorAssumption
<1> QED BY <1>1, FS_Interval

\* The payouts of a batch and what is due of them.
LEMMA OwingTyped ==
  ASSUME NEW b, Sound(b)
  PROVE  /\ IsFiniteSet(DOMAIN b.payouts) /\ DOMAIN b.payouts \subseteq Owners
         /\ OwingTo(b) \in [DOMAIN b.payouts -> Nat]
         /\ KeptFor(b) \in [DOMAIN b.payouts -> Nat]
         /\ SumFunction(OwingTo(b)) \in Nat /\ SumFunction(KeptFor(b)) \in Nat
         /\ SumFunction(OwingTo(b)) <= SumFunction(KeptFor(b))
         /\ b.status = "NONE" => SumFunction(OwingTo(b)) = 0
<1> DEFINE D == DOMAIN b.payouts
<1>1. D \subseteq Owners /\ IsFiniteSet(D) /\ \A i \in D : b.payouts[i].amount \in Nat
  <2>1. D = {} \/ D = Owners
    BY DEF Sound, BatchOK
  <2>2. D # {} => b.status # "NONE" /\ \A i \in Owners : b.payouts[i].amount \in Nat
    BY DEF Sound, BatchOK
  <2> QED BY <2>1, <2>2, OwnersFinite, FS_EmptySet
<1>2. \A i \in D : /\ Owing(b.payouts[i]) \in Nat /\ Kept(b.payouts[i]) \in Nat
                   /\ Owing(b.payouts[i]) <= Kept(b.payouts[i])
  <2> SUFFICES ASSUME NEW i \in D
               PROVE  /\ Owing(b.payouts[i]) \in Nat /\ Kept(b.payouts[i]) \in Nat
                      /\ Owing(b.payouts[i]) <= Kept(b.payouts[i])
    OBVIOUS
  <2>1. b.payouts[i].status \in PayoutStatus
    BY <1>1 DEF Sound, BatchOK, PayoutOK
  <2> QED BY <1>1, <2>1 DEF Owing, Kept, Reserved, Unresolved, PayoutStatus
<1> DEFINE f == OwingTo(b)
           g == KeptFor(b)
<1>3. /\ f \in [D -> Nat] /\ g \in [D -> Nat]
      /\ \A i \in D : f[i] <= g[i]
  BY <1>2 DEF OwingTo, KeptFor
<1>4. b.status = "NONE" => D = {}
  BY DEF Sound, BatchOK
<1> HIDE DEF f, g, D
<1>5. SumFunction(f) \in Nat /\ SumFunction(g) \in Nat
  BY <1>1, <1>3, TotalTyped
<1>6. f \in [D -> Int] /\ g \in [D -> Int]
  BY <1>3
<1>7. SumFunction(f) <= SumFunction(g)
  BY <1>1, <1>3, <1>6, TotalOrder
<1>8. D = {} => SumFunction(f) = 0
  BY <1>1, <1>6, TotalZero
<1> QED BY <1>1, <1>3, <1>4, <1>5, <1>7, <1>8 DEF f, g, D

\* What the liabilities reserve is at least what is not paid.
LEMMA UnpaidTyped ==
  ASSUME NEW bs, \A s \in 1..Slots : Sound(bs[s])
  PROVE  /\ OwingIn(bs) \in [1..Slots -> Nat]
         /\ SumFunction(OwingIn(bs)) \in Nat /\ SumFunction(KeptIn(bs)) \in Nat
         /\ SumFunction(OwingIn(bs)) <= SumFunction(KeptIn(bs))
<1> DEFINE f == OwingIn(bs)
           g == KeptIn(bs)
<1>1. f \in [1..Slots -> Nat] /\ g \in [1..Slots -> Nat] /\ \A s \in 1..Slots : f[s] <= g[s]
  BY OwingTyped DEF OwingIn, KeptIn
<1> HIDE DEF f, g
<1>2. f \in [1..Slots -> Int] /\ g \in [1..Slots -> Int]
  BY <1>1
<1>3. SumFunction(f) \in Nat /\ SumFunction(g) \in Nat /\ SumFunction(f) <= SumFunction(g)
  BY <1>1, <1>2, SlotsFinite, TotalTyped, TotalOrder
<1> QED BY <1>1, <1>3 DEF f, g

\* Batches whose payouts owe no more than others owe no more in all.
LEMMA OwingFalls ==
  ASSUME NEW b, Sound(b), NEW c, Sound(c), DOMAIN c.payouts = DOMAIN b.payouts,
         \A i \in DOMAIN b.payouts : Owing(c.payouts[i]) <= Owing(b.payouts[i])
  PROVE  SumFunction(OwingTo(c)) <= SumFunction(OwingTo(b))
<1> DEFINE D == DOMAIN b.payouts
           f == OwingTo(c)
           g == OwingTo(b)
<1>1. /\ IsFiniteSet(D) /\ f \in [D -> Int] /\ g \in [D -> Int]
  BY OwingTyped
<1>2. \A i \in D : f[i] <= g[i]
  BY DEF OwingTo
<1> HIDE DEF D, f, g
<1>3. SumFunction(f) <= SumFunction(g)
  BY <1>1, <1>2, TotalOrder
<1> QED BY <1>3 DEF f, g

LEMMA UnpaidFalls ==
  ASSUME NEW bs, NEW cs, \A s \in 1..Slots : Sound(bs[s]) /\ Sound(cs[s]),
         \A s \in 1..Slots :
           \/ cs[s] = bs[s]
           \/ /\ DOMAIN cs[s].payouts = DOMAIN bs[s].payouts
              /\ \A i \in DOMAIN bs[s].payouts :
                   Owing(cs[s].payouts[i]) <= Owing(bs[s].payouts[i])
  PROVE  SumFunction(OwingIn(cs)) <= SumFunction(OwingIn(bs))
<1> DEFINE f == OwingIn(cs)
           g == OwingIn(bs)
<1>1. f \in [1..Slots -> Int] /\ g \in [1..Slots -> Int]
  BY UnpaidTyped
<1>2. \A s \in 1..Slots : f[s] <= g[s]
  <2> SUFFICES ASSUME NEW s \in 1..Slots PROVE f[s] <= g[s]
    OBVIOUS
  <2>1. f[s] = SumFunction(OwingTo(cs[s])) /\ g[s] = SumFunction(OwingTo(bs[s]))
    BY DEF OwingIn
  <2>2. Sound(bs[s]) /\ Sound(cs[s]) /\ g[s] \in Int
    BY <1>1
  <2>3. CASE cs[s] = bs[s]
    BY <2>1, <2>2, <2>3
  <2>4. CASE /\ DOMAIN cs[s].payouts = DOMAIN bs[s].payouts
             /\ \A i \in DOMAIN bs[s].payouts :
                  Owing(cs[s].payouts[i]) <= Owing(bs[s].payouts[i])
    BY <2>1, <2>2, <2>4, OwingFalls
  <2> QED BY <2>3, <2>4
<1> HIDE DEF f, g
<1>3. SumFunction(f) <= SumFunction(g)
  BY <1>1, <1>2, SlotsFinite, TotalOrder
<1> QED BY <1>3 DEF f, g

\* A total over the slots changes as its one changed term does.
LEMMA SlotChange ==
  ASSUME NEW f \in [1..Slots -> Int], NEW g \in [1..Slots -> Int], NEW t \in 1..Slots,
         \A s \in (1..Slots) \ {t} : g[s] = f[s]
  PROVE  SumFunction(g) = SumFunction(f) - f[t] + g[t]
<1> DEFINE D == 1..Slots
<1>1. IsFiniteSet(D) /\ f \in [D -> Int] /\ g \in [D -> Int] /\ t \in D
  BY SlotsFinite
<1>2. \A s \in D \ {t} : g[s] = f[s]
  OBVIOUS
<1> HIDE DEF D
<1> QED BY <1>1, <1>2, TotalChange, ZenonT(60)

\* One batch changes.
LEMMA UnpaidChange ==
  ASSUME NEW bs, NEW cs, \A s \in 1..Slots : Sound(bs[s]) /\ Sound(cs[s]),
         NEW t \in 1..Slots, \A s \in 1..Slots : s # t => cs[s] = bs[s]
  PROVE  SumFunction(OwingIn(cs)) = SumFunction(OwingIn(bs))
           - SumFunction(OwingTo(bs[t])) + SumFunction(OwingTo(cs[t]))
<1> DEFINE f == OwingIn(bs)
           g == OwingIn(cs)
           D == 1..Slots
<1>1. f \in [D -> Int] /\ g \in [D -> Int] /\ IsFiniteSet(D) /\ t \in D
  BY UnpaidTyped, SlotsFinite
<1>2. \A s \in D \ {t} : g[s] = f[s]
  BY DEF OwingIn
<1>4. /\ f[t] = SumFunction(OwingTo(bs[t])) /\ g[t] = SumFunction(OwingTo(cs[t]))
  BY DEF OwingIn
<1> HIDE DEF f, g, D
<1>3. SumFunction(g) = SumFunction(f) - f[t] + g[t]
  BY <1>1, <1>2, SlotChange DEF D
<1> QED BY <1>3, <1>4 DEF f, g

\* One payout changes.
LEMMA OwingChange ==
  ASSUME NEW b, Sound(b), NEW c, Sound(c), DOMAIN c.payouts = DOMAIN b.payouts,
         NEW i \in DOMAIN b.payouts,
         \A k \in DOMAIN b.payouts : k # i => c.payouts[k] = b.payouts[k]
  PROVE  SumFunction(OwingTo(c)) =
           SumFunction(OwingTo(b)) - Owing(b.payouts[i]) + Owing(c.payouts[i])
<1> DEFINE D == DOMAIN b.payouts
           f == OwingTo(b)
           g == OwingTo(c)
<1>1. IsFiniteSet(D) /\ f \in [D -> Int] /\ g \in [D -> Int]
  BY OwingTyped
<1>2. /\ \A k \in D \ {i} : g[k] = f[k]
      /\ f[i] = Owing(b.payouts[i]) /\ g[i] = Owing(c.payouts[i])
  BY DEF OwingTo
<1> HIDE DEF D, f, g
<1>3. SumFunction(g) = SumFunction(f) - f[i] + g[i]
  BY <1>1, <1>2, TotalChange DEF D
<1> QED BY <1>2, <1>3 DEF f, g

-----------------------------------------------------------------------------
(* What each step does to the payouts                                      *)

\* The batches before and after a step.
LEMMA BatchesSound ==
  ASSUME Typed, Sums
  PROVE  \A s \in 1..Slots : Sound(batches[s])
BY DEF Typed, Sums, BatchSum, Sound

LEMMA BatchesSoundNext ==
  ASSUME Typed', Sums'
  PROVE  \A s \in 1..Slots : Sound(batches'[s])
BY DEF Typed, Sums, BatchSum, Sound

\* A payout nobody pays owes no more than it did.
LEMMA QuietFalls ==
  ASSUME IInv, Sums, Typed', Sums', NEW p \in Processes,
         Quiet \/ Walks(p) \/ Takes(p) \/ Records(p) \/ Restarts(p)
  PROVE  Unpaid' <= Unpaid
<1>1. \A s \in 1..Slots : Sound(batches[s]) /\ Sound(batches'[s])
  BY BatchesSound, BatchesSoundNext DEF IInv
<1>2. \A s \in 1..Slots : batches[s].status # "NONE" /\ batches'[s].status # "NONE"
        => DOMAIN batches'[s].payouts = DOMAIN batches[s].payouts
  BY DEF IInv, Typed, BatchOK
<1> SUFFICES \A s \in 1..Slots :
           \/ batches'[s] = batches[s]
           \/ batches[s].status = "NONE" /\ batches'[s].status = "NONE"
           \/ /\ batches[s].status # "NONE" /\ batches'[s].status # "NONE"
              /\ \A i \in Owners :
                   Owing(batches'[s].payouts[i]) <= Owing(batches[s].payouts[i])
  <2>1. \A s \in 1..Slots :
          /\ batches[s].status # "NONE" => DOMAIN batches[s].payouts = Owners
          /\ batches[s].status = "NONE" => DOMAIN batches[s].payouts = {}
          /\ batches'[s].status = "NONE" => DOMAIN batches'[s].payouts = {}
    BY DEF IInv, Typed, BatchOK
  <2> QED BY <1>1, <1>2, <2>1, UnpaidFalls, UnpaidIs, UnpaidIsNext
<1>3. \A s \in 1..Slots : batches[s].status # "NONE" =>
        \A i \in Owners : /\ batches[s].payouts[i].amount \in Nat
                          /\ Owing(batches[s].payouts[i]) \in Nat
                          /\ PayoutFine(batches[s].payouts[i])
  BY <1>1 DEF Sound, IInv, Fine, Owing
<1>4. CASE batches' = batches
  BY <1>4
<1>5. ASSUME NEW t, NEW i, Touches(t, i),
             Owing(batches'[t].payouts[i]) <= Owing(batches[t].payouts[i]),
             NEW s \in 1..Slots
      PROVE  \/ batches'[s] = batches[s]
             \/ /\ batches[s].status # "NONE" /\ batches'[s].status # "NONE"
                /\ \A k \in Owners :
                     Owing(batches'[s].payouts[k]) <= Owing(batches[s].payouts[k])
  <2>1. CASE s # t
    BY <1>5, <2>1 DEF Touches
  <2>2. CASE s = t
    <3>1. batches[s].status # "NONE" /\ batches'[s].status # "NONE"
      BY <1>5, <2>2 DEF Touches
    <3>2. ASSUME NEW k \in Owners
          PROVE  Owing(batches'[s].payouts[k]) <= Owing(batches[s].payouts[k])
      <4>1. CASE k = i
        BY <1>5, <2>2, <4>1
      <4>2. CASE k # i
        <5>1. batches'[s].payouts[k] = batches[s].payouts[k]
          BY <1>5, <2>2, <4>2 DEF Touches
        <5> QED BY <1>3, <3>1, <5>1
      <4> QED BY <4>1, <4>2
    <3> QED BY <3>1, <3>2
  <2> QED BY <2>1, <2>2
<1>6. CASE Takes(p)
  <2>1. PICK t \in 1..Slots, i \in Owners :
          /\ Touches(t, i)
          /\ batches[t].payouts[i].status = "PREPARED"
          /\ batches'[t].payouts[i].paid = batches[t].payouts[i].paid
          /\ \/ /\ batches[t].payouts[i].amount = 0
                /\ batches'[t].payouts[i].status = "COMPLETED"
             \/ /\ batches[t].payouts[i].amount # 0
                /\ batches'[t].payouts[i].status = "SENT"
    BY <1>6 DEF Takes
  <2>2. /\ batches'[t].payouts[i].amount = batches[t].payouts[i].amount
        /\ batches[t].payouts[i].amount \in Nat
    BY <1>3, <2>1 DEF Touches
  <2>3. Owing(batches'[t].payouts[i]) <= Owing(batches[t].payouts[i])
    BY <2>1, <2>2 DEF Owing
  <2> QED BY <1>5, <2>1, <2>3
<1>7. CASE Records(p)
  <2> DEFINE t == service[p].slot
             i == service[p].job
  <2>1. /\ Touches(t, i)
        /\ batches'[t].payouts[i].paid = batches[t].payouts[i].paid
        /\ \/ /\ service[p].pc = "done" /\ batches'[t].payouts[i].status = "COMPLETED"
           \/ /\ service[p].pc = "failed"
              /\ batches'[t].payouts[i].status = "REVIEW_REQUIRED"
    BY <1>7 DEF Records
  <2>2. /\ t \in 1..Slots /\ i \in Owners /\ batches[t].status # "NONE"
        /\ batches'[t].payouts[i].amount = batches[t].payouts[i].amount
        /\ batches[t].payouts[i].amount \in Nat
    BY <1>3, <2>1 DEF Touches
  <2>3. Sends(p, t, i)
    BY <2>1 DEF Sends, Sending
  <2>4. batches[t].payouts[i].status \in {"SENT", "REVIEW_REQUIRED"}
    BY <2>2, <2>3 DEF IInv, Fine, SenderFine
  <2> HIDE DEF t, i
  <2>5. Owing(batches'[t].payouts[i]) <= Owing(batches[t].payouts[i])
    <3>1. PICK o, n : o = batches[t].payouts[i] /\ n = batches'[t].payouts[i]
      OBVIOUS
    <3>2. /\ n.paid = o.paid /\ n.amount = o.amount /\ o.amount \in Nat
          /\ o.status # "COMPLETED"
      BY <2>1, <2>2, <2>4, <3>1
    <3> QED BY <3>1, <3>2 DEF Owing
  <2> QED BY <1>5, <2>1, <2>5
<1>9. CASE Restarts(p)
  <2>1. ASSUME NEW s \in 1..Slots, batches[s].status # "NONE", NEW k \in Owners
        PROVE  Owing(batches'[s].payouts[k]) <= Owing(batches[s].payouts[k])
    <3>1. /\ batches'[s].payouts[k].paid = batches[s].payouts[k].paid
          /\ batches'[s].payouts[k].amount = batches[s].payouts[k].amount
          /\ batches'[s].payouts[k].status =
               IF batches[s].payouts[k].status = "SENT" THEN "REVIEW_REQUIRED"
               ELSE batches[s].payouts[k].status
      BY <1>9, <2>1 DEF Restarts
    <3>2. batches[s].payouts[k].amount \in Nat
      BY <1>3, <2>1
    <3> QED BY <3>1, <3>2 DEF Owing
  <2>2. \A s \in 1..Slots : batches'[s].status = batches[s].status
    BY <1>9 DEF Restarts
  <2> QED BY <2>1, <2>2
<1> QED BY <1>4, <1>6, <1>7, <1>9 DEF Quiet, Walks

\* What a step of a process does to the books, other than cutting a batch.
PaysOff ==
  \E taken \in Nat :
    /\ taken <= balance /\ balance' = balance - taken
    /\ Unpaid' + taken <= Unpaid /\ account' = account

\* A payment is one of what was not paid.
LEMMA TransferSharePays ==
  ASSUME IInv, Money, Typed', Sums', NEW p \in Processes, TransferShare(p)
  PROVE  PaysOff
<1> DEFINE s == service[p].slot
           i == service[p].job
           o == batches[s].payouts[i]
<1>1. /\ s \in 1..Slots /\ i \in Owners /\ batches[s].status # "NONE" /\ Sends(p, s, i)
      /\ service[p].pc = "transfer"
  BY DEF TransferShare, At, IInv, Typed, ServiceOK, AtBatch, Sending, Sends
<1>2. \A r \in 1..Slots : Sound(batches[r]) /\ Sound(batches'[r])
  BY BatchesSound, BatchesSoundNext DEF IInv, Money
<1>3. o.status \in {"SENT", "REVIEW_REQUIRED"} /\ o.paid = 0 /\ o.amount \in Nat
  BY <1>1, <1>2 DEF IInv, Fine, SenderFine, Sound
<1>4. PICK t \in Transfers(o.amount) :
        /\ balance' = balance - t.taken
        /\ batches' = IF t.taken = 0 THEN batches
             ELSE [batches EXCEPT ![s].payouts[i].paid = @ + 1]
  BY DEF TransferShare, JobPayout
<1>5. t.taken \in Nat /\ t.taken <= balance /\ t.taken \in {0, o.amount}
  BY <1>3, <1>4, TakenIs DEF Money, Purse
<1>6. account' = account
  BY DEF TransferShare
<1>7. Unpaid \in Nat /\ Unpaid' \in Nat
  BY <1>2, UnpaidTyped, UnpaidIs, UnpaidIsNext
<1>8. Unpaid' + t.taken <= Unpaid
  <2>1. CASE t.taken = 0
    <3>1. batches' = batches
      BY <1>4, <2>1
    <3>2. Unpaid' = Unpaid
      BY <3>1, UnpaidIs, UnpaidIsNext
    <3> QED BY <1>7, <2>1, <3>2
  <2>2. CASE t.taken # 0
    <3>1. batches' = [batches EXCEPT ![s].payouts[i].paid = @ + 1]
      BY <1>4, <2>2
    <3>2. Typed
      BY DEF IInv
    <3> HIDE DEF s, i
    <3>3. Touches(s, i) /\ batches'[s].payouts[i].paid = batches[s].payouts[i].paid + 1
      BY <1>1, <3>1, <3>2, PaidDoes
    <3>4. Owing(o) = t.taken /\ t.taken = o.amount
      BY <1>3, <1>5, <2>2 DEF Owing
    <3>5. Owing(batches'[s].payouts[i]) = 0
      BY <1>3, <3>3 DEF Owing
    <3>6. /\ DOMAIN batches[s].payouts = Owners /\ DOMAIN batches'[s].payouts = Owners
          /\ \A k \in Owners : k # i => batches'[s].payouts[k] = batches[s].payouts[k]
          /\ \A r \in 1..Slots : r # s => batches'[r] = batches[r]
      BY <1>1, <3>2, <3>3 DEF Touches, Typed, BatchOK
    <3> DEFINE f == SumFunction(OwingTo(batches[s]))
               g == SumFunction(OwingTo(batches'[s]))
    <3>7. g = f - Owing(o) + Owing(batches'[s].payouts[i])
      <4>1. Sound(batches[s]) /\ Sound(batches'[s])
        BY <1>1, <1>2
      <4> QED BY <1>1, <3>6, <4>1, OwingChange
    <3>8. Unpaid' = Unpaid - f + g
      BY <1>1, <1>2, <3>6, UnpaidChange, UnpaidIs, UnpaidIsNext
    <3>9. f \in Nat /\ g \in Nat
      BY <1>1, <1>2, OwingTyped
    <3> HIDE DEF f, g, o
    <3> QED BY <1>5, <1>7, <3>4, <3>5, <3>7, <3>8, <3>9
  <2> QED BY <2>1, <2>2
<1> QED BY <1>4, <1>5, <1>6, <1>8 DEF PaysOff

\* A batch is cut: what is available is not paid yet.
Cuts(p) ==
  /\ InsertBatch(p) /\ service[p].pc = "insert"
  /\ batches[service[p].slot].status = "NONE" /\ batches'[service[p].slot].status # "NONE"
  /\ Available(p) \in Nat /\ Unpaid' = Unpaid + Available(p)
  /\ balance' = balance
  /\ account' = [account EXCEPT !.crossed = @ \/ service[p].crossed]

LEMMA InsertCuts ==
  ASSUME IInv, Money, Typed', Sums', NEW p \in Processes, ProcessStep(p), Inserts(p)
  PROVE  Cuts(p)
<1>1. PICK s \in 1..Slots :
        /\ batches[s].status = "NONE" /\ batches'[s].status = "PROCESSING"
        /\ \A i \in Owners : /\ batches'[s].payouts[i].status = "PREPARED"
                             /\ batches'[s].payouts[i].paid = 0
        /\ batches'[s].distributable = Available(p)
        /\ \A t \in 1..Slots : t # s => batches'[t] = batches[t]
        /\ service[p].slot = s /\ service[p].pc = "insert"
  BY DEF Inserts
<1>2. InsertBatch(p)
  <2>1. batches' # batches /\ ~TransferShare(p)
    BY <1>1 DEF TransferShare, At
  <2> QED BY <1>1, <2>1 DEF ProcessStep, BeginCutoff, ReadBalance, ReadLiability, TakeJob,
    RecordShare, RecordFailure, FinishBatch, StatementFails,
    GiveUp, Crash, Start, Stays, At
<1>3. account' = [account EXCEPT !.crossed = @ \/ service[p].crossed] /\ balance' = balance
  BY <1>1, <1>2 DEF InsertBatch
<1>4. \A r \in 1..Slots : Sound(batches[r]) /\ Sound(batches'[r])
  BY BatchesSound, BatchesSoundNext DEF IInv, Money
<1>5. BatchSum(s)' /\ DOMAIN batches'[s].payouts = Owners
  BY <1>1 DEF Sums, Typed, BatchOK
<1>6. SumFunction(OwingTo(batches'[s])) = Available(p)
  <2>1. OwingTo(batches'[s]) = Amounts(s)'
    BY <1>1, <1>5 DEF OwingTo, Amounts, Owing
  <2> QED BY <1>1, <1>5, <2>1 DEF BatchSum
<1>7. SumFunction(OwingTo(batches[s])) = 0
  BY <1>1, <1>4, OwingTyped
<1>8. Unpaid' = Unpaid - SumFunction(OwingTo(batches[s])) + SumFunction(OwingTo(batches'[s]))
  BY <1>1, <1>4, UnpaidChange, UnpaidIs, UnpaidIsNext
<1>9. Unpaid \in Nat /\ Available(p) \in Nat
  BY <1>1, <1>4, UnpaidTyped, UnpaidIs, AvailableTyped
<1>10. Unpaid' = Unpaid + Available(p)
  BY <1>6, <1>7, <1>8, <1>9
<1> QED BY <1>1, <1>2, <1>3, <1>9, <1>10 DEF Cuts

\* Every other step of a process.
LEMMA ProcessBooks ==
  ASSUME IInv, Money, Typed', Sums', NEW p \in Processes, ProcessStep(p)
  PROVE  /\ UNCHANGED <<due, bonus, mover>>
         /\ PaysOff \/ Cuts(p)
<1>1. UNCHANGED <<due, bonus, mover>>
  BY MoneyUntouched
<1>2. CASE TransferShare(p)
  BY <1>1, <1>2, TransferSharePays
<1>3. CASE Inserts(p)
  BY <1>1, <1>3, InsertCuts
<1>4. CASE ~TransferShare(p) /\ ~Inserts(p)
  <2>1. balance' = balance /\ balance \in Nat
    BY <1>4, MoneyUntouched DEF Money, Purse
  <2>2. account' = account
    <3>1. CASE InsertBatch(p)
      <4>1. Typed /\ DOMAIN batches = 1..Slots /\ service[p].slot \in 1..Slots
        BY <3>1 DEF IInv, Typed, ServiceOK, InsertBatch, At
      <4>2. batches[service[p].slot].status # "NONE" => account' = account
        BY <3>1 DEF InsertBatch, Stays
      <4>3. CASE batches[service[p].slot].status = "NONE"
        <5>2. batches' # batches
          BY <3>1, <4>1, <4>3 DEF InsertBatch
        <5>3. Walks(p) \/ Inserts(p)
          BY <3>1, <4>1, InsertBatchDoes
        <5> QED BY <1>4, <5>2, <5>3 DEF Walks
      <4> QED BY <4>2, <4>3
    <3>2. CASE ~InsertBatch(p)
      BY <3>2, MoneyUntouched
    <3> QED BY <3>1, <3>2
  <2>3. Unpaid' <= Unpaid /\ Unpaid \in Nat /\ Unpaid' \in Nat
    <3>1. \A r \in 1..Slots : Sound(batches[r]) /\ Sound(batches'[r])
      BY BatchesSound, BatchesSoundNext DEF IInv, Money
    <3>2. Unpaid \in Nat /\ Unpaid' \in Nat
      BY <3>1, UnpaidTyped, UnpaidIs, UnpaidIsNext
    <3>3. Walks(p) \/ Takes(p) \/ Pays(p) \/ Records(p) \/ Restarts(p)
      BY <1>4, ProcessStepDoes DEF IInv
    <3>4. Pays(p) => batches' = batches
      BY <1>4 DEF Pays, ProcessStep, BeginCutoff, ReadBalance, ReadLiability, InsertBatch,
        TakeJob, RecordShare, RecordFailure, FinishBatch, StatementFails,
        GiveUp, Crash, Start, Stays, At
    <3>5. batches' = batches => Unpaid' = Unpaid
      BY UnpaidIs, UnpaidIsNext
    <3>6. ASSUME Walks(p) \/ Takes(p) \/ Records(p) \/ Restarts(p)
          PROVE  Unpaid' <= Unpaid
      BY <3>6, QuietFalls DEF Money
    <3> QED BY <3>2, <3>3, <3>4, <3>5, <3>6
  <2>4. 0 <= balance /\ balance' = balance - 0
    BY <2>1
  <2>5. Unpaid' + 0 <= Unpaid
    <3> DEFINE u == Unpaid
               v == Unpaid'
    <3>1. u \in Nat /\ v \in Nat /\ v <= u
      BY <2>3
    <3> HIDE DEF u, v
    <3>2. v + 0 <= u
      BY <3>1
    <3> QED BY <3>2 DEF u, v
  <2> QED BY <1>1, <2>2, <2>4, <2>5 DEF PaysOff
<1> QED BY <1>2, <1>3, <1>4

-----------------------------------------------------------------------------
(* Money stays money                                                       *)

\* The sums hold after every step.
LEMMA SumsNext ==
  ASSUME Typed, Money, [Next]_vars
  PROVE  Sums'
<1>1. CASE BesideStep \/ MoveTransfer
  <2>1. batches' = batches
    BY <1>1 DEF BesideStep, MoveTransfer, Tick, FeesArrive, Accrues, Accrue, AccrueForeign, accruing, AskClaim, ClaimBonus,
      StartMove, NextRow, WriteOff, MoverDies, vars, claiming, moving
  <2>2. \A s \in 1..Slots : BatchSum(s) => BatchSum(s)'
    BY <2>1, SumStays DEF SameAmounts
  <2> QED BY <2>1, <2>2 DEF Money, Sums
<1>2. ASSUME NEW p \in Processes, ProcessStep(p) PROVE Sums'
  BY <1>2, SumsStep DEF Sums
<1> QED BY <1>1, <1>2, StepIs

\* What was reserved is a natural.
LEMMA ReservedTyped ==
  ASSUME Typed, Sums
  PROVE  PayoutsIn(Reserved) \in Nat /\ Unpaid \in Nat /\ Unpaid <= PayoutsIn(Reserved)
<1>1. \A s \in 1..Slots : Sound(batches[s])
  BY BatchesSound
<1> QED BY <1>1, UnpaidTyped, UnpaidIs DEF Typed

\* What the three readings of a cut leave.
LEMMA ReadingsLeave ==
  ASSUME Typed, NEW q \in Processes
  PROVE  /\ BeginCutoff(q) /\ service'[q].pc \in Early =>
              service'[q].pc = "balance" /\ service'[q].slot = slot
         /\ ReadBalance(q) =>
              /\ service'[q].pc = "liability" /\ service'[q].slot = service[q].slot
              /\ service'[q].balance = balance /\ service[q].pc = "balance"
         /\ ReadLiability(q) =>
              /\ service'[q].pc = "insert" /\ service'[q].slot = service[q].slot
              /\ service'[q].balance = service[q].balance
              /\ service'[q].liability = SumFunction(bonus) + PayoutsIn(Reserved)
              /\ service'[q].crossed = service[q].crossed
              /\ service[q].pc = "liability"
<1>1. DOMAIN service = Processes /\ DOMAIN service[q] = Fields
  BY DEF Typed, ServiceOK
<1>2. ASSUME BeginCutoff(q), service'[q].pc \in Early
      PROVE  service'[q].pc = "balance" /\ service'[q].slot = slot
  <2> DEFINE begun == [Started EXCEPT !.checked = slot, !.slot = slot]
  <2>1. service'[q] \in {[begun EXCEPT !.pc = "balance"],
                         [begun EXCEPT !.pc = "take", !.jobs = Waiting(batches[slot].payouts)],
                         [Started EXCEPT !.checked = slot]}
    BY <1>1, <1>2 DEF BeginCutoff
  <2>2. /\ [begun EXCEPT !.pc = "balance"].slot = slot
        /\ [begun EXCEPT !.pc = "balance"].pc = "balance"
        /\ [begun EXCEPT !.pc = "take", !.jobs = Waiting(batches[slot].payouts)].pc = "take"
        /\ [Started EXCEPT !.checked = slot].pc = "idle"
    BY DEF Started
  <2> QED BY <1>2, <2>1, <2>2 DEF Early
<1>3. ASSUME ReadBalance(q)
      PROVE  /\ service'[q].pc = "liability" /\ service'[q].slot = service[q].slot
             /\ service'[q].balance = balance /\ service[q].pc = "balance"
  <2>1. service'[q] = [service[q] EXCEPT !.pc = "liability", !.balance = balance]
    BY <1>1, <1>3 DEF ReadBalance
  <2> QED BY <1>1, <1>3, <2>1 DEF Fields, ReadBalance, At
<1>4. ASSUME ReadLiability(q)
      PROVE  /\ service'[q].pc = "insert" /\ service'[q].slot = service[q].slot
             /\ service'[q].balance = service[q].balance
             /\ service'[q].liability = SumFunction(bonus) + PayoutsIn(Reserved)
             /\ service'[q].crossed = service[q].crossed
             /\ service[q].pc = "liability"
  <2> DEFINE v == SumFunction(bonus) + PayoutsIn(Reserved)
  <2>1. service'[q] = [service[q] EXCEPT !.pc = "insert", !.liability = v]
    BY <1>1, <1>4 DEF ReadLiability
  <2> HIDE DEF v
  <2>2. /\ service'[q].pc = "insert" /\ service'[q].slot = service[q].slot
        /\ service'[q].balance = service[q].balance /\ service'[q].liability = v
        /\ service'[q].crossed = service[q].crossed
    BY <1>1, <2>1 DEF Fields
  <2> QED BY <1>4, <2>2 DEF ReadLiability, At, v
<1> QED BY <1>2, <1>3, <1>4

\* What is read is a natural after every step.
LEMMA ReadNext ==
  ASSUME Typed, Money, [Next]_vars, NEW q \in Processes
  PROVE  Read(q)'
<1>1. CASE service'[q].pc \notin {"liability", "insert"}
  BY <1>1 DEF Read
<1>2. CASE service'[q].pc \in {"liability", "insert"}
  <2>1. BeginCutoff(q) \/ ReadBalance(q) \/ ReadLiability(q) \/ Stayed(q)
    BY <1>2, EarlyStays DEF Early
  <2>2. CASE BeginCutoff(q)
    BY <1>2, <2>2, ReadingsLeave DEF Early
  <2>3. CASE ReadBalance(q)
    BY <2>3, ReadingsLeave DEF Read, Money, Purse
  <2>4. CASE ReadLiability(q)
    <3>1. SumFunction(bonus) + PayoutsIn(Reserved) \in Nat
      BY ReservedTyped, BonusTotal DEF Money
    <3>2. Read(q)
      BY DEF Money
    <3> QED BY <2>4, <3>1, <3>2, ReadingsLeave DEF Read
  <2>5. CASE Stayed(q)
    BY <2>5 DEF Stayed, Read, Money
  <2> QED BY <2>1, <2>2, <2>3, <2>4, <2>5
<1> QED BY <1>1, <1>2

\* The books after every step.
LEMMA PurseNext ==
  ASSUME IInv, Money, [Next]_vars
  PROVE  Purse'
<1>1. Typed /\ Typed' /\ Sums' /\ Purse
  BY StepChanges, SumsNext DEF IInv, Money
<1>2. CASE BesideStep
  BY <1>1, <1>2, BesideBooks, PurseBeside
<1>3. CASE MoveTransfer
  BY <1>1, <1>3, MoveTransferPays, PurseMoved
<1>4. ASSUME NEW p \in Processes, ProcessStep(p) PROVE Purse'
  <2>1. UNCHANGED <<due, bonus, mover>> /\ (PaysOff \/ Cuts(p))
    BY <1>1, <1>4, ProcessBooks
  <2>2. balance' \in Nat
    BY <1>1, <2>1 DEF PaysOff, Cuts, Purse
  <2>3. account' \in Account
    <3>1. CASE PaysOff
      BY <1>1, <3>1 DEF PaysOff, Purse
    <3>2. CASE Cuts(p)
      <4> DEFINE c == account.crossed \/ service[p].crossed
      <4>1. c \in BOOLEAN /\ account' = [account EXCEPT !.crossed = c]
        BY <3>2 DEF Cuts
      <4> HIDE DEF c
      <4> QED BY <1>1, <4>1 DEF Purse, Account
    <3> QED BY <2>1, <3>1, <3>2
  <2> QED BY <1>1, <2>1, <2>2, <2>3 DEF Purse
<1> QED BY <1>2, <1>3, <1>4, StepIs

\* The invariant: the books, what was read and the sums of the batches.
LEMMA InitMoney ==
  ASSUME Init
  PROVE  Money
<1>1. Purse
  <2>1. account \in Account /\ mover \in Mover /\ mover.pc = "idle"
    BY NoMoveTyped DEF Init, Account
  <2> QED BY <2>1, CollectorAssumption DEF Init, Purse
<1>2. \A p \in Processes : service[p].pc = "idle"
  BY StartedTyped DEF Init
<1>3. \A s \in 1..Slots : batches[s].status = "NONE"
  BY DEF Init, NoBatch
<1> QED BY <1>1, <1>2, <1>3 DEF Money, Read, Sums

LEMMA NextMoney ==
  ASSUME IInv, Money, [Next]_vars
  PROVE  Money'
<1>1. Purse' /\ Sums' /\ \A q \in Processes : Read(q)'
  BY PurseNext, SumsNext, ReadNext DEF IInv
<1> QED BY <1>1 DEF Money

\* The books of the collector are naturals, whatever is paid, moved and written off,
\* and the payouts of a batch are what it distributes (service.go cutoffCoin).
THEOREM MoneyHolds == Spec => []Money
BY InitMoney, NextMoney, PayoutsHold, PTL DEF Spec

\* The payouts of a batch add up to what it distributes, rounding included: the last
\* owner gets what the percentages leave (service.go cutoffCoin).
THEOREM SharesAddUpHolds == Spec => []SharesAddUp
<1>1. Money => SharesAddUp
  BY DEF Money, Sums, BatchSum, Amounts, SharesAddUp
<1> QED BY <1>1, MoneyHolds, PTL

-----------------------------------------------------------------------------
(* A share is one single transfer                                          *)

\* The variables of SingleTransfer, and one of its steps or none.
Book == [x \in OwnerShares |-> BookOf(ShareOf(x))]
Due == [x \in OwnerShares |-> ShareOf(x).amount]
Paid == [x \in OwnerShares |-> ShareOf(x).paid]
SingleTransferStep == [SingleTransfers!Next]_<<Book, Due, Paid>>

ShareStays(x) == ShareOf(x)' = ShareOf(x)

\* A share is one of a slot and an owner.
LEMMA SharePair ==
  ASSUME NEW x \in OwnerShares
  PROVE  x[1] \in 1..Slots /\ x[2] \in Owners /\ x = <<x[1], x[2]>>
BY DEF OwnerShares

\* A step that keeps every share is none.
LEMMA SharesSame ==
  ASSUME \A x \in OwnerShares : ShareStays(x)
  PROVE  SingleTransferStep
<1>1. \A x \in OwnerShares : BookOf(ShareOf(x))' = BookOf(ShareOf(x))
  BY DEF ShareStays, BookOf
<1>2. Book' = Book /\ Due' = Due /\ Paid' = Paid
  BY <1>1 DEF ShareStays, Book, Due, Paid
<1> QED BY <1>2 DEF SingleTransferStep

\* What stays when one payout is touched.
LEMMA OneTouched ==
  ASSUME NEW s, NEW i, Touches(s, i)
  PROVE  /\ <<s, i>> \in OwnerShares
         /\ ShareOf(<<s, i>>) = batches[s].payouts[i]
         /\ ShareOf(<<s, i>>)' = batches'[s].payouts[i]
         /\ \A x \in OwnerShares \ {<<s, i>>} : ShareStays(x)
<1>1. <<s, i>> \in OwnerShares
  BY DEF Touches, OwnerShares
<1>2. ShareOf(<<s, i>>) = batches[s].payouts[i] /\ ShareOf(<<s, i>>)' = batches'[s].payouts[i]
  BY DEF Touches, ShareOf
<1>3. ASSUME NEW x \in OwnerShares, x # <<s, i>> PROVE ShareStays(x)
  <2>1. x[1] \in 1..Slots /\ x[2] \in Owners /\ (x[1] # s \/ x[2] # i)
    BY <1>3, SharePair
  <2>2. CASE x[1] # s
    BY <2>1, <2>2 DEF Touches, ShareStays, ShareOf
  <2>3. CASE x[1] = s /\ x[2] # i
    <3>1. batches'[s].status = batches[s].status /\ batches[s].status # "NONE"
      BY DEF Touches
    <3>2. batches'[s].payouts[x[2]] = batches[s].payouts[x[2]]
      BY <2>1, <2>3 DEF Touches
    <3> QED BY <2>3, <3>1, <3>2 DEF ShareStays, ShareOf
  <2> QED BY <2>1, <2>2, <2>3
<1> QED BY <1>1, <1>2, <1>3

\* One share that changes turns, and keeps its amount.
LEMMA ShareTurns ==
  ASSUME NEW x \in OwnerShares, \A y \in OwnerShares \ {x} : ShareStays(y),
         ShareOf(x).amount' = ShareOf(x).amount, ShareOf(x).paid' = ShareOf(x).paid,
         NEW status, BookOf(ShareOf(x))' = status
  PROVE  SingleTransfers!Turns({x}, status) /\ Due' = Due /\ Paid' = Paid
<1>1. \A y \in OwnerShares \ {x} : BookOf(ShareOf(y))' = BookOf(ShareOf(y))
  BY DEF ShareStays, BookOf
<1>2. [y \in OwnerShares |-> BookOf(ShareOf(y))'] =
        [y \in OwnerShares |-> IF y \in {x} THEN status ELSE BookOf(ShareOf(y))]
  BY <1>1
<1>3. Due' = Due /\ Paid' = Paid
  BY DEF ShareStays, Due, Paid
<1> QED BY <1>2, <1>3 DEF SingleTransfers!Turns

\* A share is taken: what is nothing is recorded, the rest is marked.
LEMMA TakesOne ==
  ASSUME NEW p \in Processes, Takes(p)
  PROVE  SingleTransferStep
<1>1. PICK s \in 1..Slots, i \in Owners :
        /\ Touches(s, i)
        /\ batches[s].payouts[i].status = "PREPARED"
        /\ batches'[s].payouts[i].paid = batches[s].payouts[i].paid
        /\ \/ /\ batches[s].payouts[i].amount = 0
              /\ batches'[s].payouts[i].status = "COMPLETED"
           \/ batches'[s].payouts[i].status = "SENT"
  BY DEF Takes
<1> DEFINE x == <<s, i>>
<1>2. /\ x \in OwnerShares /\ \A y \in OwnerShares \ {x} : ShareStays(y)
      /\ ShareOf(x) = batches[s].payouts[i] /\ ShareOf(x)' = batches'[s].payouts[i]
  BY <1>1, OneTouched
<1>3. ShareOf(x).amount' = ShareOf(x).amount /\ ShareOf(x).paid' = ShareOf(x).paid
  BY <1>1, <1>2 DEF Touches
<1>4. BookOf(ShareOf(x)) = "noted"
  BY <1>1, <1>2 DEF BookOf
<1> HIDE DEF x
<1>5. CASE batches[s].payouts[i].amount = 0 /\ batches'[s].payouts[i].status = "COMPLETED"
  <2>1. BookOf(ShareOf(x))' = "recorded"
    BY <1>2, <1>5 DEF BookOf
  <2>2. SingleTransfers!Record(x)
    BY <1>2, <1>3, <1>4, <1>5, <2>1, ShareTurns DEF SingleTransfers!Record, Due, Paid
  <2> QED BY <1>2, <2>2 DEF SingleTransferStep, SingleTransfers!Next
<1>6. CASE batches'[s].payouts[i].status = "SENT"
  <2>1. BookOf(ShareOf(x))' = "sent"
    BY <1>2, <1>6 DEF BookOf
  <2>2. SingleTransfers!Send(x)
    BY <1>2, <1>3, <1>4, <2>1, ShareTurns DEF SingleTransfers!Send, Due, Paid
  <2> QED BY <1>2, <2>2 DEF SingleTransferStep, SingleTransfers!Next
<1> QED BY <1>1, <1>5, <1>6

\* What the provider carries out is the one payment of a share that is sent.
LEMMA PaysOne ==
  ASSUME IInv, NEW p \in Processes, Pays(p)
  PROVE  SingleTransferStep
<1>0. PICK s, i : s = service[p].slot /\ i = service[p].job
  OBVIOUS
<1> DEFINE x == <<s, i>>
<1>1. CASE batches' = batches
  BY <1>1, SharesSame DEF ShareStays, ShareOf
<1>2. CASE /\ Touches(s, i)
           /\ batches'[s].payouts[i].status = batches[s].payouts[i].status
           /\ batches'[s].payouts[i].paid = batches[s].payouts[i].paid + 1
  <2>1. /\ x \in OwnerShares /\ \A y \in OwnerShares \ {x} : ShareStays(y)
        /\ ShareOf(x) = batches[s].payouts[i] /\ ShareOf(x)' = batches'[s].payouts[i]
    BY <1>2, OneTouched
  <2>2. /\ batches[s].payouts[i].status \in {"SENT", "REVIEW_REQUIRED"}
        /\ batches[s].payouts[i].paid = 0
    <3>1. Sends(p, s, i) /\ service[p].pc = "transfer"
      BY <1>0 DEF Pays, Sends, Sending
    <3>2. s \in 1..Slots /\ i \in Owners /\ batches[s].status # "NONE"
      BY <1>2 DEF Touches
    <3>3. SenderFine(p, s, i)
      BY <3>2 DEF IInv, Fine
    <3> QED BY <3>1, <3>3 DEF SenderFine
  <2>3. ShareOf(x).amount' = ShareOf(x).amount
    BY <1>2, <2>1 DEF Touches
  <2> HIDE DEF x
  <2>4. BookOf(ShareOf(x)) \in {"sent", "abandoned"}
    BY <2>1, <2>2 DEF BookOf
  <2>5. BookOf(ShareOf(x))' = BookOf(ShareOf(x))
    BY <1>2, <2>1, <2>2 DEF BookOf
  <2>6. ShareOf(x).paid = 0 /\ ShareOf(x).paid' = 1
    BY <1>2, <2>1, <2>2
  <2>7. \A y \in OwnerShares : BookOf(ShareOf(y))' = BookOf(ShareOf(y))
    BY <2>1, <2>5 DEF ShareStays, BookOf
  <2>8. Book' = Book /\ Due' = Due
    BY <2>1, <2>3, <2>7 DEF ShareStays, Book, Due
  <2>9. Paid' = [Paid EXCEPT ![x] = 1]
    BY <2>1, <2>6 DEF ShareStays, Paid
  <2>10. SingleTransfers!Pay(x)
    BY <2>1, <2>4, <2>6, <2>8, <2>9 DEF SingleTransfers!Pay, Book, Due, Paid
  <2> QED BY <2>1, <2>10 DEF SingleTransferStep, SingleTransfers!Next
<1> QED BY <1>0, <1>1, <1>2 DEF Pays

\* What is recorded as COMPLETED was paid; a failure gives the share up, unless it
\* was given up before.
LEMMA RecordsOne ==
  ASSUME IInv, NEW p \in Processes, Records(p)
  PROVE  SingleTransferStep
<1>0. PICK s, i : s = service[p].slot /\ i = service[p].job
  OBVIOUS
<1> DEFINE x == <<s, i>>
<1>1. Touches(s, i) /\ batches'[s].payouts[i].paid = batches[s].payouts[i].paid
  BY <1>0 DEF Records
<1>2. /\ x \in OwnerShares /\ \A y \in OwnerShares \ {x} : ShareStays(y)
      /\ ShareOf(x) = batches[s].payouts[i] /\ ShareOf(x)' = batches'[s].payouts[i]
  BY <1>1, OneTouched
<1>3. ShareOf(x).amount' = ShareOf(x).amount /\ ShareOf(x).paid' = ShareOf(x).paid
  BY <1>1, <1>2 DEF Touches
<1>4. /\ batches[s].payouts[i].status \in {"SENT", "REVIEW_REQUIRED"}
      /\ service[p].pc = "done" => batches[s].payouts[i].paid = 1
  <2>1. Sends(p, s, i)
    BY <1>0 DEF Records, Sends, Sending
  <2>2. SenderFine(p, s, i)
    BY <1>1 DEF Touches, IInv, Fine
  <2> QED BY <2>1, <2>2 DEF SenderFine
<1>5. \/ /\ service[p].pc = "done" /\ batches[s].payouts[i].status = "SENT"
         /\ batches'[s].payouts[i].status = "COMPLETED"
      \/ batches'[s].payouts[i].status = "REVIEW_REQUIRED"
  BY <1>0 DEF Records
<1> HIDE DEF x
<1>6. CASE /\ service[p].pc = "done" /\ batches[s].payouts[i].status = "SENT"
           /\ batches'[s].payouts[i].status = "COMPLETED"
  <2>1. BookOf(ShareOf(x)) = "sent" /\ BookOf(ShareOf(x))' = "recorded" /\ ShareOf(x).paid = 1
    BY <1>2, <1>4, <1>6 DEF BookOf
  <2>2. SingleTransfers!Record(x)
    BY <1>2, <1>3, <2>1, ShareTurns DEF SingleTransfers!Record, Due, Paid
  <2> QED BY <1>2, <2>2 DEF SingleTransferStep, SingleTransfers!Next
<1>7. CASE batches'[s].payouts[i].status = "REVIEW_REQUIRED"
  <2>1. BookOf(ShareOf(x))' = "abandoned"
    BY <1>2, <1>7 DEF BookOf
  <2>2. SingleTransfers!Turns({x}, "abandoned") /\ Due' = Due /\ Paid' = Paid
    BY <1>2, <1>3, <2>1, ShareTurns
  <2>3. CASE batches[s].payouts[i].status = "SENT"
    <3>1. BookOf(ShareOf(x)) = "sent"
      BY <1>2, <2>3 DEF BookOf
    <3>2. SingleTransfers!GiveUp({x})
      BY <1>2, <2>2, <3>1 DEF SingleTransfers!GiveUp, Due, Paid
    <3> QED BY <1>2, <3>2 DEF SingleTransferStep, SingleTransfers!Next
  <2>4. CASE batches[s].payouts[i].status = "REVIEW_REQUIRED"
    <3>1. BookOf(ShareOf(x)) = "abandoned"
      BY <1>2, <2>4 DEF BookOf
    <3>2. \A y \in OwnerShares : BookOf(ShareOf(y))' = BookOf(ShareOf(y))
      BY <1>2, <2>1, <3>1 DEF ShareStays, BookOf
    <3>3. Book' = Book
      BY <3>2 DEF Book
    <3> QED BY <2>2, <3>3 DEF SingleTransferStep
  <2> QED BY <1>4, <2>3, <2>4
<1> QED BY <1>5, <1>6, <1>7

\* Every share of a new batch is noted with its amount.
LEMMA InsertsAll ==
  ASSUME Sums', Typed', NEW p \in Processes, Inserts(p)
  PROVE  SingleTransferStep
<1>1. PICK s \in 1..Slots :
        /\ batches[s].status = "NONE" /\ batches'[s].status = "PROCESSING"
        /\ \A i \in Owners : /\ batches'[s].payouts[i].status = "PREPARED"
                             /\ batches'[s].payouts[i].paid = 0
        /\ \A t \in 1..Slots : t # s => batches'[t] = batches[t]
  BY DEF Inserts
<1> DEFINE os == {x \in OwnerShares : x[1] = s}
<1>2. ASSUME NEW x \in OwnerShares, x[1] = s
      PROVE  /\ BookOf(ShareOf(x)) = "absent" /\ BookOf(ShareOf(x))' = "noted"
             /\ ShareOf(x).paid' = ShareOf(x).paid
  <2>1. ShareOf(x) = NoShare /\ ShareOf(x)' = batches'[s].payouts[x[2]]
    BY <1>1, <1>2 DEF ShareOf
  <2>2. x[2] \in Owners
    BY SharePair
  <2> QED BY <1>1, <2>1, <2>2 DEF BookOf, NoShare
<1>3. ASSUME NEW x \in OwnerShares, x[1] # s PROVE ShareStays(x)
  BY <1>1, <1>3, SharePair DEF ShareStays, ShareOf
<1>4. SingleTransfers!Turns(os, "noted")
  <2>1. ASSUME NEW x \in OwnerShares
        PROVE  BookOf(ShareOf(x))' = IF x[1] = s THEN "noted" ELSE BookOf(ShareOf(x))
    <3>1. ShareStays(x) => BookOf(ShareOf(x))' = BookOf(ShareOf(x))
      BY DEF ShareStays, BookOf
    <3> QED BY <1>2, <1>3, <3>1
  <2>2. [x \in OwnerShares |-> BookOf(ShareOf(x))'] =
          [x \in OwnerShares |-> IF x \in os THEN "noted" ELSE BookOf(ShareOf(x))]
    BY <2>1
  <2> QED BY <2>2 DEF SingleTransfers!Turns
<1>5. Paid' = Paid /\ \A x \in OwnerShares \ os : Due'[x] = Due[x]
  BY <1>2, <1>3 DEF ShareStays, Due, Paid
<1>6. Due' \in [OwnerShares -> Nat]
  <2>1. ASSUME NEW x \in OwnerShares PROVE ShareOf(x).amount' \in Nat
    BY <2>1, SharePair DEF ShareOf, NoShare, Sums, BatchSum
  <2> QED BY <2>1 DEF Due
<1>7. os \in SUBSET OwnerShares /\ \A x \in os : Book[x] = "absent"
  BY <1>2 DEF Book
<1> HIDE DEF os
<1>8. SingleTransfers!Note(os, "noted")
  BY <1>4, <1>5, <1>6, <1>7 DEF SingleTransfers!Note, Book, Due, Paid
<1> QED BY <1>7, <1>8 DEF SingleTransferStep, SingleTransfers!Next

\* A process that comes up gives up every share that is marked.
LEMMA RestartsAll ==
  ASSUME Typed, NEW p \in Processes, Restarts(p)
  PROVE  SingleTransferStep
<1> DEFINE os == {x \in OwnerShares : BookOf(ShareOf(x)) = "sent"}
<1>1. ASSUME NEW x \in OwnerShares
      PROVE  /\ ShareOf(x).amount' = ShareOf(x).amount /\ ShareOf(x).paid' = ShareOf(x).paid
             /\ BookOf(ShareOf(x))' = IF x \in os THEN "abandoned" ELSE BookOf(ShareOf(x))
  <2>1. x[1] \in 1..Slots /\ x[2] \in Owners
    BY SharePair
  <2>2. batches'[x[1]].status = batches[x[1]].status
    BY <2>1 DEF Restarts
  <2>3. CASE batches[x[1]].status = "NONE"
    BY <2>2, <2>3 DEF ShareOf, NoShare, BookOf
  <2>4. CASE batches[x[1]].status # "NONE"
    <3> DEFINE o == batches[x[1]].payouts[x[2]]
               n == batches'[x[1]].payouts[x[2]]
    <3>1. ShareOf(x) = o /\ ShareOf(x)' = n
      BY <2>2, <2>4 DEF ShareOf
    <3>2. /\ n.paid = o.paid /\ n.amount = o.amount
          /\ n.status = IF o.status = "SENT" THEN "REVIEW_REQUIRED" ELSE o.status
      BY <2>1, <2>4 DEF Restarts
    <3>3. o.status \in PayoutStatus
      BY <2>1, <2>4 DEF Typed, BatchOK, PayoutOK
    <3> HIDE DEF o, n
    <3> QED BY <3>1, <3>2, <3>3 DEF BookOf, PayoutStatus
  <2> QED BY <2>3, <2>4
<1>2. SingleTransfers!Turns(os, "abandoned")
  <2>1. [x \in OwnerShares |-> BookOf(ShareOf(x))'] =
          [x \in OwnerShares |-> IF x \in os THEN "abandoned" ELSE BookOf(ShareOf(x))]
    BY <1>1
  <2> QED BY <2>1 DEF SingleTransfers!Turns
<1>3. Due' = Due /\ Paid' = Paid
  BY <1>1 DEF Due, Paid
<1>4. os \in SUBSET OwnerShares /\ \A x \in os : Book[x] = "sent"
  BY DEF Book
<1> HIDE DEF os
<1>5. SingleTransfers!GiveUp(os)
  BY <1>2, <1>3, <1>4 DEF SingleTransfers!GiveUp, Book, Due, Paid
<1> QED BY <1>4, <1>5 DEF SingleTransferStep, SingleTransfers!Next

\* Every step is one of SingleTransfer or none of its business.
LEMMA SingleTransferSteps == IInv /\ Money /\ [Next]_vars => SingleTransferStep
<1> SUFFICES ASSUME IInv, Money, [Next]_vars PROVE SingleTransferStep
  OBVIOUS
<1>1. Typed /\ Typed' /\ Change /\ Sums'
  BY StepChanges, NextMoney DEF IInv, Money
<1>2. CASE Quiet
  BY <1>2, SharesSame DEF Quiet, ShareStays, ShareOf
<1>3. ASSUME NEW p \in Processes, Walks(p) PROVE SingleTransferStep
  BY <1>3, SharesSame DEF Walks, ShareStays, ShareOf
<1> QED BY <1>1, <1>2, <1>3, TakesOne, PaysOne, RecordsOne, InsertsAll, RestartsAll
    DEF Change

\* Processes that share a batch, die, start again and lose answers pay an owner's
\* share as one process that marks it, pays it once and records or gives it up would
\* (service.go Run, cutoffCoin, processCutoffPayouts).
THEOREM CollectorImplementsSingleTransfer == Spec => ImplementsSingleTransfer
<1>1. Init => SingleTransfers!Init
  <2> SUFFICES ASSUME Init PROVE SingleTransfers!Init
    OBVIOUS
  <2>1. ASSUME NEW x \in OwnerShares PROVE ShareOf(x) = NoShare
    BY SharePair DEF Init, NoBatch, ShareOf
  <2>2. ASSUME NEW x \in OwnerShares
        PROVE  BookOf(ShareOf(x)) = "absent" /\ ShareOf(x).amount = 0 /\ ShareOf(x).paid = 0
    BY <2>1 DEF NoShare, BookOf
  <2> QED BY <2>2 DEF SingleTransfers!Init
<1>2. IInv /\ Money /\ [Next]_vars => [SingleTransfers!Next]_<<Book, Due, Paid>>
  BY SingleTransferSteps DEF SingleTransferStep
<1> QED BY <1>1, <1>2, PayoutsHold, MoneyHolds, PTL
    DEF Spec, ImplementsSingleTransfer, SingleTransfers!Spec, Book, Due, Paid

-----------------------------------------------------------------------------
(* What bonus-move writes off                                              *)

\* Bonuses earned while a move had the user's row.
Extra == [v \in Users |-> IF InMove(v) THEN bonus[v] - mover.rows[v] ELSE 0]

\* A bonus in a move is at least what the move has read, and what is written off was
\* paid or came meanwhile.
MoveFine ==
  /\ \A v \in Users : InMove(v) => mover.rows[v] <= bonus[v]
  /\ account.written + SumFunction(Extra) + Open <= account.moved + account.raced
  /\ account.moved <= account.written + account.doubted + Open

LEMMA ExtraTyped ==
  ASSUME Purse, \A v \in Users : InMove(v) => mover.rows[v] <= bonus[v]
  PROVE  Extra \in [Users -> Nat] /\ SumFunction(Extra) \in Nat
<1>1. Extra \in [Users -> Nat]
  BY DEF Purse, Mover, Extra
<1> QED BY <1>1, TotalTyped, UsersFinite

\* The same after a step.
LEMMA ExtraTypedNext ==
  (Purse /\ (\A v \in Users : InMove(v) => mover.rows[v] <= bonus[v])
     => Extra \in [Users -> Nat] /\ SumFunction(Extra) \in Nat)'
<1>1. Purse /\ (\A v \in Users : InMove(v) => mover.rows[v] <= bonus[v])
        => Extra \in [Users -> Nat] /\ SumFunction(Extra) \in Nat
  BY ExtraTyped
<1> QED BY <1>1, PTL

\* Bonuses of a move whose rows go.
LEMMA ExtraFalls ==
  ASSUME Purse, Purse', MoveFine, bonus' = bonus,
         \A v \in Users : InMove(v)' => InMove(v) /\ mover'.rows[v] = mover.rows[v]
  PROVE  /\ \A v \in Users : InMove(v)' => mover'.rows[v] <= bonus'[v]
         /\ SumFunction(Extra)' <= SumFunction(Extra)
         /\ SumFunction(Extra) \in Nat /\ SumFunction(Extra)' \in Nat
<1>1. \A v \in Users : InMove(v)' => mover'.rows[v] <= bonus'[v]
  BY DEF MoveFine
<1>2. Extra \in [Users -> Nat] /\ Extra' \in [Users -> Nat]
      /\ SumFunction(Extra) \in Nat /\ SumFunction(Extra)' \in Nat
  BY <1>1, ExtraTyped, ExtraTypedNext DEF MoveFine
<1>3. \A v \in Users : Extra'[v] <= Extra[v]
  <2> SUFFICES ASSUME NEW v \in Users PROVE Extra'[v] <= Extra[v]
    OBVIOUS
  <2>1. Extra[v] = IF InMove(v) THEN bonus[v] - mover.rows[v] ELSE 0
    BY DEF Extra
  <2>2. Extra'[v] = IF InMove(v)' THEN bonus'[v] - mover'.rows[v] ELSE 0
    BY DEF Extra
  <2>3. Extra[v] \in Nat
    BY <1>2
  <2> QED BY <2>1, <2>2, <2>3
<1> DEFINE f == Extra'
           g == Extra
<1>4. f \in [Users -> Int] /\ g \in [Users -> Int] /\ \A v \in Users : f[v] <= g[v]
  BY <1>2, <1>3
<1> HIDE DEF f, g
<1>5. SumFunction(f) <= SumFunction(g)
  BY <1>4, TotalOrder, UsersFinite
<1> QED BY <1>1, <1>2, <1>5 DEF f, g

\* Bonuses are earned in a move.
LEMMA ExtraGrows ==
  ASSUME Purse, Purse', MoveFine, NEW earned, EarnedDoes(earned)
  PROVE  /\ \A v \in Users : InMove(v)' => mover'.rows[v] <= bonus'[v]
         /\ SumFunction(Extra)' = SumFunction(Extra) + SumFunction(RacedOf(earned))
         /\ SumFunction(Extra) \in Nat /\ SumFunction(RacedOf(earned)) \in Nat
<1>1. \A v \in Users : InMove(v)' <=> InMove(v)
  BY DEF EarnedDoes, InMove
<1>2. \A v \in Users : InMove(v)' => mover'.rows[v] <= bonus'[v]
  BY <1>1 DEF EarnedDoes, MoveFine, Purse, Mover
<1>3. /\ Extra \in [Users -> Nat] /\ Extra' \in [Users -> Nat] /\ SumFunction(Extra) \in Nat
  BY <1>2, ExtraTyped, ExtraTypedNext DEF MoveFine
<1> DEFINE f == Extra
           g == RacedOf(earned)
           h == Extra'
<1>4. f \in [Users -> Int] /\ g \in [Users -> Int] /\ h \in [Users -> Int]
  BY <1>3 DEF EarnedDoes
<1>5. \A v \in Users : h[v] = f[v] + g[v]
  <2> SUFFICES ASSUME NEW v \in Users PROVE h[v] = f[v] + g[v]
    OBVIOUS
  <2>1. f[v] = IF InMove(v) THEN bonus[v] - mover.rows[v] ELSE 0
    BY DEF Extra
  <2>2. h[v] = IF InMove(v)' THEN bonus'[v] - mover'.rows[v] ELSE 0
    BY DEF Extra
  <2>3. g[v] = IF InMove(v) THEN earned[v] ELSE 0
    BY DEF RacedOf
  <2>4. /\ bonus'[v] = bonus[v] + earned[v] /\ mover' = mover
        /\ bonus[v] \in Nat /\ earned[v] \in Nat /\ mover.rows[v] \in Nat
    BY DEF EarnedDoes, Purse, Mover
  <2> QED BY <1>1, <2>1, <2>2, <2>3, <2>4
<1>6. SumFunction(g) \in Nat
  BY TotalTyped, UsersFinite DEF EarnedDoes
<1> HIDE DEF f, g, h
<1>7. SumFunction(h) = SumFunction(f) + SumFunction(g)
  BY <1>4, <1>5, TotalPlus, UsersFinite
<1> QED BY <1>2, <1>3, <1>6, <1>7 DEF f, g, h

\* A row is written off with what came meanwhile.
LEMMA ExtraWritten ==
  ASSUME Purse, Purse', MoveFine, mover.pc = "write", mover.user \in Users, RowDone,
         bonus'[mover.user] = 0,
         \A v \in Users : v # mover.user => bonus'[v] = bonus[v]
  PROVE  /\ \A v \in Users : InMove(v)' => mover'.rows[v] <= bonus'[v]
         /\ SumFunction(Extra)' = SumFunction(Extra) - (bonus[mover.user] - mover.rows[mover.user])
         /\ SumFunction(Extra) \in Nat
<1>0. PICK u \in Users : u = mover.user
  OBVIOUS
<1>1. /\ mover'.pc = "next" /\ mover'.user = Nobody /\ mover'.rows[u] = 0
      /\ \A v \in Users : v # u => mover'.rows[v] = mover.rows[v]
      /\ Nobody \notin Users
  BY <1>0, RowDoneDoes, CollectorAssumption
<1>2. InMove(u) /\ ~InMove(u)'
  BY <1>0, <1>1 DEF InMove
<1>3. \A v \in Users : v # u => (InMove(v)' <=> InMove(v))
  BY <1>0, <1>1 DEF InMove
<1>4. \A v \in Users : InMove(v)' => mover'.rows[v] <= bonus'[v]
  BY <1>0, <1>1, <1>2, <1>3 DEF MoveFine
<1>5. /\ Extra \in [Users -> Nat] /\ Extra' \in [Users -> Nat] /\ SumFunction(Extra) \in Nat
  BY <1>4, ExtraTyped, ExtraTypedNext DEF MoveFine
<1> DEFINE f == Extra
           g == Extra'
<1>6. /\ f[u] = bonus[u] - mover.rows[u] /\ g[u] = 0
      /\ \A v \in Users \ {u} : g[v] = f[v]
  BY <1>0, <1>1, <1>2, <1>3 DEF Extra
<1>7. f \in [Users -> Int] /\ g \in [Users -> Int]
  BY <1>5
<1> HIDE DEF f, g
<1>8. SumFunction(g) = SumFunction(f) - f[u] + g[u]
  BY <1>1, <1>6, <1>7, TotalChange, UsersFinite
<1>9. SumFunction(f) \in Nat /\ f[u] \in Int
  BY <1>1, <1>5, <1>7 DEF f
<1>10. SumFunction(g) = SumFunction(f) - (bonus[u] - mover.rows[u])
  BY <1>6, <1>8, <1>9
<1> QED BY <1>0, <1>4, <1>5, <1>10 DEF f, g

\* A move that begins has what there is.
LEMMA ExtraNone ==
  ASSUME Purse, Purse', StartMoveDoes
  PROVE  /\ \A v \in Users : InMove(v)' => mover'.rows[v] <= bonus'[v]
         /\ SumFunction(Extra)' = 0
<1>1. \A v \in Users : mover'.rows[v] = bonus'[v] /\ bonus'[v] \in Nat
  BY DEF StartMoveDoes, Purse
<1>2. Extra' = [v \in Users |-> IF InMove(v)' THEN bonus'[v] - mover'.rows[v] ELSE 0]
  BY DEF Extra
<1> DEFINE f == Extra'
<1>3. f \in [Users -> Int] /\ \A v \in Users : f[v] = 0
  BY <1>1, <1>2
<1> HIDE DEF f
<1>4. SumFunction(f) = 0
  BY <1>3, TotalZero, UsersFinite
<1> QED BY <1>1, <1>4 DEF f

\* What bonus-move comes to write off, after a step.
LEMMA OpenNext ==
  ASSUME Purse'
  PROVE  /\ Open' \in Nat
         /\ mover'.pc = "write" => Open' = mover'.rows[mover'.user]
         /\ mover'.pc # "write" => Open' = 0
BY DEF Purse, Mover, Open

\* Every step.
LEMMA MoveFineBeside ==
  ASSUME Purse, Purse', MoveFine, BooksStep
  PROVE  MoveFine'
<1> USE OpenTyped, OpenNext
<1>0. account.moved \in Nat /\ account.written \in Nat /\ account.raced \in Nat
      /\ account.doubted \in Nat /\ Open \in Nat /\ Open' \in Nat
  BY DEF Purse, Account
<1>1. ASSUME NEW earned, EarnedDoes(earned) PROVE MoveFine'
  <2>1. Open' = Open
    BY <1>1 DEF EarnedDoes, Open
  <2> QED BY <1>0, <1>1, <2>1, ExtraGrows DEF EarnedDoes, MoveFine
<1>2. CASE UNCHANGED <<bonus, mover, account>>
  <2>1. Extra' = Extra /\ Open' = Open /\ \A v \in Users : InMove(v)' <=> InMove(v)
    BY <1>2 DEF Extra, Open, InMove
  <2> QED BY <1>2, <2>1 DEF MoveFine
<1>3. CASE StartMoveDoes
  <2>1. Open = 0 /\ Open' = 0 /\ SumFunction(Extra) \in Nat
    BY <1>3, ExtraTyped DEF StartMoveDoes, MoveFine
  <2> QED BY <1>0, <1>3, <2>1, ExtraNone DEF StartMoveDoes, MoveFine
<1>4. CASE NextRowDoes
  <2>1. Open = 0 /\ Open' = 0
    BY <1>4, NoMoveTyped DEF NextRowDoes
  <2>2. \A v \in Users : InMove(v)' => InMove(v) /\ mover'.rows[v] = mover.rows[v]
    BY <1>4, NoMoveTyped DEF NextRowDoes, InMove
  <2> QED BY <1>0, <1>4, <2>1, <2>2, ExtraFalls DEF NextRowDoes, MoveFine
<1>5. CASE WriteOffDoes
  <2>1. /\ mover'.pc = "next" /\ Open' = 0 /\ Open = mover.rows[mover.user]
        /\ mover.user \in Users /\ bonus[mover.user] \in Nat
    BY <1>5, RowDoneDoes DEF WriteOffDoes, Purse
  <2>2. CASE /\ bonus'[mover.user] = 0
             /\ \A v \in Users : v # mover.user => bonus'[v] = bonus[v]
             /\ Booked(account.moved, account.written + bonus[mover.user], account.doubted)
    <3>1. /\ \A v \in Users : InMove(v)' => mover'.rows[v] <= bonus'[v]
          /\ SumFunction(Extra)' =
               SumFunction(Extra) - (bonus[mover.user] - mover.rows[mover.user])
          /\ SumFunction(Extra) \in Nat
      BY <1>5, <2>2, ExtraWritten DEF WriteOffDoes
    <3>2. mover.rows[mover.user] <= bonus[mover.user]
      BY <1>5, <2>1 DEF WriteOffDoes, MoveFine, InMove
    <3> QED BY <1>0, <2>1, <2>2, <3>1, <3>2 DEF Booked, MoveFine
  <2>3. CASE bonus' = bonus
             /\ Booked(account.moved, account.written,
                       account.doubted + mover.rows[mover.user])
    <3>1. \A v \in Users : InMove(v)' => InMove(v) /\ mover'.rows[v] = mover.rows[v]
      BY <1>5, RowDoneDoes, CollectorAssumption DEF WriteOffDoes, InMove
    <3> QED BY <1>0, <2>1, <2>3, <3>1, ExtraFalls DEF Booked, MoveFine
  <2> QED BY <1>5, <2>2, <2>3 DEF WriteOffDoes
<1>6. CASE MoverDiesDoes
  <2>1. Open' = 0 /\ bonus' = bonus
    BY <1>6, NoMoveTyped DEF MoverDiesDoes
  <2>2. \A v \in Users : InMove(v)' => InMove(v) /\ mover'.rows[v] = mover.rows[v]
    BY <1>6, NoMoveTyped DEF MoverDiesDoes, InMove
  <2> QED BY <1>0, <1>6, <2>1, <2>2, ExtraFalls DEF MoverDiesDoes, Booked, MoveFine
<1> QED BY <1>1, <1>2, <1>3, <1>4, <1>5, <1>6 DEF BooksStep

LEMMA MoveFineMoved ==
  ASSUME Purse, Purse', MoveFine, NEW t, MoveDoes(t)
  PROVE  MoveFine'
<1>1. /\ mover.pc = "transfer" /\ mover.user \in Users /\ t.taken \in Nat
      /\ bonus' = bonus /\ Open = 0
  BY OpenTyped DEF MoveDoes
<1>2. account.moved \in Nat /\ account.written \in Nat /\ account.raced \in Nat
      /\ account.doubted \in Nat
  BY DEF Purse, Account
<1>3. CASE /\ t.taken = mover.rows[mover.user]
           /\ mover'.pc = "write" /\ mover'.user = mover.user /\ mover'.rows = mover.rows
           /\ Booked(account.moved + t.taken, account.written, account.doubted)
  <2>1. Open' = t.taken
    BY <1>3, OpenNext
  <2>2. \A v \in Users : InMove(v)' => InMove(v) /\ mover'.rows[v] = mover.rows[v]
    BY <1>1, <1>3 DEF InMove
  <2> QED BY <1>1, <1>2, <1>3, <2>1, <2>2, ExtraFalls DEF Booked, MoveFine
<1>4. CASE /\ RowDone
           /\ Booked(account.moved + t.taken, account.written, account.doubted + t.taken)
  <2>1. Open' = 0
    BY <1>1, <1>4, RowDoneDoes, OpenNext
  <2>2. \A v \in Users : InMove(v)' => InMove(v) /\ mover'.rows[v] = mover.rows[v]
    BY <1>1, <1>4, RowDoneDoes, CollectorAssumption DEF InMove
  <2> QED BY <1>1, <1>2, <1>4, <2>1, <2>2, ExtraFalls DEF Booked, MoveFine
<1> QED BY <1>3, <1>4 DEF MoveDoes

LEMMA NextMoveFine ==
  ASSUME IInv, Money, MoveFine, [Next]_vars
  PROVE  MoveFine'
<1>1. Typed /\ Typed' /\ Sums' /\ Purse /\ Purse'
  BY StepChanges, SumsNext, PurseNext DEF IInv, Money
<1>2. CASE BesideStep
  BY <1>1, <1>2, BesideBooks, MoveFineBeside
<1>3. CASE MoveTransfer
  BY <1>1, <1>3, MoveTransferPays, MoveFineMoved
<1>4. ASSUME NEW p \in Processes, ProcessStep(p) PROVE MoveFine'
  <2>1. UNCHANGED <<bonus, mover>> /\ (PaysOff \/ Cuts(p))
    BY <1>1, <1>4, ProcessBooks
  <2>2. /\ account'.moved = account.moved /\ account'.written = account.written
        /\ account'.raced = account.raced /\ account'.doubted = account.doubted
    BY <1>1, <2>1 DEF PaysOff, Cuts, Purse, Account
  <2>3. Extra' = Extra /\ Open' = Open /\ \A v \in Users : InMove(v)' <=> InMove(v)
    BY <2>1 DEF Extra, Open, InMove
  <2> QED BY <2>1, <2>2, <2>3 DEF MoveFine
<1> QED BY <1>2, <1>3, <1>4, StepIs

LEMMA InitMoveFine ==
  ASSUME Init
  PROVE  MoveFine
<1>1. /\ mover.pc = "idle" /\ account.written = 0 /\ account.moved = 0
      /\ account.raced = 0 /\ account.doubted = 0 /\ Open = 0
  BY NoMoveTyped DEF Init, Open
<1>2. \A v \in Users : ~InMove(v)
  BY <1>1 DEF InMove
<1>3. Extra \in [Users -> Int] /\ \A v \in Users : Extra[v] = 0
  BY <1>2 DEF Extra
<1>4. SumFunction(Extra) = 0
  BY <1>3, TotalZero, UsersFinite
<1> QED BY <1>1, <1>2, <1>4 DEF MoveFine

\* What bonus-move has read of a bonus is still there, and what it writes off was paid
\* or was earned meanwhile (bonus_move.go).
THEOREM MoveFineHolds == Spec => []MoveFine
BY InitMoveFine, NextMoveFine, PayoutsHold, MoneyHolds, PTL DEF Spec

\* bonus-move writes off what it paid, or a bonus earned while it had the row; what it
\* paid and did not write off is in doubt (bonus_move.go "Only on a successful transfer
\* is the row written off").
THEOREM MoveIsRecordedHolds == Spec => []MoveIsRecorded
<1>1. Money /\ MoveFine => MoveIsRecorded
  <2> SUFFICES ASSUME Money, MoveFine PROVE MoveIsRecorded
    OBVIOUS
  <2>1. SumFunction(Extra) \in Nat /\ Open \in Nat
    BY ExtraTyped, OpenTyped DEF MoveFine, Money
  <2>2. account.moved \in Nat /\ account.written \in Nat /\ account.raced \in Nat
    BY DEF Money, Purse, Account
  <2> QED BY <2>1, <2>2 DEF MoveFine, MoveIsRecorded
<1> QED BY <1>1, MoneyHolds, MoveFineHolds, PTL

-----------------------------------------------------------------------------
(* What is owed is covered                                                 *)

Owed == SumFunction(bonus) + Unpaid
Means == balance + due + account.doubted + account.astray + Open

\* Whoever comes to cut a batch cuts that of the slot it is.
SlotNow == \A q \in Processes : service[q].pc \in Early => service[q].slot = slot

\* A balance that was read is still there, unless a payment has come since.
ReadFine ==
  \A q \in Processes :
    service[q].pc = "liability" /\ ~service[q].crossed => service[q].balance <= balance

\* What a process is about to share out would be covered.
CutFine(q) ==
  service[q].pc = "insert" /\ ~service[q].crossed /\ batches[slot].status = "NONE"
    => Owed + Available(q) <= Means

Covered ==
  account.crossed \/ (Owed <= Means /\ \A q \in Processes : CutFine(q))

\* Both are naturals.
LEMMA OwedTyped ==
  ASSUME Typed, Purse, Sums
  PROVE  /\ SumFunction(bonus) \in Nat /\ Unpaid \in Nat /\ Owed \in Nat
         /\ balance \in Nat /\ due \in Nat /\ account.doubted \in Nat /\ Open \in Nat
         /\ account.astray \in Nat
         /\ Means \in Nat
BY BonusTotal, ReservedTyped, OpenTyped DEF Purse, Account, Owed, Means

LEMMA OwedTypedNext ==
  (Typed /\ Purse /\ Sums =>
     /\ SumFunction(bonus) \in Nat /\ Unpaid \in Nat /\ Owed \in Nat
     /\ balance \in Nat /\ due \in Nat /\ account.doubted \in Nat /\ Open \in Nat
     /\ account.astray \in Nat
     /\ Means \in Nat)'
<1>1. Typed /\ Purse /\ Sums =>
        /\ SumFunction(bonus) \in Nat /\ Unpaid \in Nat /\ Owed \in Nat
        /\ balance \in Nat /\ due \in Nat /\ account.doubted \in Nat /\ Open \in Nat
        /\ account.astray \in Nat
        /\ Means \in Nat
  BY OwedTyped
<1> QED BY <1>1, PTL

\* A step after which no more is owed than the means have grown by.
KeepsUp == Owed' + Means <= Owed + Means'

\* Totals of bonuses that are earned or written off.
LEMMA BonusEarned ==
  ASSUME Purse, NEW earned, EarnedDoes(earned)
  PROVE  /\ SumFunction(bonus)' = SumFunction(bonus) + SumFunction(earned)
         /\ SumFunction(earned) \in Nat
<1> DEFINE h == bonus'
<1>1. /\ bonus \in [Users -> Int] /\ earned \in [Users -> Int] /\ h \in [Users -> Int]
      /\ \A v \in Users : h[v] = bonus[v] + earned[v]
  BY DEF EarnedDoes, Purse
<1> HIDE DEF h
<1>2. SumFunction(h) = SumFunction(bonus) + SumFunction(earned)
  BY <1>1, TotalPlus, UsersFinite
<1>3. SumFunction(earned) \in Nat
  BY TotalTyped, UsersFinite DEF EarnedDoes
<1> QED BY <1>2, <1>3 DEF h

LEMMA BonusWritten ==
  ASSUME Purse, NEW u \in Users, bonus' \in [Users -> Nat], bonus'[u] = 0,
         \A v \in Users : v # u => bonus'[v] = bonus[v]
  PROVE  SumFunction(bonus)' = SumFunction(bonus) - bonus[u]
<1> DEFINE h == bonus'
<1>1. /\ bonus \in [Users -> Int] /\ h \in [Users -> Int] /\ h[u] = 0
      /\ \A v \in Users \ {u} : h[v] = bonus[v]
  BY DEF Purse
<1> HIDE DEF h
<1>2. SumFunction(h) = SumFunction(bonus) - bonus[u] + h[u]
  BY <1>1, TotalChange, UsersFinite
<1>3. SumFunction(bonus) \in Nat /\ bonus[u] \in Nat
  BY BonusTotal DEF Purse
<1> QED BY <1>1, <1>2, <1>3 DEF h

\* Steps beside the processes.
LEMMA BesideKeepsUp ==
  ASSUME Typed, Typed', Purse, Purse', Sums, Sums', MoveFine, BooksStep, Unpaid' = Unpaid
  PROVE  KeepsUp
<1>1. /\ SumFunction(bonus) \in Nat /\ Unpaid \in Nat /\ Owed \in Nat
      /\ balance \in Nat /\ due \in Nat /\ account.doubted \in Nat /\ Open \in Nat
      /\ account.astray \in Nat
      /\ Means \in Nat
  BY OwedTyped
<1>2. /\ Owed = SumFunction(bonus) + Unpaid /\ Owed' = SumFunction(bonus)' + Unpaid
      /\ Means = balance + due + account.doubted + account.astray + Open
      /\ Means' = balance' + due' + account'.doubted + account'.astray + Open'
  BY DEF Owed, Means
<1>3. /\ Open' \in Nat
      /\ mover'.pc # "write" => Open' = 0
      /\ mover.pc = "write" => Open = mover.rows[mover.user]
      /\ mover.pc # "write" => Open = 0
  BY OpenTyped, OpenNext
<1>4. ASSUME NEW earned, EarnedDoes(earned) PROVE KeepsUp
  <2>1. /\ SumFunction(bonus)' = SumFunction(bonus) + SumFunction(earned)
        /\ SumFunction(earned) \in Nat
    BY <1>4, BonusEarned
  <2>2. /\ Open' = Open /\ account'.doubted = account.doubted /\ balance' = balance
        /\ due' \in Nat /\ account'.astray \in Nat
        /\ due + account.astray + SumFunction(earned) <= due' + account'.astray
    BY <1>4 DEF EarnedDoes, Open
  <2> QED BY <1>1, <1>2, <2>1, <2>2 DEF KeepsUp
<1>5. CASE balance' = balance + due /\ due' = 0 /\ UNCHANGED <<bonus, mover, account>>
  <2>1. Open' = Open /\ SumFunction(bonus)' = SumFunction(bonus)
    BY <1>5 DEF Open
  <2> QED BY <1>1, <1>2, <1>5, <2>1 DEF KeepsUp
<1>6. CASE UNCHANGED <<balance, due, bonus, account>> /\ Open' = Open
  BY <1>1, <1>2, <1>6 DEF KeepsUp
<1>7. CASE StartMoveDoes \/ NextRowDoes
  <2>1. Open = 0 /\ Open' = 0 /\ UNCHANGED <<balance, due, bonus, account>>
    BY <1>3, <1>7, NoMoveTyped DEF StartMoveDoes, NextRowDoes
  <2> QED BY <1>6, <2>1
<1>8. CASE MoverDiesDoes
  <2>1. /\ Open' = 0 /\ UNCHANGED <<balance, due, bonus>>
        /\ account'.doubted = account.doubted + Open /\ account'.astray = account.astray
    BY <1>3, <1>8, NoMoveTyped DEF MoverDiesDoes, Booked
  <2> QED BY <1>1, <1>2, <2>1 DEF KeepsUp
<1>9. CASE WriteOffDoes
  <2>1. /\ mover.pc = "write" /\ mover.user \in Users /\ mover'.pc = "next"
        /\ balance' = balance /\ due' = due /\ account'.astray = account.astray
    BY <1>9, RowDoneDoes DEF WriteOffDoes, Booked
  <2>2. Open = mover.rows[mover.user] /\ Open' = 0
    BY <1>3, <2>1
  <2>3. CASE /\ bonus' \in [Users -> Nat] /\ bonus'[mover.user] = 0
             /\ \A v \in Users : v # mover.user => bonus'[v] = bonus[v]
             /\ account'.doubted = account.doubted
    <3>1. PICK u \in Users : u = mover.user
      BY <2>1
    <3>2. SumFunction(bonus)' = SumFunction(bonus) - bonus[u] /\ bonus[u] \in Nat
      BY <2>3, <3>1, BonusWritten DEF Purse
    <3>3. Open <= bonus[u]
      BY <2>1, <2>2, <3>1 DEF MoveFine, InMove
    <3> QED BY <1>1, <1>2, <2>1, <2>2, <2>3, <3>2, <3>3 DEF KeepsUp
  <2>4. CASE bonus' = bonus /\ account'.doubted = account.doubted + mover.rows[mover.user]
    BY <1>1, <1>2, <2>1, <2>2, <2>4 DEF KeepsUp
  <2> QED BY <1>9, <2>3, <2>4 DEF WriteOffDoes, Booked
<1>10. CASE UNCHANGED <<balance, due, bonus, mover, account>>
  BY <1>6, <1>10 DEF Open
<1> QED BY <1>4, <1>5, <1>7, <1>8, <1>9, <1>10 DEF BooksStep

\* A move takes from the balance what it comes to write off, or doubts.
LEMMA MovedKeepsUp ==
  ASSUME Typed, Typed', Purse, Purse', Sums, Sums', NEW t, MoveDoes(t), Unpaid' = Unpaid
  PROVE  KeepsUp
<1>1. /\ SumFunction(bonus) \in Nat /\ Unpaid \in Nat /\ Owed \in Nat
      /\ balance \in Nat /\ due \in Nat /\ account.doubted \in Nat /\ Open \in Nat
      /\ account.astray \in Nat
      /\ Means \in Nat
  BY OwedTyped
<1>2. /\ Owed = SumFunction(bonus) + Unpaid /\ Owed' = SumFunction(bonus)' + Unpaid
      /\ Means = balance + due + account.doubted + account.astray + Open
      /\ Means' = balance' + due' + account'.doubted + account'.astray + Open'
  BY DEF Owed, Means
<1>3. /\ Open = 0 /\ t.taken \in Nat /\ balance' = balance - t.taken
      /\ SumFunction(bonus)' = SumFunction(bonus) /\ due' = due
      /\ account'.astray = account.astray
  BY OpenTyped DEF MoveDoes, Booked
<1>4. \/ Open' = t.taken /\ account'.doubted = account.doubted
      \/ Open' = 0 /\ account'.doubted = account.doubted + t.taken
  BY RowDoneDoes, OpenNext DEF MoveDoes, Booked
<1> QED BY <1>1, <1>2, <1>3, <1>4 DEF KeepsUp

\* So does a payment of a share, and every other step of a process but a cut.
LEMMA PaidKeepsUp ==
  ASSUME Typed, Typed', Purse, Purse', Sums, Sums', UNCHANGED <<due, bonus, mover>>, PaysOff
  PROVE  KeepsUp
<1>1. /\ SumFunction(bonus) \in Nat /\ Unpaid \in Nat /\ Owed \in Nat
      /\ balance \in Nat /\ due \in Nat /\ account.doubted \in Nat /\ Open \in Nat
      /\ account.astray \in Nat
      /\ Means \in Nat
  BY OwedTyped
<1>2. /\ Owed = SumFunction(bonus) + Unpaid /\ Owed' = SumFunction(bonus) + Unpaid'
      /\ Means = balance + due + account.doubted + account.astray + Open
      /\ Means' = balance' + due + account'.doubted + account'.astray + Open
  BY DEF Owed, Means, Open
<1>3. Unpaid' \in Nat
  BY OwedTypedNext
<1>4. PICK taken \in Nat :
        /\ balance' = balance - taken /\ Unpaid' + taken <= Unpaid /\ account' = account
  BY DEF PaysOff
<1> DEFINE v == Unpaid'
<1> HIDE DEF v
<1>5. Owed' = SumFunction(bonus) + v /\ v \in Nat /\ v + taken <= Unpaid
  BY <1>2, <1>3, <1>4 DEF v
<1>6. SumFunction(bonus) + v + Means <= Owed + Means'
  BY <1>1, <1>2, <1>4, <1>5
<1> QED BY <1>5, <1>6 DEF KeepsUp

\* Whoever is before a cut is at the slot it is.
LEMMA NextSlotNow ==
  ASSUME Typed, Typed', Money, SlotNow, [Next]_vars
  PROVE  SlotNow'
<1> SUFFICES ASSUME NEW q \in Processes, service'[q].pc \in Early
             PROVE  service'[q].slot = slot'
  BY DEF SlotNow
<1>1. BeginCutoff(q) \/ ReadBalance(q) \/ ReadLiability(q) \/ Stayed(q)
  BY EarlyStays
<1>2. CASE slot' = slot
  <2>1. service'[q].slot = slot
    BY <1>1, ReadingsLeave DEF Stayed, SlotNow, Early
  <2> QED BY <1>2, <2>1
<1>3. CASE Tick
  <2>1. service'[q].pc \in {"idle", "down"}
    BY <1>3 DEF Tick
  <2> QED BY <2>1 DEF Early
<1>4. slot' = slot \/ Tick
  <2>1. ASSUME NEW p \in Processes, ProcessStep(p) PROVE slot' = slot
    BY <2>1, MoneyUntouched
  <2>2. MoveTransfer => slot' = slot
    BY DEF MoveTransfer, moving
  <2>3. BesideStep => slot' = slot \/ Tick
    BY DEF BesideStep, FeesArrive, Accrues, Accrue, AccrueForeign, accruing, AskClaim, ClaimBonus, StartMove, NextRow,
      WriteOff, MoverDies, vars, claiming, moving
  <2> QED BY <2>1, <2>2, <2>3, StepIs
<1> QED BY <1>2, <1>3, <1>4

\* A balance that was read is there.
LEMMA NextReadFine ==
  ASSUME Typed, Money, Purse', ReadFine, [Next]_vars
  PROVE  ReadFine'
<1> SUFFICES ASSUME NEW q \in Processes, service'[q].pc = "liability", ~service'[q].crossed
             PROVE  service'[q].balance <= balance'
  BY DEF ReadFine
<1>0. balance \in Nat /\ balance' \in Nat
  BY DEF Money, Purse
<1>1. BeginCutoff(q) \/ ReadBalance(q) \/ ReadLiability(q) \/ Stayed(q)
  BY EarlyStays DEF Early
<1>2. CASE BeginCutoff(q) \/ ReadLiability(q)
  BY <1>2, ReadingsLeave DEF Early
<1>3. CASE ReadBalance(q)
  <2>1. balance' = balance
    BY <1>3 DEF ReadBalance, Stays
  <2> QED BY <1>0, <1>3, <2>1, ReadingsLeave
<1>4. CASE Stayed(q)
  <2>1. /\ service[q].pc = "liability" /\ ~service[q].crossed /\ balance <= balance'
        /\ service'[q].balance = service[q].balance /\ Read(q)
    BY <1>4 DEF Stayed, Money
  <2>2. service[q].balance <= balance /\ service[q].balance \in Nat
    BY <2>1 DEF ReadFine, Read
  <2> QED BY <1>0, <2>1, <2>2
<1> QED BY <1>1, <1>2, <1>3, <1>4

\* What a process has available when it has read its liabilities is covered.
LEMMA ReadIsCovered ==
  ASSUME Typed, Typed', Money, Purse', Sums', ReadFine, Owed <= Means,
         NEW q \in Processes, ReadLiability(q), ~service'[q].crossed
  PROVE  Owed' + Available(q)' <= Means'
<1>1. /\ SumFunction(bonus) \in Nat /\ Unpaid \in Nat /\ Owed \in Nat
      /\ balance \in Nat /\ due \in Nat /\ account.doubted \in Nat /\ Open \in Nat
      /\ account.astray \in Nat
      /\ Means \in Nat
  BY OwedTyped DEF Money
<1>2. PayoutsIn(Reserved) \in Nat /\ Unpaid <= PayoutsIn(Reserved)
  BY ReservedTyped DEF Money
<1>3. UNCHANGED <<bonus, batches, balance, due, account, mover>>
  BY DEF ReadLiability, serving, Stays
<1>4. Owed' = Owed /\ Means' = Means
  BY <1>3 DEF Owed, Means, Unpaid, Open
<1>5. /\ service'[q].balance = service[q].balance /\ service[q].balance \in Nat
      /\ service'[q].liability = SumFunction(bonus) + PayoutsIn(Reserved)
      /\ service[q].balance <= balance
  BY ReadingsLeave DEF ReadFine, Money, Read
<1> DEFINE kept == PayoutsIn(Reserved)
           read == service[q].balance
           total == SumFunction(bonus)
<1>6. Available(q)' = IF read > total + kept THEN read - (total + kept) ELSE 0
  BY <1>5 DEF Available
<1>7. /\ Owed = total + Unpaid /\ Means = balance + due + account.doubted + account.astray + Open
  BY DEF Owed, Means
<1>8. read \in Nat /\ read <= balance /\ kept \in Nat /\ Unpaid <= kept /\ total \in Nat
  BY <1>1, <1>2, <1>5
<1> HIDE DEF kept, read, total
<1>9. CASE read > total + kept
  <2>1. Available(q)' = read - (total + kept)
    BY <1>6, <1>9
  <2>2. Owed + (read - (total + kept)) <= Means
    BY <1>1, <1>7, <1>8, <1>9
  <2> QED BY <1>4, <2>1, <2>2
<1>10. CASE ~(read > total + kept)
  <2>1. Available(q)' = 0 /\ Owed + 0 <= Means
    BY <1>1, <1>6, <1>10
  <2> QED BY <1>4, <2>1
<1> QED BY <1>9, <1>10

\* Steps that cut no batch.
LEMMA KeptCovered ==
  ASSUME Typed, Typed', Money, Purse', Sums', SlotNow, ReadFine, Covered, [Next]_vars,
         KeepsUp, account'.crossed = account.crossed,
         \A s \in 1..Slots : batches'[s].status = "NONE" => batches[s].status = "NONE"
  PROVE  Covered'
<1> SUFFICES ASSUME ~account.crossed PROVE Covered'
  BY DEF Covered
<1>1. Owed \in Nat /\ Means \in Nat /\ Owed' \in Nat /\ Means' \in Nat
  BY OwedTyped, OwedTypedNext DEF Money
<1>2. Owed <= Means /\ \A q \in Processes : CutFine(q)
  BY DEF Covered
<1> DEFINE owed == Owed'
           means == Means'
<1>5. owed \in Nat /\ means \in Nat /\ owed + Means <= Owed + means
  BY <1>1 DEF KeepsUp
<1> HIDE DEF owed, means
<1>6. owed <= means
  BY <1>1, <1>2, <1>5
<1>3. Owed' <= Means'
  BY <1>6 DEF owed, means
<1>4. ASSUME NEW q \in Processes, service'[q].pc = "insert", ~service'[q].crossed,
             batches'[slot'].status = "NONE"
      PROVE  Owed' + Available(q)' <= Means'
  <2>1. BeginCutoff(q) \/ ReadBalance(q) \/ ReadLiability(q) \/ Stayed(q)
    BY <1>4, EarlyStays DEF Early
  <2>2. CASE BeginCutoff(q) \/ ReadBalance(q)
    BY <1>4, <2>2, ReadingsLeave DEF Early
  <2>3. CASE ReadLiability(q)
    BY <1>2, <1>4, <2>3, ReadIsCovered
  <2>4. CASE Stayed(q)
    <3>1. /\ service[q].pc = "insert" /\ ~service[q].crossed
          /\ service'[q].slot = service[q].slot
          /\ service'[q].balance = service[q].balance
          /\ service'[q].liability = service[q].liability
      BY <1>4, <2>4 DEF Stayed
    <3>2. slot' = slot
      BY <1>4, <3>1, NextSlotNow DEF SlotNow, Early
    <3>3. batches[slot].status = "NONE"
      BY <1>4, <3>2 DEF Typed
    <3>4. Owed + Available(q) <= Means
      BY <1>2, <3>1, <3>3 DEF CutFine
    <3>5. Available(q) \in Nat /\ Available(q)' = Available(q)
      BY <3>1, AvailableTyped DEF Available
    <3> QED BY <1>1, <3>4, <3>5 DEF KeepsUp
  <2> QED BY <2>1, <2>2, <2>3, <2>4
<1> QED BY <1>3, <1>4 DEF Covered, CutFine

\* A batch is cut: what was available is owed now, and covered.
LEMMA CutCovered ==
  ASSUME Typed, Typed', Money, Purse', Sums', SlotNow, Covered, [Next]_vars,
         NEW p \in Processes, ProcessStep(p), Cuts(p), UNCHANGED <<due, bonus, mover>>
  PROVE  Covered'
<1>1. account'.crossed = (account.crossed \/ service[p].crossed)
      /\ account'.doubted = account.doubted /\ account'.astray = account.astray
  <2> DEFINE c == account.crossed \/ service[p].crossed
  <2>1. account' = [account EXCEPT !.crossed = c]
    BY DEF Cuts
  <2> HIDE DEF c
  <2>2. /\ account'.crossed = c /\ account'.doubted = account.doubted
        /\ account'.astray = account.astray
    BY <2>1 DEF Money, Purse, Account
  <2> QED BY <2>2 DEF c
<1> SUFFICES ASSUME ~account.crossed, ~service[p].crossed PROVE Covered'
  BY <1>1 DEF Covered
<1>2. service[p].pc = "insert" /\ service[p].slot = slot
  BY DEF Cuts, SlotNow, Early
<1>3. batches[slot].status = "NONE" /\ batches'[slot].status # "NONE" /\ slot' = slot
  BY <1>2, MoneyUntouched DEF Cuts
<1>4. Owed + Available(p) <= Means
  BY <1>2, <1>3 DEF Covered, CutFine
<1>5. Owed' = Owed + Available(p)
  <2>1. SumFunction(bonus) \in Nat /\ Unpaid \in Nat /\ Available(p) \in Nat
    BY OwedTyped DEF Money, Cuts
  <2>2. Owed' = SumFunction(bonus) + Unpaid' /\ Unpaid' = Unpaid + Available(p)
    BY DEF Owed, Cuts
  <2>3. Owed' = SumFunction(bonus) + (Unpaid + Available(p))
    BY <2>2
  <2> QED BY <2>1, <2>3 DEF Owed
<1>6. Means' = Means
  BY <1>1 DEF Means, Open, Cuts
<1>7. \A q \in Processes : CutFine(q)'
  BY <1>3 DEF CutFine
<1>8. Owed' <= Means'
  BY <1>4, <1>5, <1>6
<1> QED BY <1>7, <1>8 DEF Covered

\* What the collector owes it has, in every state.
CutInv == SlotNow /\ ReadFine /\ Covered

LEMMA NextCutInv ==
  ASSUME IInv, Money, MoveFine, CutInv, [Next]_vars
  PROVE  CutInv'
<1>1. Typed /\ Typed' /\ Sums /\ Sums' /\ Purse /\ Purse'
  BY StepChanges, SumsNext, PurseNext DEF IInv, Money
<1>2. SlotNow' /\ ReadFine'
  BY <1>1, NextSlotNow, NextReadFine DEF CutInv
<1>3. \A s \in 1..Slots : batches'[s].status = "NONE" => batches[s].status = "NONE"
  <2>1. ASSUME NEW t, NEW i, Touches(t, i)
        PROVE  \A s \in 1..Slots : batches'[s].status = batches[s].status
    BY <2>1 DEF Touches
  <2>2. ASSUME NEW p \in Processes,
               \/ Walks(p) \/ Inserts(p) \/ Takes(p) \/ Pays(p)
               \/ Records(p) \/ Restarts(p)
        PROVE  \A s \in 1..Slots : batches'[s].status = "NONE" => batches[s].status = "NONE"
    <3>1. CASE Walks(p)
      BY <3>1 DEF Walks
    <3>2. CASE Inserts(p)
      BY <3>2 DEF Inserts
    <3>3. CASE Takes(p) \/ Pays(p) \/ Records(p)
      BY <2>1, <3>3 DEF Takes, Pays, Records
    <3>5. CASE Restarts(p)
      BY <3>5 DEF Restarts
    <3> QED BY <2>2, <3>1, <3>2, <3>3, <3>5
  <2> QED BY <1>1, <2>2, StepChanges DEF Change, Quiet
<1>4. ASSUME KeepsUp, account'.crossed = account.crossed PROVE Covered'
  BY <1>1, <1>3, <1>4, KeptCovered DEF CutInv
<1>5. CASE BesideStep
  <2>1. BooksStep
    BY <1>1, <1>5, BesideBooks
  <2>2. batches' = batches
    BY <1>5 DEF BesideStep, Tick, FeesArrive, Accrues, Accrue, AccrueForeign, accruing, AskClaim, ClaimBonus,
      StartMove, NextRow, WriteOff, MoverDies, vars, claiming, moving
  <2>3. Unpaid' = Unpaid
    BY <2>2, UnpaidIs, UnpaidIsNext
  <2>4. account'.crossed = account.crossed
    BY <2>1 DEF BooksStep, EarnedDoes, StartMoveDoes, NextRowDoes, WriteOffDoes,
      MoverDiesDoes, Booked
  <2> QED BY <1>1, <1>2, <1>4, <2>1, <2>3, <2>4, BesideKeepsUp DEF CutInv
<1>6. CASE MoveTransfer
  <2>1. PICK t : MoveDoes(t)
    BY <1>1, <1>6, MoveTransferPays
  <2>2. batches' = batches
    BY <1>6 DEF MoveTransfer, moving
  <2>3. Unpaid' = Unpaid
    BY <2>2, UnpaidIs, UnpaidIsNext
  <2>4. account'.crossed = account.crossed
    BY <2>1 DEF MoveDoes, Booked
  <2> QED BY <1>1, <1>2, <1>4, <2>1, <2>3, <2>4, MovedKeepsUp DEF CutInv
<1>7. ASSUME NEW p \in Processes, ProcessStep(p) PROVE CutInv'
  <2>1. UNCHANGED <<due, bonus, mover>> /\ (PaysOff \/ Cuts(p))
    BY <1>1, <1>7, ProcessBooks
  <2>2. CASE PaysOff
    <3>1. account'.crossed = account.crossed
      BY <2>2 DEF PaysOff
    <3> QED BY <1>1, <1>2, <1>4, <2>1, <2>2, <3>1, PaidKeepsUp DEF CutInv
  <2>3. CASE Cuts(p)
    BY <1>1, <1>2, <1>7, <2>1, <2>3, CutCovered DEF CutInv
  <2> QED BY <2>1, <2>2, <2>3
<1> QED BY <1>5, <1>6, <1>7, StepIs

LEMMA InitCutInv ==
  ASSUME Init
  PROVE  CutInv
<1>1. \A q \in Processes : service[q].pc = "idle"
  BY StartedTyped DEF Init
<1>2. Typed /\ Money
  BY InitTyped, InitMoney
<1>3. SumFunction(bonus) = 0
  <2>1. bonus \in [Users -> Int] /\ \A u \in Users : bonus[u] = 0
    BY DEF Init
  <2> QED BY <2>1, TotalZero, UsersFinite
<1>4. Unpaid = 0
  <2>1. \A s \in 1..Slots : Sound(batches[s]) /\ batches[s].status = "NONE"
    BY <1>2, BatchesSound DEF Money, Init, NoBatch
  <2>2. OwingIn(batches) \in [1..Slots -> Int]
        /\ \A s \in 1..Slots : OwingIn(batches)[s] = 0
    BY <2>1, UnpaidTyped, OwingTyped DEF OwingIn
  <2> DEFINE f == OwingIn(batches)
  <2> HIDE DEF f
  <2>3. f \in [1..Slots -> Int] /\ \A s \in 1..Slots : f[s] = 0
    BY <2>2 DEF f
  <2>4. SumFunction(f) = 0
    BY <2>3, SlotsFinite, TotalZero
  <2> QED BY <2>4, UnpaidIs DEF f
<1>5. Owed = 0
  BY <1>3, <1>4 DEF Owed
<1>6. Means \in Nat
  BY <1>2, OwedTyped DEF Money
<1>7. Owed <= Means
  BY <1>5, <1>6
<1> QED BY <1>1, <1>7 DEF CutInv, SlotNow, ReadFine, Covered, CutFine, Early

\* What the collector owes in a coin, bonuses and shares not yet paid, it has or is to
\* receive, but for what bonus-move paid and did not write off and the fees booked in
\* another coin, as long as no batch is cut from readings with a payment in between
\* (service.go cutoffCoin, ledger.go AccrueSessionFees).
THEOREM CutoffCoveredHolds == Spec => []CutoffCovered
<1>1. Spec => []CutInv
  BY InitCutInv, NextCutInv, PayoutsHold, MoneyHolds, MoveFineHolds, PTL DEF Spec
<1>2. CutInv => CutoffCovered
  BY DEF CutInv, Covered, Owed, Means, CutoffCovered, Covers
<1> QED BY <1>1, <1>2, PTL
=============================================================================
