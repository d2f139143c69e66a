--------------------------- MODULE FeeLedgerProofs ---------------------------
(***************************************************************************)
(* Proofs about FeeLedger, for any number of processes, users and payouts: *)
(* types; the provider moves the money of a payout at most once; and, when *)
(* one process lives at a time, every open payout is covered and no fee is *)
(* counted twice on its way; and that a payout is a SingleTransfer.        *)
(***************************************************************************)
EXTENDS FeeLedger, SumLemmas

Sending == {"transfer", "review", "record"}

\* A dispatch has a job at hand exactly while it is about to move its money, to
\* record it or to give it to review.
JobAtHand == \A w \in Workers :
  dispatch[w].sending \in Payouts <=> dispatch[w].pc \in Sending

Typed == TypeOK /\ JobAtHand

-----------------------------------------------------------------------------
(* Types *)

\* Every field of a typed dispatch is typed.
LEMMA DispatchFields ==
  ASSUME TypeOK, NEW w \in Workers
  PROVE  /\ dispatch[w].pc \in DispatchPC
         /\ Seen(w) \in [Users -> Nat]
         /\ Jobs(w) \in [Payouts -> Nat]
         /\ Job(w) \in Payouts \cup {None}
  BY DEF TypeOK, Dispatch, Seen, Jobs, Job

\* A dispatch that moves on is typed and has a job at hand when it should.
LEMMA GotoTyped ==
  ASSUME Typed, NEW w \in Workers, NEW pc \in DispatchPC,
         NEW seen \in [Users -> Nat], NEW jobs \in [Payouts -> Nat],
         NEW job \in Payouts \cup {None}, Goto(w, pc, seen, jobs, job),
         job \in Payouts <=> pc \in Sending
  PROVE  /\ dispatch' \in [Workers -> Dispatch]
         /\ JobAtHand'
<1> DEFINE d == [pc |-> pc, seen |-> seen, jobs |-> jobs, sending |-> job]
<1>1. d \in Dispatch
  BY DEF Dispatch
<1>2. /\ dispatch \in [Workers -> Dispatch]
      /\ dispatch' = [dispatch EXCEPT ![w] = d]
  BY DEF Goto, Typed, TypeOK
<1>3. dispatch' \in [Workers -> Dispatch]
  BY <1>1, <1>2
<1>4. dispatch'[w] = d /\ \A v \in Workers \ {w} : dispatch'[v] = dispatch[v]
  BY <1>2
<1>5. d.pc = pc /\ d.sending = job
  OBVIOUS
<1> HIDE DEF d
<1>6. JobAtHand'
  BY <1>4, <1>5 DEF Typed, JobAtHand
<1> QED BY <1>3, <1>6

\* A dispatch that ends is typed and has no job at hand.
LEMMA IdleTyped ==
  ASSUME Typed, NEW w \in Workers, dispatch' = [dispatch EXCEPT ![w] = IdleDispatch]
  PROVE  /\ dispatch' \in [Workers -> Dispatch]
         /\ JobAtHand'
<1>1. Goto(w, "idle", [u \in Users |-> 0], NoJobs, None)
  BY DEF Goto, IdleDispatch
<1>2. NoJobs \in [Payouts -> Nat] /\ [u \in Users |-> 0] \in [Users -> Nat]
  BY DEF NoJobs
<1> QED BY <1>1, <1>2, GotoTyped, FeeAssumption DEF DispatchPC, Sending

\* Every step keeps the types and the job at hand (Next of the code's two loops).
LEMMA TypedStep == Typed /\ [Next]_vars => Typed'
<1> SUFFICES ASSUME TypeOK, JobAtHand, [Next]_vars PROVE TypeOK' /\ JobAtHand'
  BY DEF Typed
<1> USE FeeAssumption
<1>1. ASSUME NEW w \in Workers, Boot(w) PROVE TypeOK' /\ JobAtHand'
  <2>1. payout' \in [Payouts -> Payout]
    <3>1. \A p \in Payouts : [payout[p] EXCEPT !.status = "REVIEW_REQUIRED"] \in Payout
      BY DEF TypeOK, Payout, PayoutStatus, Unresolved
    <3>2. SentSetAside \in [Payouts -> Payout]
      BY <3>1 DEF SentSetAside, TypeOK
    <3> QED BY <1>1, <3>2 DEF Boot, TypeOK
  <2>2. faults' \in 0..MaxFaults
    BY <1>1 DEF Boot, Fault, TypeOK
  <2> QED BY <1>1, <2>1, <2>2 DEF Boot, accrual, TypeOK, JobAtHand
<1>2. ASSUME NEW w \in Workers, Crash(w) PROVE TypeOK' /\ JobAtHand'
  <2>1. dispatch' \in [Workers -> Dispatch] /\ JobAtHand'
    BY <1>2, IdleTyped DEF Crash, Typed
  <2>2. NoFees \in SessionFees /\ NoBatch \in [Flushes -> SessionFees]
    BY DEF NoFees, NoBatch, SessionFees
  <2> QED BY <1>2, <2>1, <2>2 DEF Crash, TypeOK
<1>3. ASSUME NEW w \in Workers, FlushStep(w) PROVE TypeOK' /\ JobAtHand'
  <2>1. PICK f \in Flushes : FlushPendingFees(w, f) \/ AccrueSessionFees(w, f)
    BY <1>3 DEF FlushStep
  <2>2. NoFees \in SessionFees /\ buffer[w] \in SessionFees /\ batch[w][f] \in SessionFees
    BY DEF NoFees, SessionFees, TypeOK
  <2>3. batch' \in [Workers -> [Flushes -> SessionFees]]
    <3>1. \E fees \in SessionFees : batch' = [batch EXCEPT ![w][f] = fees]
      BY <2>1, <2>2 DEF FlushPendingFees, AccrueSessionFees
    <3>2. batch \in [Workers -> [Flushes -> SessionFees]]
      BY DEF TypeOK
    <3> QED BY <3>1, <3>2
  <2>4. buffer' \in [Workers -> SessionFees]
    BY <2>1, <2>2 DEF FlushPendingFees, AccrueSessionFees, EmptiedBuffer, TypeOK
  <2>5. batch[w][f].fees \in Nat
    BY <2>2 DEF SessionFees
  <2>6. pending' \in [Users -> Nat] /\ faults' \in 0..MaxFaults
    BY <2>1, <2>5 DEF FlushPendingFees, AccrueSessionFees, Fault, TypeOK
  <2> QED BY <2>1, <2>3, <2>4, <2>6
      DEF FlushPendingFees, AccrueSessionFees, paying, TypeOK, JobAtHand
<1>4. ASSUME NEW w \in Workers, DispatchStep(w) PROVE TypeOK' /\ JobAtHand'
  <2> USE DEF Typed
  <2>1. CASE ReadFees(w)
    <3>1. Goto(w, "insert", pending, NoJobs, None)
      BY <2>1 DEF ReadFees
    <3>2. pending \in [Users -> Nat] /\ NoJobs \in [Payouts -> Nat]
      BY DEF TypeOK, NoJobs
    <3>3. dispatch' \in [Workers -> Dispatch] /\ JobAtHand'
      BY <3>1, <3>2, GotoTyped DEF DispatchPC, Sending
    <3> QED BY <2>1, <3>3 DEF ReadFees, accrual, TypeOK
  <2>2. CASE InsertPayout(w)
    <3>1. PICK u \in Users :
            \/ \E p \in Payouts :
                 /\ payout' = [payout EXCEPT ![p] =
                      [user |-> u, amount |-> Seen(w)[u], status |-> "PREPARED"]]
                 /\ Goto(w, "insert", [Seen(w) EXCEPT ![u] = 0],
                         [Jobs(w) EXCEPT ![p] = @ + 1], None)
            \/ /\ Goto(w, "insert", [Seen(w) EXCEPT ![u] = 0], Jobs(w), None)
               /\ UNCHANGED payout
      BY <2>2 DEF InsertPayout
    <3>2. [Seen(w) EXCEPT ![u] = 0] \in [Users -> Nat] /\ Seen(w)[u] \in Nat
      BY DispatchFields
    <3>3. \A p \in Payouts : [Jobs(w) EXCEPT ![p] = @ + 1] \in [Payouts -> Nat]
      BY DispatchFields
    <3>4. dispatch' \in [Workers -> Dispatch] /\ JobAtHand'
      BY <3>1, <3>2, <3>3, DispatchFields, GotoTyped, FeeAssumption DEF DispatchPC, Sending
    <3>5. [user |-> u, amount |-> Seen(w)[u], status |-> "PREPARED"] \in Payout
      BY <3>2 DEF Payout, PayoutStatus, Unresolved
    <3>6. payout' \in [Payouts -> Payout]
      BY <3>1, <3>5 DEF TypeOK
    <3> QED BY <2>2, <3>4, <3>6 DEF InsertPayout, accrual, TypeOK
  <2>3. CASE ReadPrepared(w)
    <3>1. AllJobs(w) \in [Payouts -> Nat]
      BY DispatchFields DEF AllJobs
    <3>2. dispatch' \in [Workers -> Dispatch] /\ JobAtHand'
      BY <2>3, <3>1, DispatchFields, GotoTyped DEF ReadPrepared, DispatchPC, Sending
    <3> QED BY <2>3, <3>2 DEF ReadPrepared, accrual, TypeOK
  <2>4. CASE MarkSent(w)
    <3>1. PICK p \in Payouts :
            /\ Jobs(w)[p] > 0
            /\ \/ /\ payout' = [payout EXCEPT ![p].status = "SENT"]
                  /\ Goto(w, "transfer", Seen(w), [Jobs(w) EXCEPT ![p] = @ - 1], p)
               \/ /\ Goto(w, "send", Seen(w), [Jobs(w) EXCEPT ![p] = @ - 1], None)
                  /\ UNCHANGED payout
      BY <2>4 DEF MarkSent
    <3>2. payout' \in [Payouts -> Payout]
      <4>1. [payout[p] EXCEPT !.status = "SENT"] \in Payout
        BY DEF TypeOK, Payout, PayoutStatus, Unresolved
      <4> QED BY <3>1, <4>1 DEF TypeOK
    <3>3. [Jobs(w) EXCEPT ![p] = @ - 1] \in [Payouts -> Nat]
      BY <3>1, DispatchFields
    <3>4. dispatch' \in [Workers -> Dispatch] /\ JobAtHand'
      BY <3>1, <3>3, DispatchFields, GotoTyped DEF DispatchPC, Sending
    <3> QED BY <2>4, <3>2, <3>4 DEF MarkSent, accrual, TypeOK
  <2>5. CASE Transfer(w)
    <3>1. PICK pc \in {"record", "review"} : Goto(w, pc, Seen(w), Jobs(w), Job(w))
      BY <2>5 DEF Transfer
    <3>2. Job(w) \in Payouts
      BY <2>5 DEF Transfer, At, JobAtHand, Sending, Job
    <3>3. dispatch' \in [Workers -> Dispatch] /\ JobAtHand'
      BY <3>1, <3>2, DispatchFields, GotoTyped DEF DispatchPC, Sending
    <3>4. moved' \in [Payouts -> Nat]
      BY <2>5, <3>2 DEF Transfer, TypeOK
    <3> QED BY <2>5, <3>3, <3>4 DEF Transfer, accrual, TypeOK
  <2>6. ASSUME NextJob(w) PROVE dispatch' \in [Workers -> Dispatch] /\ JobAtHand'
    BY <2>6, DispatchFields, GotoTyped DEF NextJob, DispatchPC, Sending
  <2>7. CASE Review(w)
    <3>1. payout' \in [Payouts -> Payout]
      <4>1. \A p \in Payouts : [payout[p] EXCEPT !.status = ToReview] \in Payout
        BY DEF ToReview, TypeOK, Payout, PayoutStatus, Unresolved
      <4>2. \/ UNCHANGED payout
            \/ payout' = [payout EXCEPT ![Job(w)].status = ToReview]
        BY <2>7 DEF Review
      <4> QED BY <4>1, <4>2 DEF TypeOK
    <3>2. faults' \in 0..MaxFaults
      BY <2>7 DEF Review, Fault, TypeOK
    <3> QED BY <2>6, <2>7, <3>1, <3>2 DEF Review, accrual, TypeOK
  <2>8. CASE Record(w)
    <3>1. Job(w) \in Payouts
      BY <2>8 DEF Record, At, JobAtHand, Sending, Job
    <3>2. payout[Job(w)] \in Payout /\ payout[Job(w)].amount \in Nat
      BY <3>1 DEF TypeOK, Payout
    <3>3. pending' \in [Users -> Nat]
      <4>1. \/ UNCHANGED pending
            \/ \E u : pending' = [pending EXCEPT ![u] =
                         IF @ > payout[Job(w)].amount THEN @ - payout[Job(w)].amount ELSE 0]
        BY <2>8 DEF Record
      <4>2. pending \in [Users -> Nat]
        BY DEF TypeOK
      <4> QED BY <3>2, <4>1, <4>2
    <3>4. payout' \in [Payouts -> Payout]
      <4>1. [payout[Job(w)] EXCEPT !.status = "COMPLETED"] \in Payout
        BY <3>2 DEF Payout, PayoutStatus
      <4>2. \/ UNCHANGED payout
            \/ payout' = [payout EXCEPT ![Job(w)].status = "COMPLETED"]
        BY <2>8 DEF Record
      <4> QED BY <3>1, <4>1, <4>2 DEF TypeOK
    <3> QED BY <2>6, <2>8, <3>3, <3>4 DEF Record, accrual, TypeOK
  <2>9. CASE EndDispatch(w)
    BY <2>9, IdleTyped DEF EndDispatch, accrual, TypeOK
  <2>10. CASE Abandon(w)
    <3>1. dispatch' \in [Workers -> Dispatch] /\ JobAtHand'
      BY <2>10, IdleTyped DEF Abandon
    <3>2. faults' \in 0..MaxFaults
      BY <2>10 DEF Abandon, Fault, TypeOK
    <3> QED BY <2>10, <3>1, <3>2 DEF Abandon, accrual, TypeOK
  <2> QED BY <1>4, <2>1, <2>2, <2>3, <2>4, <2>5, <2>7, <2>8, <2>9, <2>10 DEF DispatchStep
<1>5. ASSUME NEW w \in Workers, NEW u \in Users, SettleBet(w, u) PROVE TypeOK' /\ JobAtHand'
  <2>1. PICK fee \in FeeAmounts :
          /\ earned' = [earned EXCEPT ![u] = @ + fee]
          /\ buffer' = [buffer EXCEPT ![w] = With(@, u, fee)]
    BY <1>5 DEF SettleBet
  <2>2. With(buffer[w], u, fee) \in SessionFees
    BY DEF With, SessionFees, TypeOK
  <2>3. earned' \in [Users -> Nat] /\ buffer' \in [Workers -> SessionFees]
    BY <2>1, <2>2 DEF TypeOK
  <2> QED BY <1>5, <2>3 DEF SettleBet, paying, TypeOK, JobAtHand
<1>6. ASSUME NEW w \in Workers, NEW u \in Users, Settle(w, u) PROVE TypeOK' /\ JobAtHand'
  BY <1>6 DEF Settle, paying, TypeOK, JobAtHand
<1>7. CASE UNCHANGED vars
  BY <1>7 DEF vars, TypeOK, JobAtHand
<1> QED BY <1>1, <1>2, <1>3, <1>4, <1>5, <1>6, <1>7 DEF Next

\* The initial state is typed.
LEMMA TypedInit == Init => Typed
  BY FeeAssumption DEF Init, Typed, TypeOK, JobAtHand, NoFees, NoBatch, AbsentPayout, NoJobs,
     IdleDispatch, SessionFees, Payout, PayoutStatus, Dispatch, DispatchPC, Sending

\* TypeOK holds in every reachable state, for any constants FeeAssumption allows.
THEOREM FeeTypes == Spec => []TypeOK
<1>1. Typed => TypeOK
  BY DEF Typed
<1> QED BY <1>1, TypedInit, TypedStep, PTL DEF Spec

-----------------------------------------------------------------------------
(* A payout moves once *)

\* Nothing was moved for a payout before its row says SENT, and nobody works on
\* it until then; whoever works on it is alone; before the transfer nothing is
\* moved.  The PREPARED test of sendFee's first UPDATE is what this rests on.
Untouched ==
  \A p \in Payouts : payout[p].status \in {"ABSENT", "PREPARED"} =>
    moved[p] = 0 /\ \A w \in Workers : Job(w) # p

Alone == \A v, w \in Workers : Job(v) = Job(w) /\ Job(v) \in Payouts => v = w

NotYetMoved == \A w \in Workers :
  dispatch[w].pc = "transfer" => moved[Job(w)] = 0

OnceInv == Typed /\ Untouched /\ Alone /\ NotYetMoved /\ MovedOnce

\* What Goto leaves in the dispatches.
LEMMA GotoFields ==
  ASSUME TypeOK, NEW w \in Workers, NEW pc, NEW seen, NEW jobs, NEW job,
         Goto(w, pc, seen, jobs, job)
  PROVE  /\ dispatch'[w].pc = pc /\ Job(w)' = job /\ Seen(w)' = seen
         /\ \A v \in Workers \ {w} : dispatch'[v] = dispatch[v]
  BY DEF TypeOK, Goto, Job, Seen

\* A step that gives no process a new job, moves no money, and makes no payout
\* PREPARED or ABSENT that was not, keeps the invariant.
LEMMA OnceFrame ==
  ASSUME OnceInv, Typed', UNCHANGED moved,
         \A v \in Workers : /\ Job(v)' \in {Job(v), None}
                            /\ dispatch'[v].pc = "transfer"
                                 => dispatch[v].pc = "transfer" /\ Job(v)' = Job(v),
         \A p \in Payouts : payout'[p].status \in {"ABSENT", "PREPARED"}
                              => payout[p].status \in {"ABSENT", "PREPARED"}
  PROVE  OnceInv'
<1>1. Untouched'
  BY FeeAssumption DEF OnceInv, Untouched
<1>2. Alone'
  BY FeeAssumption DEF OnceInv, Alone
<1>3. NotYetMoved' /\ MovedOnce'
  BY DEF OnceInv, NotYetMoved, MovedOnce
<1> QED BY <1>1, <1>2, <1>3 DEF OnceInv

\* A step that touches neither payouts, transfers nor dispatches keeps it.
LEMMA OnceKept ==
  ASSUME OnceInv, Typed', UNCHANGED paying
  PROVE  OnceInv'
<1>1. UNCHANGED moved /\ UNCHANGED payout /\ UNCHANGED dispatch
  BY DEF paying
<1>2. \A v \in Workers : Job(v)' = Job(v)
  BY <1>1 DEF Job
<1> QED BY <1>1, <1>2, OnceFrame

\* A dispatch that moves on without a new job keeps it.
LEMMA OnceGoto ==
  ASSUME OnceInv, Typed', UNCHANGED moved, NEW w \in Workers,
         NEW pc \in DispatchPC \ {"transfer"}, NEW seen, NEW jobs,
         NEW job \in {Job(w), None}, Goto(w, pc, seen, jobs, job),
         \A p \in Payouts : payout'[p].status \in {"ABSENT", "PREPARED"}
                              => payout[p].status \in {"ABSENT", "PREPARED"}
  PROVE  OnceInv'
<1>1. /\ dispatch'[w].pc = pc /\ Job(w)' = job
      /\ \A v \in Workers \ {w} : dispatch'[v] = dispatch[v]
  BY GotoFields DEF OnceInv, Typed
<1>2. \A v \in Workers \ {w} : Job(v)' = Job(v)
  BY <1>1 DEF Job
<1>3. \A v \in Workers : /\ Job(v)' \in {Job(v), None}
                         /\ dispatch'[v].pc = "transfer"
                              => dispatch[v].pc = "transfer" /\ Job(v)' = Job(v)
  BY <1>1, <1>2
<1> QED BY <1>3, OnceFrame

\* A dispatch that ends keeps it.
LEMMA OnceIdle ==
  ASSUME OnceInv, Typed', UNCHANGED <<moved, payout>>, NEW w \in Workers,
         dispatch' = [dispatch EXCEPT ![w] = IdleDispatch]
  PROVE  OnceInv'
<1>1. Goto(w, "idle", [u \in Users |-> 0], NoJobs, None)
  BY DEF Goto, IdleDispatch
<1> QED BY <1>1, OnceGoto DEF DispatchPC

\* Taking a payout that is PREPARED: it becomes SENT and has this one process.
LEMMA OnceTaken ==
  ASSUME OnceInv, Typed', UNCHANGED moved, NEW w \in Workers, NEW p \in Payouts,
         StillPrepared(p), payout' = [payout EXCEPT ![p].status = "SENT"],
         NEW seen, NEW jobs, Goto(w, "transfer", seen, jobs, p)
  PROVE  OnceInv'
<1>1. /\ dispatch'[w].pc = "transfer" /\ Job(w)' = p
      /\ \A v \in Workers \ {w} : dispatch'[v] = dispatch[v]
  BY GotoFields DEF OnceInv, Typed
<1>2. \A v \in Workers \ {w} : Job(v)' = Job(v)
  BY <1>1 DEF Job
<1>3. moved[p] = 0 /\ \A v \in Workers : Job(v) # p
  BY DEF OnceInv, Untouched, StillPrepared
<1>4. /\ payout'[p].status = "SENT"
      /\ \A q \in Payouts \ {p} : payout'[q] = payout[q]
  BY DEF OnceInv, Typed, TypeOK, Payout
<1>5. Untouched'
  BY <1>1, <1>2, <1>4 DEF OnceInv, Untouched
<1>6. Alone'
  BY <1>1, <1>2, <1>3 DEF OnceInv, Alone
<1>7. NotYetMoved' /\ MovedOnce'
  BY <1>1, <1>2, <1>3 DEF OnceInv, NotYetMoved, MovedOnce
<1> QED BY <1>5, <1>6, <1>7 DEF OnceInv

\* The provider moves the money of a payout that was not moved before, and the
\* process goes on to record or to review it.
LEMMA OnceTransfer ==
  ASSUME OnceInv, Typed', NEW w \in Workers, Transfer(w)
  PROVE  OnceInv'
<1> DEFINE p == Job(w)
<1>1. PICK pc \in {"record", "review"} : Goto(w, pc, Seen(w), Jobs(w), p)
  BY DEF Transfer
<1>2. UNCHANGED payout /\ (moved' = moved \/ moved' = [moved EXCEPT ![p] = @ + 1])
  BY DEF Transfer
<1>3. dispatch[w].pc = "transfer" /\ p \in Payouts /\ moved[p] = 0
  BY DEF Transfer, At, OnceInv, Typed, JobAtHand, Sending, NotYetMoved, Job
<1>4. /\ dispatch'[w].pc = pc /\ Job(w)' = p
      /\ \A v \in Workers \ {w} : dispatch'[v] = dispatch[v]
  BY <1>1, GotoFields DEF OnceInv, Typed
<1>5. \A v \in Workers : Job(v)' = Job(v)
  BY <1>4 DEF Job
<1>6. moved \in [Payouts -> Nat]
  BY DEF OnceInv, Typed, TypeOK
<1>7. moved'[p] \in {0, 1} /\ \A q \in Payouts \ {p} : moved'[q] = moved[q]
  BY <1>2, <1>3, <1>6
<1>8. Untouched'
  BY <1>2, <1>3, <1>5, <1>7 DEF OnceInv, Untouched
<1>9. Alone'
  BY <1>5 DEF OnceInv, Alone
<1>10. ASSUME NEW v \in Workers, dispatch'[v].pc = "transfer" PROVE moved'[Job(v)'] = 0
  <2>1. v # w /\ dispatch[v].pc = "transfer"
    BY <1>4, <1>10
  <2>2. Job(v) \in Payouts /\ Job(v) # p
    BY <1>3, <2>1 DEF OnceInv, Typed, JobAtHand, Sending, Alone, Job
  <2> QED BY <1>5, <1>7, <2>1, <2>2 DEF OnceInv, NotYetMoved
<1>11. MovedOnce'
  BY <1>7 DEF OnceInv, MovedOnce
<1> QED BY <1>8, <1>9, <1>10, <1>11 DEF OnceInv, NotYetMoved

\* Every step keeps it, in any number of processes.
LEMMA OnceStep == OnceInv /\ [Next]_vars => OnceInv'
<1> SUFFICES ASSUME OnceInv, [Next]_vars PROVE OnceInv'
  OBVIOUS
<1>0. Typed'
  BY TypedStep DEF OnceInv
<1>00. payout \in [Payouts -> Payout]
  BY DEF OnceInv, Typed, TypeOK
<1>1. ASSUME NEW w \in Workers, Boot(w) PROVE OnceInv'
  <2>1. \A p \in Payouts : payout'[p].status \in {"ABSENT", "PREPARED"}
                             => payout[p].status \in {"ABSENT", "PREPARED"}
    BY <1>1, <1>00 DEF Boot, SentSetAside, Payout
  <2>2. UNCHANGED moved /\ \A v \in Workers : dispatch'[v] = dispatch[v] /\ Job(v)' = Job(v)
    BY <1>1 DEF Boot, Job
  <2> QED BY <1>0, <2>1, <2>2, OnceFrame
<1>2. ASSUME NEW w \in Workers, Crash(w) PROVE OnceInv'
  BY <1>0, <1>2, OnceIdle DEF Crash
<1>3. ASSUME NEW w \in Workers, FlushStep(w) PROVE OnceInv'
  BY <1>0, <1>3, OnceKept DEF FlushStep, FlushPendingFees, AccrueSessionFees
<1>4. ASSUME NEW w \in Workers, DispatchStep(w) PROVE OnceInv'
  <2>1. CASE ReadFees(w)
    BY <1>0, <2>1, OnceGoto DEF ReadFees, DispatchPC
  <2>2. CASE InsertPayout(w)
    <3>1. PICK u \in Users :
            \/ \E p \in Payouts :
                 /\ payout[p].status = "ABSENT"
                 /\ payout' = [payout EXCEPT ![p] =
                      [user |-> u, amount |-> Seen(w)[u], status |-> "PREPARED"]]
                 /\ Goto(w, "insert", [Seen(w) EXCEPT ![u] = 0],
                         [Jobs(w) EXCEPT ![p] = @ + 1], None)
            \/ /\ Goto(w, "insert", [Seen(w) EXCEPT ![u] = 0], Jobs(w), None)
               /\ UNCHANGED payout
      BY <2>2 DEF InsertPayout
    <3>2. \A p \in Payouts : payout'[p].status \in {"ABSENT", "PREPARED"}
                               => payout[p].status \in {"ABSENT", "PREPARED"}
      BY <1>00, <3>1
    <3>3. \E jobs : Goto(w, "insert", [Seen(w) EXCEPT ![u] = 0], jobs, None)
      BY <3>1
    <3>4. UNCHANGED moved
      BY <2>2 DEF InsertPayout
    <3> QED BY <1>0, <3>2, <3>3, <3>4, OnceGoto DEF DispatchPC
  <2>3. CASE ReadPrepared(w)
    BY <1>0, <2>3, OnceGoto DEF ReadPrepared, DispatchPC
  <2>4. CASE MarkSent(w)
    <3>1. PICK p \in Payouts :
            \/ /\ StillPrepared(p)
               /\ payout' = [payout EXCEPT ![p].status = "SENT"]
               /\ Goto(w, "transfer", Seen(w), [Jobs(w) EXCEPT ![p] = @ - 1], p)
            \/ /\ Goto(w, "send", Seen(w), [Jobs(w) EXCEPT ![p] = @ - 1], None)
               /\ UNCHANGED payout
      BY <2>4 DEF MarkSent
    <3>2. UNCHANGED moved
      BY <2>4 DEF MarkSent
    <3>3. CASE StillPrepared(p) /\ payout' = [payout EXCEPT ![p].status = "SENT"]
               /\ Goto(w, "transfer", Seen(w), [Jobs(w) EXCEPT ![p] = @ - 1], p)
      BY <1>0, <3>2, <3>3, OnceTaken
    <3>4. CASE UNCHANGED payout
               /\ Goto(w, "send", Seen(w), [Jobs(w) EXCEPT ![p] = @ - 1], None)
      BY <1>0, <3>2, <3>4, OnceGoto DEF DispatchPC
    <3> QED BY <3>1, <3>3, <3>4
  <2>5. CASE Transfer(w)
    BY <1>0, <2>5, OnceTransfer
  <2>6. CASE Review(w)
    <3>1. \A p \in Payouts : payout'[p].status \in {"ABSENT", "PREPARED"}
                               => payout[p].status \in {"ABSENT", "PREPARED"}
      BY <1>00, <2>6 DEF Review, ToReview, Payout
    <3> QED BY <1>0, <2>6, <3>1, OnceGoto DEF Review, NextJob, DispatchPC
  <2>7. CASE Record(w)
    <3>1. \A p \in Payouts : payout'[p].status \in {"ABSENT", "PREPARED"}
                               => payout[p].status \in {"ABSENT", "PREPARED"}
      BY <1>00, <2>7 DEF Record, Payout
    <3> QED BY <1>0, <2>7, <3>1, OnceGoto DEF Record, NextJob, DispatchPC
  <2>8. CASE EndDispatch(w)
    BY <1>0, <2>8, OnceIdle DEF EndDispatch
  <2>9. CASE Abandon(w)
    BY <1>0, <2>9, OnceIdle DEF Abandon
  <2> QED BY <1>4, <2>1, <2>2, <2>3, <2>4, <2>5, <2>6, <2>7, <2>8, <2>9 DEF DispatchStep
<1>5. ASSUME NEW w \in Workers, NEW u \in Users, SettleBet(w, u) \/ Settle(w, u)
      PROVE OnceInv'
  BY <1>0, <1>5, OnceKept DEF SettleBet, Settle
<1>6. CASE UNCHANGED vars
  BY <1>0, <1>6, OnceKept DEF vars, paying
<1> QED BY <1>1, <1>2, <1>3, <1>4, <1>5, <1>6 DEF Next

\* Whatever the number of processes, whichever die and whatever answers are lost,
\* the provider moves the money of a payout at most once (service.go sendFee).
THEOREM MovedOnceHolds == Spec => []MovedOnce
<1>1. Init => OnceInv
  <2>1. ASSUME Init PROVE Untouched /\ Alone /\ NotYetMoved /\ MovedOnce
    BY <2>1, FeeAssumption
       DEF Init, Untouched, Alone, NotYetMoved, MovedOnce, IdleDispatch, Job
  <2> QED BY <2>1, TypedInit DEF OnceInv
<1>2. OnceInv => MovedOnce
  BY DEF OnceInv
<1> QED BY <1>1, <1>2, OnceStep, PTL DEF Spec

-----------------------------------------------------------------------------
(* A payout is one single transfer *)

\* What is about to be recorded was moved, and so was what is recorded.
RecordsMoved == \A w \in Workers : dispatch[w].pc = "record" => moved[Job(w)] = 1
RecordedIsMoved == \A p \in Payouts : payout[p].status = "COMPLETED" => moved[p] = 1

TransferInv == OnceInv /\ RecordsMoved /\ RecordedIsMoved

\* A step that keeps the jobs at hand, moves no money and records nothing keeps it.
LEMMA TransferFrame ==
  ASSUME TransferInv, OnceInv', UNCHANGED moved,
         \A v \in Workers : dispatch'[v].pc = "record"
                              => dispatch[v].pc = "record" /\ Job(v)' = Job(v),
         \A p \in Payouts : payout'[p].status = "COMPLETED"
                              => payout[p].status = "COMPLETED" \/ moved[p] = 1
  PROVE  TransferInv'
  BY DEF TransferInv, RecordsMoved, RecordedIsMoved

\* The same of one dispatch that goes anywhere but to the recording.
LEMMA TransferGoto ==
  ASSUME TransferInv, OnceInv', UNCHANGED moved, NEW w \in Workers,
         NEW pc, NEW seen, NEW jobs, NEW job,
         Goto(w, pc, seen, jobs, job), pc # "record",
         \A p \in Payouts : payout'[p].status = "COMPLETED"
                              => payout[p].status = "COMPLETED" \/ moved[p] = 1
  PROVE  TransferInv'
<1>1. /\ dispatch'[w].pc = pc
      /\ \A v \in Workers \ {w} : dispatch'[v] = dispatch[v]
  BY GotoFields DEF TransferInv, OnceInv, Typed
<1>2. \A v \in Workers \ {w} : Job(v)' = Job(v)
  BY <1>1 DEF Job
<1> QED BY <1>1, <1>2, TransferFrame

\* The provider moves the money of the job at hand, and of no other process's.
LEMMA TransferPays ==
  ASSUME TransferInv, OnceInv', NEW w \in Workers, Transfer(w)
  PROVE  /\ TransferInv'
         /\ UNCHANGED payout
         /\ \/ UNCHANGED moved
            \/ \E p \in Payouts : /\ payout[p].status \in {"SENT", "REVIEW_REQUIRED"}
                                  /\ moved[p] = 0
                                  /\ moved' = [moved EXCEPT ![p] = 1]
<1> DEFINE p == Job(w)
<1>1. PICK pc \in {"record", "review"} :
        /\ Goto(w, pc, Seen(w), Jobs(w), p)
        /\ moved' = [moved EXCEPT ![p] = @ + 1] \/ (pc = "review" /\ UNCHANGED moved)
  BY DEF Transfer
<1>2. UNCHANGED payout
  BY DEF Transfer
<1>3. dispatch[w].pc = "transfer" /\ p \in Payouts /\ moved[p] = 0
  BY DEF Transfer, At, TransferInv, OnceInv, Typed, JobAtHand, Sending, NotYetMoved, Job
<1>4. payout[p].status \in {"SENT", "REVIEW_REQUIRED"}
  <2>1. payout[p].status \in PayoutStatus
    BY <1>3 DEF TransferInv, OnceInv, Typed, TypeOK, Payout
  <2>2. payout[p].status \notin {"ABSENT", "PREPARED"}
    BY <1>3 DEF TransferInv, OnceInv, Untouched
  <2>3. payout[p].status # "COMPLETED"
    BY <1>3 DEF TransferInv, RecordedIsMoved
  <2> QED BY <2>1, <2>2, <2>3 DEF PayoutStatus, Unresolved
<1>5. moved \in [Payouts -> Nat]
  BY DEF TransferInv, OnceInv, Typed, TypeOK
<1>6. CASE pc = "review" /\ UNCHANGED moved
  BY <1>1, <1>2, <1>6, TransferGoto
<1>7. CASE moved' = [moved EXCEPT ![p] = @ + 1]
  <2>1. moved' = [moved EXCEPT ![p] = 1]
    BY <1>3, <1>5, <1>7
  <2>2. moved'[p] = 1 /\ \A q \in Payouts \ {p} : moved'[q] = moved[q]
    BY <1>3, <1>5, <2>1
  <2>3. /\ dispatch'[w].pc = pc /\ Job(w)' = p
        /\ \A v \in Workers \ {w} : dispatch'[v] = dispatch[v]
    BY <1>1, GotoFields DEF TransferInv, OnceInv, Typed
  <2>4. ASSUME NEW v \in Workers, dispatch'[v].pc = "record" PROVE moved'[Job(v)'] = 1
    <3>1. CASE v = w
      BY <2>2, <2>3, <3>1
    <3>2. CASE v # w
      <4>1. dispatch[v].pc = "record" /\ Job(v)' = Job(v)
        BY <2>3, <2>4, <3>2 DEF Job
      <4>2. Job(v) \in Payouts /\ Job(v) # p
        BY <1>3, <3>2, <4>1 DEF TransferInv, OnceInv, Typed, JobAtHand, Sending, Alone, Job
      <4> QED BY <2>2, <4>1, <4>2 DEF TransferInv, RecordsMoved
    <3> QED BY <3>1, <3>2
  <2>5. RecordedIsMoved'
    BY <1>2, <2>2 DEF TransferInv, RecordedIsMoved
  <2> QED BY <1>2, <1>3, <1>4, <2>1, <2>4, <2>5 DEF TransferInv, RecordsMoved
<1> QED BY <1>1, <1>6, <1>7

\* The variables of SingleTransfer, and one of its steps or none.
Book == [p \in Payouts |-> BookOf(p)]
Due == [p \in Payouts |-> payout[p].amount]
SingleTransferStep == [SingleTransfers!Next]_<<Book, Due, moved>>

Same(p) == payout'[p] = payout[p]

\* A step that changes neither a row nor what was moved is none.
LEMMA RowsSame ==
  ASSUME UNCHANGED <<payout, moved>> PROVE SingleTransferStep
  BY DEF SingleTransferStep, Book, Due, BookOf

\* The rows a step turns to a status are turned for SingleTransfer, too.
LEMMA RowsTurn ==
  ASSUME NEW ps \in SUBSET Payouts, NEW status,
         \A p \in ps : BookOf(p)' = status, \A p \in Payouts \ ps : Same(p)
  PROVE  SingleTransfers!Turns(ps, status)
<1>1. \A p \in Payouts \ ps : BookOf(p)' = BookOf(p)
  BY DEF BookOf, Same
<1>2. [p \in Payouts |-> BookOf(p)'] =
        [p \in Payouts |-> IF p \in ps THEN status ELSE BookOf(p)]
  BY <1>1
<1> QED BY <1>2 DEF SingleTransfers!Turns

\* Rows that were SENT and are put under review are given up.
LEMMA RowsGivenUp ==
  ASSUME payout \in [Payouts -> Payout], UNCHANGED moved, NEW ps \in SUBSET Payouts,
         \A p \in ps : /\ payout[p].status = "SENT"
                       /\ payout'[p] = [payout[p] EXCEPT !.status = "REVIEW_REQUIRED"],
         \A p \in Payouts \ ps : Same(p)
  PROVE  SingleTransferStep
<1>0. ASSUME NEW p \in ps
      PROVE  payout'[p].status = "REVIEW_REQUIRED" /\ payout'[p].amount = payout[p].amount
  <2>1. p \in Payouts /\ payout'[p] = [payout[p] EXCEPT !.status = "REVIEW_REQUIRED"]
    BY <1>0
  <2>2. payout[p] \in Payout
    BY <2>1
  <2> QED BY <2>1, <2>2 DEF Payout
<1>1. \A p \in ps : BookOf(p) = "sent" /\ BookOf(p)' = "abandoned"
  BY <1>0 DEF BookOf
<1>2. \A p \in Payouts : payout'[p].amount = payout[p].amount
  BY <1>0 DEF Same
<1>3. Due' = Due
  BY <1>2 DEF Due
<1>4. SingleTransfers!GiveUp(ps)
  BY <1>1, <1>3, RowsTurn DEF SingleTransfers!GiveUp, Due
<1> QED BY <1>4 DEF SingleTransferStep, SingleTransfers!Next

\* One row that turns from absent to PREPARED is noted with its amount.
LEMMA RowNoted ==
  ASSUME payout \in [Payouts -> Payout], payout' \in [Payouts -> Payout], UNCHANGED moved,
         NEW p \in Payouts, payout[p].status = "ABSENT", payout'[p].status = "PREPARED",
         \A q \in Payouts \ {p} : Same(q)
  PROVE  SingleTransferStep
<1>1. BookOf(p) = "absent" /\ BookOf(p)' = "noted"
  BY DEF BookOf
<1>2. \A q \in {p} : Book[q] = "absent"
  BY <1>1 DEF Book
<1>3. SingleTransfers!Turns({p}, "noted")
  BY <1>1, RowsTurn
<1>4. \A q \in Payouts : payout'[q].amount \in Nat
  BY DEF Payout
<1>5. Due' \in [Payouts -> Nat] /\ \A q \in Payouts \ {p} : Due'[q] = Due[q]
  BY <1>4 DEF Due, Same
<1>6. SingleTransfers!Note({p}, "noted")
  BY <1>2, <1>3, <1>5 DEF SingleTransfers!Note, Book, Due
<1> QED BY <1>6 DEF SingleTransferStep, SingleTransfers!Next

\* One row that turns from PREPARED to SENT is sent.
LEMMA RowSent ==
  ASSUME payout \in [Payouts -> Payout], UNCHANGED moved,
         NEW p \in Payouts, payout[p].status = "PREPARED",
         payout'[p] = [payout[p] EXCEPT !.status = "SENT"],
         \A q \in Payouts \ {p} : Same(q)
  PROVE  SingleTransferStep
<1>1. BookOf(p) = "noted" /\ BookOf(p)' = "sent"
  BY DEF BookOf, Payout
<1>2. \A q \in Payouts : payout'[q].amount = payout[q].amount
  BY DEF Same, Payout
<1>3. Due' = Due
  BY <1>2 DEF Due
<1>4. SingleTransfers!Send(p)
  BY <1>1, <1>3, RowsTurn DEF SingleTransfers!Send, Due
<1> QED BY <1>4 DEF SingleTransferStep, SingleTransfers!Next

\* One row that turns from SENT to COMPLETED, after it was moved, is recorded.
LEMMA RowRecorded ==
  ASSUME payout \in [Payouts -> Payout], UNCHANGED moved,
         NEW p \in Payouts, payout[p].status = "SENT", moved[p] = 1,
         payout'[p] = [payout[p] EXCEPT !.status = "COMPLETED"],
         \A q \in Payouts \ {p} : Same(q)
  PROVE  SingleTransferStep
<1>1. BookOf(p) = "sent" /\ BookOf(p)' = "recorded"
  BY DEF BookOf, Payout
<1>2. \A q \in Payouts : payout'[q].amount = payout[q].amount
  BY DEF Same, Payout
<1>3. Due' = Due
  BY <1>2 DEF Due
<1>4. SingleTransfers!Record(p)
  BY <1>1, <1>3, RowsTurn DEF SingleTransfers!Record, Due
<1> QED BY <1>4 DEF SingleTransferStep, SingleTransfers!Next

\* What the provider moves of a row that is SENT or under review is paid.
LEMMA RowPaid ==
  ASSUME UNCHANGED payout, NEW p \in Payouts,
         payout[p].status \in {"SENT", "REVIEW_REQUIRED"},
         moved[p] = 0, moved' = [moved EXCEPT ![p] = 1]
  PROVE  SingleTransferStep
<1>1. BookOf(p) \in {"sent", "abandoned"}
  BY DEF BookOf
<1>2. Book' = Book /\ Due' = Due
  BY DEF Book, Due, BookOf
<1>3. SingleTransfers!Pay(p)
  BY <1>1, <1>2 DEF SingleTransfers!Pay, Book, Due
<1> QED BY <1>3 DEF SingleTransferStep, SingleTransfers!Next

\* Every step is one of SingleTransfer or none of its business, and keeps what
\* the mapping rests on.
LEMMA TransferStep ==
  TransferInv /\ [Next]_vars => TransferInv' /\ SingleTransferStep
<1> SUFFICES ASSUME TransferInv, [Next]_vars PROVE TransferInv' /\ SingleTransferStep
  OBVIOUS
<1>0. OnceInv' /\ payout \in [Payouts -> Payout] /\ payout' \in [Payouts -> Payout]
  BY OnceStep DEF TransferInv, OnceInv, Typed, TypeOK
<1>1. ASSUME UNCHANGED moved, UNCHANGED payout, UNCHANGED dispatch
      PROVE  TransferInv' /\ SingleTransferStep
  BY <1>0, <1>1, RowsSame, TransferFrame DEF Job
<1>2. ASSUME UNCHANGED moved, UNCHANGED payout, NEW w \in Workers, NEW pc, pc # "record",
             NEW seen, NEW jobs, NEW job, Goto(w, pc, seen, jobs, job)
      PROVE  TransferInv' /\ SingleTransferStep
  BY <1>0, <1>2, RowsSame, TransferGoto
<1>3. ASSUME UNCHANGED moved, UNCHANGED payout, NEW w \in Workers,
             dispatch' = [dispatch EXCEPT ![w] = IdleDispatch]
      PROVE  TransferInv' /\ SingleTransferStep
  <2>1. Goto(w, "idle", [u \in Users |-> 0], NoJobs, None)
    BY <1>3 DEF Goto, IdleDispatch
  <2> QED BY <1>2, <1>3, <2>1
<1>4. ASSUME NEW w \in Workers, Boot(w) PROVE TransferInv' /\ SingleTransferStep
  <2>1. UNCHANGED moved /\ UNCHANGED dispatch
    BY <1>4 DEF Boot
  <2>2. CASE UNCHANGED payout
    BY <1>1, <2>1, <2>2
  <2>3. CASE payout' = SentSetAside
    <3> DEFINE ps == {p \in Payouts : payout[p].status = "SENT"}
    <3>1. \A p \in ps : payout'[p] = [payout[p] EXCEPT !.status = "REVIEW_REQUIRED"]
      BY <2>3 DEF SentSetAside
    <3>2. \A p \in Payouts \ ps : Same(p)
      BY <2>3 DEF SentSetAside, Same
    <3>3. SingleTransferStep
      <4>1. ps \in SUBSET Payouts /\ \A p \in ps : payout[p].status = "SENT"
        OBVIOUS
      <4> HIDE DEF ps
      <4> QED BY <1>0, <2>1, <3>1, <3>2, <4>1, RowsGivenUp
    <3>4. \A p \in Payouts : payout'[p].status = "COMPLETED" => payout[p].status = "COMPLETED"
      BY <1>0, <2>3 DEF SentSetAside, Payout
    <3>5. TransferInv'
      BY <1>0, <2>1, <3>4, TransferFrame DEF Job
    <3> QED BY <3>3, <3>5
  <2> QED BY <1>4, <2>2, <2>3 DEF Boot
<1>5. ASSUME NEW w \in Workers, Crash(w) PROVE TransferInv' /\ SingleTransferStep
  BY <1>3, <1>5 DEF Crash
<1>6. ASSUME NEW w \in Workers, FlushStep(w) PROVE TransferInv' /\ SingleTransferStep
  BY <1>1, <1>6 DEF FlushStep, FlushPendingFees, AccrueSessionFees, paying
<1>7. ASSUME NEW w \in Workers, DispatchStep(w) PROVE TransferInv' /\ SingleTransferStep
  <2>1. CASE ReadFees(w)
    BY <1>2, <2>1 DEF ReadFees
  <2>2. CASE InsertPayout(w)
    <3>1. PICK u \in Users :
            \/ \E p \in Payouts :
                 /\ payout[p].status = "ABSENT"
                 /\ payout' = [payout EXCEPT ![p] =
                      [user |-> u, amount |-> Seen(w)[u], status |-> "PREPARED"]]
                 /\ Goto(w, "insert", [Seen(w) EXCEPT ![u] = 0],
                         [Jobs(w) EXCEPT ![p] = @ + 1], None)
            \/ /\ Goto(w, "insert", [Seen(w) EXCEPT ![u] = 0], Jobs(w), None)
               /\ UNCHANGED payout
      BY <2>2 DEF InsertPayout
    <3>2. UNCHANGED moved
      BY <2>2 DEF InsertPayout
    <3>3. ASSUME NEW p \in Payouts, payout[p].status = "ABSENT",
                 payout' = [payout EXCEPT ![p] =
                   [user |-> u, amount |-> Seen(w)[u], status |-> "PREPARED"]],
                 Goto(w, "insert", [Seen(w) EXCEPT ![u] = 0],
                      [Jobs(w) EXCEPT ![p] = @ + 1], None)
          PROVE  TransferInv' /\ SingleTransferStep
      <4>1. payout'[p].status = "PREPARED" /\ \A q \in Payouts \ {p} : Same(q)
        BY <1>0, <3>3 DEF Same
      <4>2. SingleTransferStep
        BY <1>0, <3>2, <3>3, <4>1, RowNoted
      <4>3. \A q \in Payouts : payout'[q].status = "COMPLETED" => payout[q].status = "COMPLETED"
        BY <4>1 DEF Same
      <4>4. TransferInv'
        BY <1>0, <3>2, <3>3, <4>3, TransferGoto
      <4> QED BY <4>2, <4>4
    <3> QED BY <1>2, <3>1, <3>2, <3>3
  <2>3. CASE ReadPrepared(w)
    BY <1>2, <2>3 DEF ReadPrepared
  <2>4. CASE MarkSent(w)
    <3>1. PICK p \in Payouts :
            \/ /\ StillPrepared(p)
               /\ payout' = [payout EXCEPT ![p].status = "SENT"]
               /\ Goto(w, "transfer", Seen(w), [Jobs(w) EXCEPT ![p] = @ - 1], p)
            \/ /\ Goto(w, "send", Seen(w), [Jobs(w) EXCEPT ![p] = @ - 1], None)
               /\ UNCHANGED payout
      BY <2>4 DEF MarkSent
    <3>2. UNCHANGED moved
      BY <2>4 DEF MarkSent
    <3>3. CASE StillPrepared(p) /\ payout' = [payout EXCEPT ![p].status = "SENT"]
               /\ Goto(w, "transfer", Seen(w), [Jobs(w) EXCEPT ![p] = @ - 1], p)
      <4>1. /\ payout'[p] = [payout[p] EXCEPT !.status = "SENT"]
            /\ \A q \in Payouts \ {p} : Same(q)
        BY <1>0, <3>3 DEF Same
      <4>2. SingleTransferStep
        BY <1>0, <3>2, <3>3, <4>1, RowSent DEF StillPrepared
      <4>3. \A q \in Payouts : payout'[q].status = "COMPLETED" => payout[q].status = "COMPLETED"
        BY <1>0, <4>1 DEF Same, Payout
      <4>4. TransferInv'
        BY <1>0, <3>2, <3>3, <4>3, TransferGoto
      <4> QED BY <4>2, <4>4
    <3> QED BY <1>2, <3>1, <3>2, <3>3
  <2>5. CASE Transfer(w)
    BY <1>0, <2>5, TransferPays, RowsSame, RowPaid
  <2>6. CASE Review(w)
    <3> DEFINE p == Job(w)
    <3>1. UNCHANGED moved /\ Goto(w, "send", Seen(w), Jobs(w), None)
      BY <2>6 DEF Review, NextJob
    <3>2. p \in Payouts
      BY <2>6 DEF Review, At, TransferInv, OnceInv, Typed, JobAtHand, Sending, Job
    <3>3. \/ UNCHANGED payout
          \/ /\ payout[p].status = "SENT"
             /\ payout' = [payout EXCEPT ![p].status = "REVIEW_REQUIRED"]
      BY <2>6 DEF Review, ToReview
    <3>4. CASE payout[p].status = "SENT"
               /\ payout' = [payout EXCEPT ![p].status = "REVIEW_REQUIRED"]
      <4>1. /\ payout'[p] = [payout[p] EXCEPT !.status = "REVIEW_REQUIRED"]
            /\ \A q \in Payouts \ {p} : Same(q)
        BY <1>0, <3>2, <3>4 DEF Same
      <4>2. SingleTransferStep
        <5>1. \A q \in {p} : /\ payout[q].status = "SENT"
                             /\ payout'[q] = [payout[q] EXCEPT !.status = "REVIEW_REQUIRED"]
          BY <3>4, <4>1
        <5>2. {p} \in SUBSET Payouts
          BY <3>2
        <5> QED BY <1>0, <3>1, <4>1, <5>1, <5>2, RowsGivenUp
      <4>3. \A q \in Payouts : payout'[q].status = "COMPLETED" => payout[q].status = "COMPLETED"
        BY <1>0, <3>2, <4>1 DEF Same, Payout
      <4>4. TransferInv'
        BY <1>0, <3>1, <4>3, TransferGoto
      <4> QED BY <4>2, <4>4
    <3> QED BY <1>2, <3>1, <3>3, <3>4
  <2>7. CASE Record(w)
    <3> DEFINE p == Job(w)
    <3>1. UNCHANGED moved /\ Goto(w, "send", Seen(w), Jobs(w), None)
      BY <2>7 DEF Record, NextJob
    <3>2. p \in Payouts /\ moved[p] = 1
      BY <2>7 DEF Record, At, TransferInv, RecordsMoved, OnceInv, Typed, JobAtHand, Sending, Job
    <3>3. \/ UNCHANGED payout
          \/ /\ payout[p].status = "SENT"
             /\ payout' = [payout EXCEPT ![p].status = "COMPLETED"]
      BY <2>7 DEF Record
    <3>4. CASE payout[p].status = "SENT"
               /\ payout' = [payout EXCEPT ![p].status = "COMPLETED"]
      <4>1. /\ payout'[p] = [payout[p] EXCEPT !.status = "COMPLETED"]
            /\ \A q \in Payouts \ {p} : Same(q)
        BY <1>0, <3>2, <3>4 DEF Same
      <4>2. SingleTransferStep
        BY <1>0, <3>1, <3>2, <3>4, <4>1, RowRecorded
      <4>3. \A q \in Payouts : payout'[q].status = "COMPLETED"
                                => payout[q].status = "COMPLETED" \/ moved[q] = 1
        BY <3>2, <4>1 DEF Same
      <4>4. TransferInv'
        BY <1>0, <3>1, <4>3, TransferGoto
      <4> QED BY <4>2, <4>4
    <3> QED BY <1>2, <3>1, <3>3, <3>4
  <2>8. CASE EndDispatch(w)
    BY <1>3, <2>8 DEF EndDispatch
  <2>9. CASE Abandon(w)
    BY <1>3, <2>9 DEF Abandon
  <2> QED BY <1>7, <2>1, <2>2, <2>3, <2>4, <2>5, <2>6, <2>7, <2>8, <2>9 DEF DispatchStep
<1>8. ASSUME NEW w \in Workers, NEW u \in Users, SettleBet(w, u) \/ Settle(w, u)
      PROVE  TransferInv' /\ SingleTransferStep
  BY <1>1, <1>8 DEF SettleBet, Settle, paying
<1>9. CASE UNCHANGED vars
  BY <1>1, <1>9 DEF vars
<1> QED BY <1>4, <1>5, <1>6, <1>7, <1>8, <1>9 DEF Next

\* Payouts listed twice, dispatches beside each other, restarts and lost answers:
\* together they move a payout as one process that marks it, pays it once and
\* records or gives it up would (service.go Run, dispatchFees, sendFee).
THEOREM FeeImplementsSingleTransfer == Spec => ImplementsSingleTransfer
<1>1. Init => TransferInv /\ SingleTransfers!Init
  <2>1. ASSUME Init PROVE Untouched /\ Alone /\ NotYetMoved /\ MovedOnce
    BY <2>1, FeeAssumption
       DEF Init, Untouched, Alone, NotYetMoved, MovedOnce, IdleDispatch, Job
  <2>2. ASSUME Init PROVE RecordsMoved /\ RecordedIsMoved
    BY <2>2 DEF Init, RecordsMoved, RecordedIsMoved, IdleDispatch, AbsentPayout
  <2>3. ASSUME Init PROVE SingleTransfers!Init
    BY <2>3 DEF Init, SingleTransfers!Init, AbsentPayout, BookOf
  <2> QED BY <2>1, <2>2, <2>3, TypedInit DEF OnceInv, TransferInv
<1>2. TransferInv /\ [Next]_vars
        => TransferInv' /\ [SingleTransfers!Next]_<<Book, Due, moved>>
  BY TransferStep DEF SingleTransferStep
<1> QED BY <1>1, <1>2, PTL DEF Spec, ImplementsSingleTransfer, SingleTransfers!Spec, Book, Due

-----------------------------------------------------------------------------
(* One process at a time *)

\* With one process at a time nobody but that process is dispatching, and the
\* amounts its first query saw are booked until it has inserted them.
OneUp == \A v, w \in Workers : process[v] = "up" /\ process[w] = "up" => v = w

DownIdle == \A w \in Workers : process[w] # "up" => dispatch[w].pc = "idle"

SeenIsBooked == \A w \in Workers : dispatch[w].pc = "insert" =>
  \A u \in Users : Seen(w)[u] <= pending[u]

\* A payout has a user, who has no other that is open.
Owned == \A p \in Payouts : payout[p].status # "ABSENT" => payout[p].user \in Users

OneOpen == \A p, q \in Payouts :
  /\ payout[p].status \in Unresolved /\ payout[q].status \in Unresolved
  /\ payout[p].user = payout[q].user
  => p = q

CoverInv == OneUp /\ DownIdle /\ SeenIsBooked /\ Owned /\ OneOpen /\ PayoutCovered

\* Starting a process keeps it: with MaxProcesses = 1 no other is up.
LEMMA CoverBoot ==
  ASSUME MaxProcesses = 1, IsFiniteSet(Workers), Typed, CoverInv,
         NEW w \in Workers, Boot(w)
  PROVE  CoverInv'
<1>1. \A v \in Workers : process[v] # "up"
  <2> DEFINE up == {v \in Workers : process[v] = "up"}
  <2>1. IsFiniteSet(up) /\ Cardinality(up) < 1
    BY FS_Subset DEF Boot
  <2>2. Cardinality(up) = 0
    BY <2>1, FS_CardinalityType
  <2>3. up = {}
    BY <2>1, <2>2, FS_EmptySet
  <2> QED BY <2>3
<1>2. UNCHANGED <<pending, dispatch>>
  BY DEF Boot
<1>3. process' = [process EXCEPT ![w] = "up"] /\ process \in [Workers -> {"unborn", "up", "dead"}]
  BY DEF Boot, Typed, TypeOK
<1>4. \A p \in Payouts : /\ payout'[p].user = payout[p].user
                         /\ payout'[p].amount = payout[p].amount
                         /\ payout'[p].status = "ABSENT" <=> payout[p].status = "ABSENT"
                         /\ payout'[p].status \in Unresolved <=> payout[p].status \in Unresolved
  BY DEF Boot, SentSetAside, Typed, TypeOK, Payout, Unresolved
<1>5. OneUp' /\ DownIdle' /\ SeenIsBooked'
  BY <1>1, <1>2, <1>3 DEF CoverInv, OneUp, DownIdle, SeenIsBooked, Seen
<1>6. Owned' /\ OneOpen' /\ PayoutCovered'
  BY <1>2, <1>4 DEF CoverInv, Owned, OneOpen, PayoutCovered
<1> QED BY <1>5, <1>6 DEF CoverInv

\* A step that books no less than was booked, opens no payout and changes no
\* owner or amount keeps the owners and the cover.
LEMMA CoverFrame ==
  ASSUME Typed, Typed', CoverInv,
         \A u \in Users : pending'[u] >= pending[u],
         \A p \in Payouts : /\ payout'[p].user = payout[p].user
                            /\ payout'[p].amount = payout[p].amount
                            /\ payout'[p].status = "ABSENT" <=> payout[p].status = "ABSENT"
                            /\ payout'[p].status \in Unresolved
                                 => payout[p].status \in Unresolved
  PROVE  Owned' /\ OneOpen' /\ PayoutCovered'
<1>1. Owned' /\ OneOpen'
  BY DEF CoverInv, Owned, OneOpen
<1>2. \A p \in Payouts : payout[p].amount \in Nat
  BY DEF Typed, TypeOK, Payout
<1>3. pending \in [Users -> Nat] /\ pending' \in [Users -> Nat]
  BY DEF Typed, TypeOK
<1>4. ASSUME NEW p \in Payouts, payout'[p].status \in Unresolved
      PROVE  payout'[p].amount <= pending'[payout'[p].user]
  <2>1. payout[p].status \in Unresolved /\ payout[p].user \in Users
    BY <1>4 DEF CoverInv, Owned, Unresolved
  <2>2. payout[p].amount <= pending[payout[p].user]
    BY <2>1 DEF CoverInv, PayoutCovered
  <2> QED BY <1>2, <1>3, <2>1, <2>2
<1> QED BY <1>1, <1>4 DEF PayoutCovered

\* A step outside the dispatches keeps it when it books no less.
LEMMA CoverBooked ==
  ASSUME Typed, Typed', CoverInv, UNCHANGED <<process, paying>>,
         \A u \in Users : pending'[u] >= pending[u]
  PROVE  CoverInv'
<1>1. UNCHANGED payout /\ UNCHANGED dispatch /\ UNCHANGED process
  BY DEF paying
<1>2. OneUp' /\ DownIdle'
  BY <1>1 DEF CoverInv, OneUp, DownIdle
<1>3. SeenIsBooked'
  <2>1. pending \in [Users -> Nat] /\ pending' \in [Users -> Nat]
    BY DEF Typed, TypeOK
  <2>2. \A w \in Workers : Seen(w)' = Seen(w) /\ Seen(w) \in [Users -> Nat]
    BY <1>1, DispatchFields DEF Seen, Typed
  <2> QED BY <1>1, <2>1, <2>2 DEF CoverInv, SeenIsBooked
<1>4. Owned' /\ OneOpen' /\ PayoutCovered'
  BY <1>1, CoverFrame
<1> QED BY <1>2, <1>3, <1>4 DEF CoverInv

\* A dispatch that moves on in the one process that is up.
LEMMA CoverGoto ==
  ASSUME Typed, CoverInv, UNCHANGED process, NEW w \in Workers, process[w] = "up",
         NEW pc, NEW seen, NEW jobs, NEW job, Goto(w, pc, seen, jobs, job),
         pc = "insert" => \A u \in Users : seen[u] <= pending'[u]
  PROVE  OneUp' /\ DownIdle' /\ SeenIsBooked'
<1>1. /\ dispatch'[w].pc = pc /\ Seen(w)' = seen
      /\ \A v \in Workers \ {w} : dispatch'[v] = dispatch[v]
  BY GotoFields DEF Typed
<1>2. \A v \in Workers \ {w} : process[v] # "up" /\ dispatch[v].pc = "idle"
  BY DEF CoverInv, OneUp, DownIdle
<1>3. OneUp' /\ DownIdle'
  BY <1>1, <1>2 DEF CoverInv, OneUp, DownIdle
<1>4. ASSUME NEW v \in Workers, dispatch'[v].pc = "insert", NEW u \in Users
      PROVE  Seen(v)'[u] <= pending'[u]
  BY <1>1, <1>2, <1>4
<1> QED BY <1>3, <1>4 DEF SeenIsBooked

\* A step of a dispatch that neither opens a payout nor books less keeps it.
LEMMA CoverMovesOn ==
  ASSUME Typed, Typed', CoverInv, UNCHANGED <<process, pending>>, NEW w \in Workers,
         process[w] = "up", NEW pc, NEW seen, NEW jobs, NEW job,
         Goto(w, pc, seen, jobs, job),
         pc = "insert" => \A u \in Users : seen[u] <= pending[u],
         \A p \in Payouts : /\ payout'[p].user = payout[p].user
                            /\ payout'[p].amount = payout[p].amount
                            /\ payout'[p].status = "ABSENT" <=> payout[p].status = "ABSENT"
                            /\ payout'[p].status \in Unresolved
                                 => payout[p].status \in Unresolved
  PROVE  CoverInv'
<1>1. OneUp' /\ DownIdle' /\ SeenIsBooked'
  BY CoverGoto
<1>2. \A u \in Users : pending'[u] >= pending[u]
  BY DEF Typed, TypeOK
<1> QED BY <1>1, <1>2, CoverFrame DEF CoverInv

\* A dispatch that ends, with its process or without it, keeps it.
LEMMA CoverIdle ==
  ASSUME Typed, Typed', CoverInv, UNCHANGED <<pending, payout>>, NEW w \in Workers,
         \/ UNCHANGED process
         \/ process' = [process EXCEPT ![w] = "dead"],
         dispatch' = [dispatch EXCEPT ![w] = IdleDispatch]
  PROVE  CoverInv'
<1>1. Goto(w, "idle", [u \in Users |-> 0], NoJobs, None)
  BY DEF Goto, IdleDispatch
<1>2. /\ dispatch'[w].pc = "idle"
      /\ \A v \in Workers \ {w} : dispatch'[v] = dispatch[v]
  BY <1>1, GotoFields DEF Typed
<1>3. \A v \in Workers : process'[v] = "up" => process[v] = "up"
  BY DEF Typed, TypeOK
<1>4. \A v \in Workers \ {w} : process'[v] = process[v]
  BY DEF Typed, TypeOK
<1>5. OneUp' /\ DownIdle'
  BY <1>2, <1>3, <1>4 DEF CoverInv, OneUp, DownIdle
<1>6. SeenIsBooked'
  BY <1>2 DEF CoverInv, SeenIsBooked, Seen
<1>7. \A u \in Users : pending'[u] >= pending[u]
  BY DEF Typed, TypeOK
<1> QED BY <1>5, <1>6, <1>7, CoverFrame DEF CoverInv

\* A payout is inserted with an amount that is still booked, for a user who has
\* no open one.
LEMMA CoverInsert ==
  ASSUME Typed, Typed', CoverInv, NEW w \in Workers, InsertPayout(w)
  PROVE  CoverInv'
<1>1. process[w] = "up" /\ dispatch[w].pc = "insert" /\ UNCHANGED <<process, pending>>
  BY DEF InsertPayout, At
<1>2. PICK u \in Users :
        \/ /\ NoneUnresolved(u)
           /\ \E p \in Payouts :
                /\ payout[p].status = "ABSENT"
                /\ payout' = [payout EXCEPT ![p] =
                     [user |-> u, amount |-> Seen(w)[u], status |-> "PREPARED"]]
                /\ Goto(w, "insert", [Seen(w) EXCEPT ![u] = 0],
                        [Jobs(w) EXCEPT ![p] = @ + 1], None)
        \/ /\ Goto(w, "insert", [Seen(w) EXCEPT ![u] = 0], Jobs(w), None)
           /\ UNCHANGED payout
  BY DEF InsertPayout
<1> DEFINE seen == [Seen(w) EXCEPT ![u] = 0]
<1>3. Seen(w) \in [Users -> Nat] /\ pending \in [Users -> Nat]
  BY DispatchFields DEF Typed, TypeOK
<1>4. \A x \in Users : Seen(w)[x] <= pending[x]
  BY <1>1 DEF CoverInv, SeenIsBooked
<1>5. \A x \in Users : seen[x] <= pending[x]
  BY <1>3, <1>4
<1>6. CASE Goto(w, "insert", seen, Jobs(w), None) /\ UNCHANGED payout
  BY <1>1, <1>5, <1>6, CoverMovesOn
<1>7. ASSUME NEW p \in Payouts, NoneUnresolved(u),
             payout[p].status = "ABSENT",
             payout' = [payout EXCEPT ![p] =
               [user |-> u, amount |-> Seen(w)[u], status |-> "PREPARED"]],
             NEW jobs, Goto(w, "insert", seen, jobs, None)
      PROVE  CoverInv'
  <2>1. OneUp' /\ DownIdle' /\ SeenIsBooked'
    BY <1>1, <1>5, <1>7, CoverGoto
  <2>2. /\ payout'[p] = [user |-> u, amount |-> Seen(w)[u], status |-> "PREPARED"]
        /\ \A q \in Payouts \ {p} : payout'[q] = payout[q]
    BY <1>7 DEF Typed, TypeOK
  <2>3. Owned'
    BY <2>2 DEF CoverInv, Owned
  <2>4. OneOpen'
    BY <1>7, <2>2 DEF CoverInv, OneOpen, NoneUnresolved
  <2>5. PayoutCovered'
    BY <1>1, <1>4, <2>2 DEF CoverInv, PayoutCovered
  <2> QED BY <2>1, <2>3, <2>4, <2>5 DEF CoverInv
<1> QED BY <1>2, <1>6, <1>7

\* Recording a payout takes its amount from the booked fees of its user, who has
\* no other open payout.
LEMMA CoverRecord ==
  ASSUME Typed, Typed', CoverInv, NEW w \in Workers, Record(w)
  PROVE  CoverInv'
<1> DEFINE p == Job(w)  u == payout[p].user
<1>1. process[w] = "up" /\ UNCHANGED process /\ NextJob(w) /\ p \in Payouts
  BY DEF Record, At, Typed, JobAtHand, Sending, Job
<1>2. CASE payout[p].status # "SENT"
  BY <1>1, <1>2, CoverMovesOn DEF Record, NextJob
<1>3. CASE payout[p].status = "SENT"
  <2>1. OneUp' /\ DownIdle' /\ SeenIsBooked'
    BY <1>1, CoverGoto DEF NextJob
  <2>2. /\ payout' = [payout EXCEPT ![p].status = "COMPLETED"]
        /\ \A x \in Users \ {u} : pending'[x] = pending[x]
    BY <1>3 DEF Record, Typed, TypeOK
  <2>3. /\ payout'[p].status = "COMPLETED" /\ payout'[p].user = payout[p].user
        /\ \A q \in Payouts \ {p} : payout'[q] = payout[q]
    BY <1>1, <2>2 DEF Typed, TypeOK, Payout
  <2>4. Owned' /\ OneOpen'
    BY <1>3, <2>3 DEF CoverInv, Owned, OneOpen, Unresolved
  <2>5. ASSUME NEW q \in Payouts, payout'[q].status \in Unresolved
        PROVE  payout'[q].amount <= pending'[payout'[q].user]
    <3>1. q # p /\ payout'[q] = payout[q] /\ payout[q].status \in Unresolved
      BY <2>3, <2>5 DEF Unresolved
    <3>2. payout[q].user \in Users
      BY <3>1 DEF CoverInv, Owned, Unresolved
    <3>3. payout[q].user # u
      BY <1>1, <1>3, <3>1 DEF CoverInv, OneOpen, Unresolved
    <3>4. payout[q].amount <= pending[payout[q].user]
      BY <3>1 DEF CoverInv, PayoutCovered
    <3> QED BY <2>2, <3>1, <3>2, <3>3, <3>4
  <2> QED BY <2>1, <2>4, <2>5 DEF CoverInv, PayoutCovered
<1> QED BY <1>2, <1>3

\* Every step keeps it, when one process is up at a time.
LEMMA CoverStep ==
  ASSUME MaxProcesses = 1, IsFiniteSet(Workers)
  PROVE  Typed /\ CoverInv /\ [Next]_vars => CoverInv'
<1> SUFFICES ASSUME Typed, CoverInv, [Next]_vars PROVE CoverInv'
  OBVIOUS
<1>0. Typed'
  BY TypedStep
<1>00. /\ pending \in [Users -> Nat] /\ pending' \in [Users -> Nat]
       /\ payout \in [Payouts -> Payout] /\ FeeAmounts \subseteq Nat
  BY <1>0, FeeAssumption DEF Typed, TypeOK
<1>1. ASSUME NEW w \in Workers, Boot(w) PROVE CoverInv'
  BY <1>1, CoverBoot
<1>2. ASSUME NEW w \in Workers, Crash(w) PROVE CoverInv'
  BY <1>0, <1>2, CoverIdle DEF Crash
<1>3. ASSUME NEW w \in Workers, FlushStep(w) PROVE CoverInv'
  <2>1. UNCHANGED <<process, paying>>
    BY <1>3 DEF FlushStep, FlushPendingFees, AccrueSessionFees
  <2>2. \A f \in Flushes : batch[w][f].fees \in Nat
    BY DEF Typed, TypeOK, SessionFees
  <2>3. \A u \in Users : pending'[u] >= pending[u]
    BY <1>00, <1>3, <2>2 DEF FlushStep, FlushPendingFees, AccrueSessionFees
  <2> QED BY <1>0, <2>1, <2>3, CoverBooked
<1>4. ASSUME NEW w \in Workers, DispatchStep(w) PROVE CoverInv'
  <2>1. CASE ReadFees(w)
    <3>1. \A u \in Users : pending[u] <= pending[u]
      BY <1>00
    <3> QED BY <1>0, <2>1, <3>1, CoverMovesOn DEF ReadFees, At
  <2>2. CASE InsertPayout(w)
    BY <1>0, <2>2, CoverInsert
  <2>3. CASE ReadPrepared(w)
    BY <1>0, <2>3, CoverMovesOn DEF ReadPrepared, At
  <2>4. CASE MarkSent(w)
    <3>1. \A p \in Payouts : /\ payout'[p].user = payout[p].user
                             /\ payout'[p].amount = payout[p].amount
                             /\ payout'[p].status = "ABSENT" <=> payout[p].status = "ABSENT"
                             /\ payout'[p].status \in Unresolved
                                  => payout[p].status \in Unresolved
      BY <1>00, <2>4 DEF MarkSent, StillPrepared, Payout, Unresolved
    <3>2. \E jobs, job, pc : pc \in {"send", "transfer"} /\ Goto(w, pc, Seen(w), jobs, job)
      BY <2>4 DEF MarkSent
    <3>3. process[w] = "up" /\ UNCHANGED <<process, pending>>
      BY <2>4 DEF MarkSent, At
    <3> QED BY <1>0, <3>1, <3>2, <3>3, CoverMovesOn
  <2>5. CASE Transfer(w)
    <3>1. PICK pc \in {"record", "review"} : Goto(w, pc, Seen(w), Jobs(w), Job(w))
      BY <2>5 DEF Transfer
    <3>2. process[w] = "up" /\ UNCHANGED <<process, pending, payout>>
      BY <2>5 DEF Transfer, At
    <3> QED BY <1>0, <3>1, <3>2, CoverMovesOn
  <2>6. CASE Review(w)
    <3>1. \A p \in Payouts : /\ payout'[p].user = payout[p].user
                             /\ payout'[p].amount = payout[p].amount
                             /\ payout'[p].status = "ABSENT" <=> payout[p].status = "ABSENT"
                             /\ payout'[p].status \in Unresolved
                                  => payout[p].status \in Unresolved
      BY <1>00, <2>6 DEF Review, ToReview, Payout, Unresolved
    <3> QED BY <1>0, <2>6, <3>1, CoverMovesOn DEF Review, NextJob, At
  <2>7. CASE Record(w)
    BY <1>0, <2>7, CoverRecord
  <2>8. CASE EndDispatch(w)
    BY <1>0, <2>8, CoverIdle DEF EndDispatch
  <2>9. CASE Abandon(w)
    BY <1>0, <2>9, CoverIdle DEF Abandon
  <2> QED BY <1>4, <2>1, <2>2, <2>3, <2>4, <2>5, <2>6, <2>7, <2>8, <2>9 DEF DispatchStep
<1>5. ASSUME NEW w \in Workers, NEW u \in Users, SettleBet(w, u) PROVE CoverInv'
  <2>1. UNCHANGED <<process, paying, pending>>
    BY <1>5 DEF SettleBet
  <2>2. \A x \in Users : pending'[x] >= pending[x]
    BY <1>00, <2>1
  <2> QED BY <1>0, <2>1, <2>2, CoverBooked
<1>6. ASSUME NEW w \in Workers, NEW u \in Users, Settle(w, u) PROVE CoverInv'
  <2>1. PICK fee \in FeeAmounts : pending' = [pending EXCEPT ![u] = @ + fee]
    BY <1>6 DEF Settle
  <2>2. \A x \in Users : pending'[x] >= pending[x]
    BY <1>00, <2>1
  <2>3. UNCHANGED <<process, paying>>
    BY <1>6 DEF Settle
  <2> QED BY <1>0, <2>2, <2>3, CoverBooked
<1>7. CASE UNCHANGED vars
  <2>1. UNCHANGED <<process, paying, pending>>
    BY <1>7 DEF vars, paying
  <2>2. \A x \in Users : pending'[x] >= pending[x]
    BY <1>00, <2>1
  <2> QED BY <1>0, <2>1, <2>2, CoverBooked
<1> QED BY <1>1, <1>2, <1>3, <1>4, <1>5, <1>6, <1>7 DEF Next

\* When one process lives at a time, which is how serve is installed, an open
\* payout is covered by the booked fees of its user: the greatest(..., 0) of
\* sendFee hides nothing.  With a second process it may: the jobs of a dispatch are
\* then decided on amounts that another one has paid.
THEOREM OneProcessCovered ==
  ASSUME MaxProcesses = 1, IsFiniteSet(Workers)
  PROVE  Spec => []PayoutCovered
<1>1. Init => Typed /\ CoverInv
  <2>1. ASSUME Init PROVE CoverInv
    BY <2>1 DEF Init, CoverInv, OneUp, DownIdle, SeenIsBooked, Owned, OneOpen,
       PayoutCovered, IdleDispatch, AbsentPayout, Unresolved
  <2> QED BY <2>1, TypedInit
<1>2. Typed /\ CoverInv /\ [Next]_vars => Typed' /\ CoverInv'
  BY TypedStep, CoverStep
<1>3. CoverInv => PayoutCovered
  BY DEF CoverInv
<1> QED BY <1>1, <1>2, <1>3, PTL DEF Spec

-----------------------------------------------------------------------------
(* No fee is counted twice *)

BatchFees(w) == [f \in Flushes |-> batch[w][f].fees]
HeldFees     == [w \in Workers |-> buffer[w].fees + SumFunction(BatchFees(w))]
PaidTerms(u) == [p \in Payouts |->
  IF payout[p].user = u /\ payout[p].status = "COMPLETED" THEN payout[p].amount ELSE 0]
PaidFees     == [u \in Users |-> PaidOut(u)]

\* What the sums range over is finite.
FiniteLedger ==
  IsFiniteSet(Workers) /\ IsFiniteSet(Flushes) /\ IsFiniteSet(Users) /\ IsFiniteSet(Payouts)

\* NoFeeTwice over the named terms.
LEMMA NoFeeTwiceIs ==
  NoFeeTwice <=> SumFunction(HeldFees) + SumFunction(pending) + SumFunction(PaidFees)
                   <= SumFunction(earned)
  BY DEF NoFeeTwice, Waiting, HeldFees, BatchFees, PaidFees

\* All terms and totals are naturals.
Totals ==
  /\ earned \in [Users -> Nat] /\ SumFunction(earned) \in Nat
  /\ pending \in [Users -> Nat] /\ SumFunction(pending) \in Nat
  /\ \A w \in Workers : /\ BatchFees(w) \in [Flushes -> Nat]
                        /\ SumFunction(BatchFees(w)) \in Nat
  /\ HeldFees \in [Workers -> Nat] /\ SumFunction(HeldFees) \in Nat
  /\ \A u \in Users : PaidTerms(u) \in [Payouts -> Nat] /\ PaidOut(u) \in Nat
  /\ PaidFees \in [Users -> Nat] /\ SumFunction(PaidFees) \in Nat

\* They are, of the types of the model.
LEMMA TotalsTyped == FiniteLedger /\ Typed => Totals
<1> SUFFICES ASSUME FiniteLedger, Typed PROVE Totals
  OBVIOUS
<1>1. /\ earned \in [Users -> Nat] /\ pending \in [Users -> Nat]
      /\ \A w \in Workers : buffer[w].fees \in Nat /\ \A f \in Flushes : batch[w][f].fees \in Nat
      /\ \A p \in Payouts : payout[p].amount \in Nat
  BY DEF Typed, TypeOK, SessionFees, Payout
<1>2. \A w \in Workers : BatchFees(w) \in [Flushes -> Nat]
  BY <1>1 DEF BatchFees
<1>3. \A w \in Workers : SumFunction(BatchFees(w)) \in Nat
  BY <1>2, TotalTyped DEF FiniteLedger
<1>4. HeldFees \in [Workers -> Nat]
  BY <1>1, <1>3 DEF HeldFees
<1>5. \A u \in Users : PaidTerms(u) \in [Payouts -> Nat]
  BY <1>1 DEF PaidTerms
<1>6. \A u \in Users : PaidOut(u) \in Nat
  BY <1>5, TotalTyped DEF FiniteLedger, PaidOut, PaidTerms
<1>7. PaidFees \in [Users -> Nat]
  BY <1>6 DEF PaidFees
<1> QED
  BY <1>1, <1>2, <1>3, <1>4, <1>5, <1>6, <1>7, TotalTyped DEF FiniteLedger, Totals

\* And after a step.
LEMMA TotalsTypedNext == (FiniteLedger /\ Typed => Totals)'
  BY TotalsTyped, PTL

\* What one process holds changes by what its buffer and one of its batches do.
LEMMA HeldChanges ==
  ASSUME FiniteLedger, Typed, Typed', NEW w \in Workers, NEW f \in Flushes,
         \A v \in Workers \ {w} : buffer'[v] = buffer[v] /\ batch'[v] = batch[v],
         \A g \in Flushes \ {f} : batch'[w][g] = batch[w][g]
  PROVE  SumFunction(HeldFees)' = SumFunction(HeldFees)
           - buffer[w].fees - batch[w][f].fees + buffer'[w].fees + batch'[w][f].fees
<1>1. /\ buffer[w].fees \in Nat /\ buffer'[w].fees \in Nat
      /\ batch[w][f].fees \in Nat /\ batch'[w][f].fees \in Nat
  BY DEF Typed, TypeOK, SessionFees
<1>2. /\ BatchFees(w) \in [Flushes -> Nat] /\ BatchFees(w)' \in [Flushes -> Nat]
      /\ SumFunction(BatchFees(w)) \in Nat /\ SumFunction(BatchFees(w)') \in Nat
      /\ HeldFees \in [Workers -> Nat] /\ HeldFees' \in [Workers -> Nat]
      /\ SumFunction(HeldFees) \in Nat
  <2>1. Totals /\ Totals'
    BY TotalsTyped, TotalsTypedNext DEF FiniteLedger
  <2> QED BY <2>1 DEF Totals
<1>3. SumFunction(BatchFees(w)') =
        SumFunction(BatchFees(w)) - batch[w][f].fees + batch'[w][f].fees
  <2>1. \A g \in Flushes \ {f} : BatchFees(w)'[g] = BatchFees(w)[g]
    BY DEF BatchFees
  <2>2. BatchFees(w)[f] = batch[w][f].fees /\ BatchFees(w)'[f] = batch'[w][f].fees
    BY DEF BatchFees
  <2>3. PICK a, b : a = BatchFees(w) /\ b = BatchFees(w)'
    OBVIOUS
  <2>4. /\ IsFiniteSet(Flushes) /\ a \in [Flushes -> Int] /\ b \in [Flushes -> Int]
        /\ \A g \in Flushes \ {f} : b[g] = a[g]
    BY <1>2, <2>1, <2>3 DEF FiniteLedger
  <2>5. SumFunction(b) = SumFunction(a) - a[f] + b[f]
    BY <2>4, TotalChange
  <2> QED BY <2>2, <2>3, <2>5
<1>4. \A v \in Workers \ {w} : HeldFees'[v] = HeldFees[v]
  BY DEF HeldFees, BatchFees
<1>5. SumFunction(HeldFees') = SumFunction(HeldFees) - HeldFees[w] + HeldFees'[w]
  BY <1>2, <1>4, TotalChange DEF FiniteLedger
<1>6. /\ HeldFees[w] = buffer[w].fees + SumFunction(BatchFees(w))
      /\ HeldFees'[w] = buffer'[w].fees + SumFunction(BatchFees(w)')
  BY DEF HeldFees
<1> QED BY <1>1, <1>2, <1>3, <1>5, <1>6

\* Nobody's paid fees change with what is not COMPLETED.
LEMMA PaidStays ==
  ASSUME \A p \in Payouts :
           \/ payout'[p] = payout[p]
           \/ payout[p].status # "COMPLETED" /\ payout'[p].status # "COMPLETED"
  PROVE  SumFunction(PaidFees)' = SumFunction(PaidFees)
<1>1. \A u \in Users : PaidTerms(u)' = PaidTerms(u)
  BY DEF PaidTerms
<1>2. \A u \in Users : PaidOut(u) = SumFunction(PaidTerms(u))
  BY DEF PaidOut, PaidTerms
<1>3. \A u \in Users : PaidOut(u)' = SumFunction(PaidTerms(u)')
  BY DEF PaidOut, PaidTerms
<1>4. PaidFees' = PaidFees
  BY <1>1, <1>2, <1>3 DEF PaidFees
<1> QED BY <1>4

\* A payout that becomes COMPLETED is paid to its user.
LEMMA PaidMore ==
  ASSUME FiniteLedger, Typed, Typed', NEW p \in Payouts, payout[p].user \in Users,
         payout[p].status # "COMPLETED",
         payout' = [payout EXCEPT ![p].status = "COMPLETED"]
  PROVE  SumFunction(PaidFees)' = SumFunction(PaidFees) + payout[p].amount
<1> DEFINE u == payout[p].user
<1>1. Totals /\ Totals'
  BY TotalsTyped, TotalsTypedNext DEF FiniteLedger
<1>2. /\ payout'[p].status = "COMPLETED" /\ payout'[p].user = u
      /\ payout'[p].amount = payout[p].amount /\ payout[p].amount \in Nat
      /\ \A q \in Payouts \ {p} : payout'[q] = payout[q]
  BY DEF Typed, TypeOK, Payout
<1>3. /\ \A v \in Users : PaidOut(v) = SumFunction(PaidTerms(v))
      /\ \A v \in Users : PaidOut(v)' = SumFunction(PaidTerms(v)')
  BY DEF PaidOut, PaidTerms
<1>4. \A v \in Users \ {u} : PaidTerms(v)' = PaidTerms(v)
  BY <1>2 DEF PaidTerms
<1>5. /\ PaidTerms(u)[p] = 0 /\ PaidTerms(u)'[p] = payout[p].amount
      /\ \A q \in Payouts \ {p} : PaidTerms(u)'[q] = PaidTerms(u)[q]
  BY <1>2 DEF PaidTerms
<1>6. /\ PaidTerms(u) \in [Payouts -> Nat] /\ PaidTerms(u)' \in [Payouts -> Nat]
      /\ PaidFees \in [Users -> Nat] /\ PaidFees' \in [Users -> Nat]
      /\ SumFunction(PaidFees) \in Nat /\ PaidOut(u) \in Nat
  BY <1>1 DEF Totals
<1> HIDE DEF u
<1>7. SumFunction(PaidTerms(u)') = SumFunction(PaidTerms(u)) - 0 + payout[p].amount
  BY <1>5, <1>6, TotalChange DEF FiniteLedger
<1>8. PaidOut(u)' = PaidOut(u) + payout[p].amount
  BY <1>2, <1>3, <1>6, <1>7 DEF u
<1>9. /\ PaidFees[u] = PaidOut(u) /\ PaidFees'[u] = PaidOut(u)'
      /\ \A v \in Users \ {u} : PaidFees'[v] = PaidFees[v]
  BY <1>3, <1>4 DEF PaidFees, u
<1>10. SumFunction(PaidFees') = SumFunction(PaidFees) - PaidFees[u] + PaidFees'[u]
  BY <1>6, <1>9, TotalChange DEF FiniteLedger, u
<1> QED BY <1>2, <1>6, <1>8, <1>9, <1>10

\* The four sums NoFeeTwice compares.
InMemory == SumFunction(HeldFees)
Booked   == SumFunction(pending)
Paid     == SumFunction(PaidFees)
Earned   == SumFunction(earned)

\* They are naturals.
LEMMA SumsTyped ==
  ASSUME FiniteLedger, Typed
  PROVE  InMemory \in Nat /\ Booked \in Nat /\ Paid \in Nat /\ Earned \in Nat
<1>1. Totals
  BY TotalsTyped
<1> QED BY <1>1 DEF Totals, InMemory, Booked, Paid, Earned

\* Before and after a step.
LEMMA SumsTypedNext ==
  ASSUME FiniteLedger, Typed, Typed'
  PROVE  /\ InMemory \in Nat /\ Booked \in Nat /\ Paid \in Nat /\ Earned \in Nat
         /\ InMemory' \in Nat /\ Booked' \in Nat /\ Paid' \in Nat /\ Earned' \in Nat
<1>1. Totals /\ Totals'
  BY TotalsTyped, TotalsTypedNext DEF FiniteLedger
<1> QED BY <1>1 DEF Totals, InMemory, Booked, Paid, Earned

\* NoFeeTwice over the four sums, before and after a step.
LEMMA NoFeeTwiceSums == NoFeeTwice <=> InMemory + Booked + Paid <= Earned
  BY NoFeeTwiceIs DEF InMemory, Booked, Paid, Earned

\* And after a step.
LEMMA NoFeeTwiceNext == (NoFeeTwice <=> InMemory + Booked + Paid <= Earned)'
  BY NoFeeTwiceSums, PTL

\* One more fee for a user is one fee more in total.
LEMMA UserFeeAdds ==
  ASSUME FiniteLedger, NEW ledger \in [Users -> Nat], NEW more \in [Users -> Nat],
         NEW u \in Users, NEW fee \in Int, more[u] = ledger[u] + fee,
         \A v \in Users \ {u} : more[v] = ledger[v]
  PROVE  SumFunction(more) = SumFunction(ledger) + fee
<1>1. SumFunction(ledger) \in Nat
  BY TotalTyped DEF FiniteLedger
<1>2. SumFunction(more) = SumFunction(ledger) - ledger[u] + more[u]
  BY TotalChange DEF FiniteLedger
<1> QED BY <1>1, <1>2

\* Nothing that the sums look at changes, but for payouts that are not COMPLETED.
LEMMA FeesStay ==
  ASSUME NoFeeTwice, UNCHANGED <<earned, pending, buffer, batch>>,
         \A p \in Payouts :
           \/ payout'[p] = payout[p]
           \/ payout[p].status # "COMPLETED" /\ payout'[p].status # "COMPLETED"
  PROVE  NoFeeTwice'
<1>1. HeldFees' = HeldFees
  BY DEF HeldFees, BatchFees
<1>2. InMemory' = InMemory /\ Booked' = Booked /\ Earned' = Earned
  BY <1>1 DEF InMemory, Booked, Earned
<1>3. Paid' = Paid
  BY PaidStays DEF Paid
<1> QED BY <1>2, <1>3, NoFeeTwiceSums, NoFeeTwiceNext

\* A roll's fee is earned, and waits or is booked.
LEMMA FeesEarned ==
  ASSUME FiniteLedger, Typed, Typed', NoFeeTwice, NEW w \in Workers, NEW u \in Users,
         SettleBet(w, u) \/ Settle(w, u)
  PROVE  NoFeeTwice'
<1>1. Totals /\ Totals'
  BY TotalsTyped, TotalsTypedNext DEF FiniteLedger
<1>2. /\ earned \in [Users -> Nat] /\ earned' \in [Users -> Nat]
      /\ pending \in [Users -> Nat] /\ pending' \in [Users -> Nat]
      /\ HeldFees \in [Workers -> Nat] /\ HeldFees' \in [Workers -> Nat]
  BY <1>1 DEF Totals
<1>3. UNCHANGED payout
  BY DEF SettleBet, Settle, paying
<1>4. Paid' = Paid
  BY <1>3, PaidStays DEF Paid
<1>5. PICK fee \in FeeAmounts :
        /\ earned' = [earned EXCEPT ![u] = @ + fee]
        /\ \/ /\ pending' = [pending EXCEPT ![u] = @ + fee]
              /\ UNCHANGED <<buffer, batch>>
           \/ /\ buffer' = [buffer EXCEPT ![w] = With(buffer[w], u, fee)]
              /\ UNCHANGED <<pending, batch>>
  BY DEF SettleBet, Settle
<1>6. fee \in Nat
  BY FeeAssumption
<1>7. Earned' = Earned + fee
  <2>1. earned'[u] = earned[u] + fee /\ \A v \in Users \ {u} : earned'[v] = earned[v]
    BY <1>2, <1>5
  <2> QED BY <1>2, <1>6, <2>1, UserFeeAdds DEF Earned
<1>8. InMemory' + Booked' = InMemory + Booked + fee
  <2>1. InMemory \in Nat /\ Booked \in Nat
    BY SumsTyped
  <2>2. CASE pending' = [pending EXCEPT ![u] = @ + fee] /\ UNCHANGED <<buffer, batch>>
    <3>1. pending'[u] = pending[u] + fee /\ \A v \in Users \ {u} : pending'[v] = pending[v]
      BY <1>2, <2>2
    <3>2. Booked' = Booked + fee
      BY <1>2, <1>6, <3>1, UserFeeAdds DEF Booked
    <3>3. HeldFees' = HeldFees
      BY <2>2 DEF HeldFees, BatchFees
    <3>4. InMemory' = InMemory
      BY <3>3 DEF InMemory
    <3> QED BY <1>6, <2>1, <3>2, <3>4
  <2>3. CASE /\ buffer' = [buffer EXCEPT ![w] = With(buffer[w], u, fee)]
             /\ UNCHANGED <<pending, batch>>
    <3>1. /\ buffer \in [Workers -> SessionFees] /\ buffer[w].fees \in Nat
          /\ buffer'[w].fees = buffer[w].fees + fee
          /\ \A v \in Workers \ {w} : buffer'[v] = buffer[v]
      BY <2>3 DEF With, Typed, TypeOK, SessionFees
    <3>2. /\ \A v \in Workers : BatchFees(v)' = BatchFees(v)
          /\ SumFunction(BatchFees(w)) \in Nat /\ HeldFees[w] \in Nat
      BY <1>1, <2>3 DEF Totals, BatchFees
    <3>3. HeldFees'[w] = HeldFees[w] + fee
      BY <1>6, <3>1, <3>2 DEF HeldFees
    <3>4. \A v \in Workers \ {w} : HeldFees'[v] = HeldFees[v]
      BY <3>1, <3>2 DEF HeldFees
    <3>5. SumFunction(HeldFees') = SumFunction(HeldFees) - HeldFees[w] + HeldFees'[w]
      BY <1>2, <3>4, TotalChange DEF FiniteLedger
    <3>6. InMemory' = InMemory - HeldFees[w] + HeldFees'[w]
      BY <3>5 DEF InMemory
    <3>7. Booked' = Booked
      BY <2>3 DEF Booked
    <3> QED BY <1>6, <2>1, <3>2, <3>3, <3>6, <3>7
  <2> QED BY <1>5, <2>2, <2>3
<1>9. NoFeeTwice' <=> InMemory' + Booked' + Paid' <= Earned'
  BY NoFeeTwiceNext
<1> QED BY <1>4, <1>6, <1>7, <1>8, <1>9, NoFeeTwiceSums, SumsTypedNext

\* A flush moves the buffer into a batch, and a batch into the books or nowhere.
LEMMA FeesFlushed ==
  ASSUME FiniteLedger, Typed, Typed', NoFeeTwice, NEW w \in Workers, NEW f \in Flushes,
         FlushPendingFees(w, f) \/ AccrueSessionFees(w, f)
  PROVE  NoFeeTwice'
<1>1. /\ InMemory \in Nat /\ Booked \in Nat /\ Paid \in Nat /\ Earned \in Nat
      /\ pending \in [Users -> Nat] /\ pending' \in [Users -> Nat]
  BY SumsTyped DEF Typed, TypeOK
<1>2. UNCHANGED <<payout, earned>>
  BY DEF FlushPendingFees, AccrueSessionFees, paying
<1>3. Paid' = Paid /\ Earned' = Earned
  BY <1>2, PaidStays DEF Paid, Earned
<1>4. /\ buffer \in [Workers -> SessionFees] /\ batch \in [Workers -> [Flushes -> SessionFees]]
      /\ buffer[w].fees \in Nat /\ batch[w][f].fees \in Nat /\ NoFees.fees = 0
  BY DEF Typed, TypeOK, SessionFees, NoFees
<1>5. CASE FlushPendingFees(w, f)
  <2>1. /\ buffer'[w] = NoFees /\ batch'[w][f] = buffer[w] /\ batch[w][f] = NoFees
        /\ \A v \in Workers \ {w} : buffer'[v] = buffer[v] /\ batch'[v] = batch[v]
        /\ \A g \in Flushes \ {f} : batch'[w][g] = batch[w][g]
    BY <1>4, <1>5 DEF FlushPendingFees, EmptiedBuffer
  <2>2. InMemory' = InMemory - buffer[w].fees - batch[w][f].fees
                      + buffer'[w].fees + batch'[w][f].fees
    BY <2>1, HeldChanges DEF InMemory
  <2>3. InMemory' = InMemory
    BY <1>1, <1>4, <2>1, <2>2
  <2>4. Booked' = Booked
    BY <1>5 DEF FlushPendingFees, Booked
  <2> QED BY <1>3, <2>3, <2>4, NoFeeTwiceSums, NoFeeTwiceNext
<1>6. CASE AccrueSessionFees(w, f)
  <2> DEFINE fees == batch[w][f].fees
             u == batch[w][f].user
  <2>1. /\ buffer' = buffer /\ batch'[w][f] = NoFees
        /\ \A v \in Workers \ {w} : batch'[v] = batch[v]
        /\ \A g \in Flushes \ {f} : batch'[w][g] = batch[w][g]
    BY <1>4, <1>6 DEF AccrueSessionFees
  <2>2. InMemory' = InMemory - buffer[w].fees - batch[w][f].fees
                      + buffer'[w].fees + batch'[w][f].fees
    BY <2>1, HeldChanges DEF InMemory
  <2>3. InMemory' = InMemory - fees
    BY <1>1, <1>4, <2>1, <2>2
  <2>4. pending' = [pending EXCEPT ![u] = @ + fees] \/ pending' = pending
    BY <1>6 DEF AccrueSessionFees
  <2>5. fees \in Nat
    BY <1>4
  <2> HIDE DEF fees, u
  <2>6. Booked' = Booked + fees \/ Booked' = Booked
    <3>1. CASE pending' = pending
      BY <3>1 DEF Booked
    <3>2. CASE u \notin Users
      BY <1>1, <2>4, <3>2, <3>1
    <3>3. CASE pending' = [pending EXCEPT ![u] = @ + fees] /\ u \in Users
      <4>1. /\ pending'[u] = pending[u] + fees
            /\ \A v \in Users \ {u} : pending'[v] = pending[v]
        BY <1>1, <3>3
      <4>2. /\ pending \in [Users -> Nat] /\ pending' \in [Users -> Nat]
            /\ u \in Users /\ fees \in Int
        BY <1>1, <2>5, <3>3
      <4>3. SumFunction(pending') = SumFunction(pending) + fees
        BY <4>1, <4>2, UserFeeAdds
      <4> QED BY <4>3 DEF Booked
    <3> QED BY <2>4, <3>1, <3>2, <3>3
  <2> QED BY <1>1, <1>3, <2>3, <2>5, <2>6, NoFeeTwiceSums, NoFeeTwiceNext
<1> QED BY <1>5, <1>6

\* What a process that dies had in memory is lost, not counted again.
LEMMA FeesLost ==
  ASSUME FiniteLedger, Typed, Typed', NoFeeTwice, NEW w \in Workers, Crash(w)
  PROVE  NoFeeTwice'
<1>1. Totals /\ Totals'
  BY TotalsTyped, TotalsTypedNext DEF FiniteLedger
<1>2. /\ buffer' = [buffer EXCEPT ![w] = NoFees] /\ batch' = [batch EXCEPT ![w] = NoBatch]
      /\ UNCHANGED <<earned, pending, payout>>
  BY DEF Crash
<1>3. /\ buffer'[w] = NoFees /\ batch'[w] = NoBatch
      /\ \A v \in Workers \ {w} : buffer'[v] = buffer[v] /\ batch'[v] = batch[v]
  BY <1>2 DEF Typed, TypeOK
<1>4. HeldFees \in [Workers -> Nat] /\ HeldFees' \in [Workers -> Nat]
  BY <1>1 DEF Totals
<1>5. HeldFees'[w] = 0
  <2>1. BatchFees(w)' \in [Flushes -> Nat]
    BY <1>1 DEF Totals
  <2>2. \A f \in Flushes : BatchFees(w)'[f] = 0
    BY <1>3 DEF BatchFees, NoBatch, NoFees
  <2>3. SumFunction(BatchFees(w)') = 0
    BY <2>1, <2>2, TotalZero DEF FiniteLedger
  <2> QED BY <1>3, <2>3 DEF HeldFees, NoFees
<1>6. \A v \in Workers \ {w} : HeldFees'[v] = HeldFees[v]
  BY <1>3 DEF HeldFees, BatchFees
<1>7. \A v \in Workers : HeldFees'[v] <= HeldFees[v]
  BY <1>4, <1>5, <1>6
<1>8. SumFunction(HeldFees') <= SumFunction(HeldFees)
  BY <1>4, <1>7, TotalOrder DEF FiniteLedger
<1>9. InMemory' <= InMemory /\ Booked' = Booked /\ Paid' = Paid /\ Earned' = Earned
  BY <1>2, <1>8, PaidStays DEF InMemory, Booked, Paid, Earned
<1> QED BY <1>9, NoFeeTwiceSums, NoFeeTwiceNext, SumsTypedNext

\* A payout recorded is taken from what is booked, which covers it.
LEMMA FeesRecorded ==
  ASSUME FiniteLedger, Typed, Typed', CoverInv, NoFeeTwice, NEW w \in Workers, Record(w)
  PROVE  NoFeeTwice'
<1> DEFINE p == Job(w)
<1>1. p \in Payouts
  BY DEF Record, At, Typed, JobAtHand, Sending, Job, TypeOK
<1>2. UNCHANGED <<buffer, batch, earned>>
  BY DEF Record, accrual
<1>3. CASE payout[p].status # "SENT"
  <2>1. UNCHANGED <<pending, payout>>
    BY <1>3 DEF Record
  <2> QED BY <1>2, <2>1, FeesStay
<1>4. CASE payout[p].status = "SENT"
  <2> DEFINE u == payout[p].user
             due == payout[p].amount
  <2>1. /\ payout' = [payout EXCEPT ![p].status = "COMPLETED"]
        /\ pending' = [pending EXCEPT ![u] = IF @ > due THEN @ - due ELSE 0]
    BY <1>4 DEF Record
  <2>2. u \in Users /\ due \in Nat /\ due <= pending[u]
    BY <1>1, <1>4 DEF CoverInv, Owned, PayoutCovered, Unresolved, Typed, TypeOK, Payout
  <2>3. pending \in [Users -> Nat] /\ pending' \in [Users -> Nat]
    BY DEF Typed, TypeOK
  <2>4. Paid' = Paid + due
    BY <1>1, <1>4, <2>1, <2>2, PaidMore DEF Paid
  <2>5. HeldFees' = HeldFees
    BY <1>2 DEF HeldFees, BatchFees
  <2>6. InMemory' = InMemory /\ Earned' = Earned
    BY <1>2, <2>5 DEF InMemory, Earned
  <2> HIDE DEF u, due, p
  <2>7. /\ pending'[u] = pending[u] + (0 - due) /\ 0 - due \in Int
        /\ \A v \in Users \ {u} : pending'[v] = pending[v]
    BY <2>1, <2>2, <2>3
  <2>8. Booked' = Booked + (0 - due)
    BY <2>2, <2>3, <2>7, UserFeeAdds DEF Booked
  <2> QED BY <2>2, <2>4, <2>6, <2>8, NoFeeTwiceSums, NoFeeTwiceNext, SumsTypedNext
<1> QED BY <1>3, <1>4

\* Payouts whose status stays out of COMPLETED are all a step of a dispatch changes,
\* but for the one that records a payout.
LEMMA FeesDispatched ==
  ASSUME FiniteLedger, Typed, Typed', CoverInv, NoFeeTwice, NEW w \in Workers,
         DispatchStep(w)
  PROVE  NoFeeTwice'
<1>1. payout \in [Payouts -> Payout]
  BY DEF Typed, TypeOK
<1>2. CASE Record(w)
  BY <1>2, FeesRecorded
<1>3. CASE InsertPayout(w)
  <2>1. \/ payout' = payout
        \/ \E q \in Payouts, u \in Users :
             /\ payout[q].status = "ABSENT"
             /\ payout' = [payout EXCEPT ![q] =
                  [user |-> u, amount |-> Seen(w)[u], status |-> "PREPARED"]]
    BY <1>3 DEF InsertPayout
  <2>2. \A p \in Payouts : \/ payout'[p] = payout[p]
                           \/ payout[p].status = "ABSENT" /\ payout'[p].status = "PREPARED"
    BY <1>1, <2>1
  <2> QED BY <1>3, <2>2, FeesStay DEF InsertPayout, accrual
<1>4. CASE MarkSent(w)
  <2>1. \/ payout' = payout
        \/ \E q \in Payouts : /\ payout[q].status = "PREPARED"
                             /\ payout' = [payout EXCEPT ![q].status = "SENT"]
    BY <1>4 DEF MarkSent, StillPrepared
  <2>2. \A p \in Payouts : \/ payout'[p] = payout[p]
                           \/ payout[p].status = "PREPARED" /\ payout'[p].status = "SENT"
    BY <1>1, <2>1 DEF Payout
  <2> QED BY <1>4, <2>2, FeesStay DEF MarkSent, accrual
<1>5. CASE Review(w)
  <2>1. \A p \in Payouts :
          \/ payout'[p] = payout[p]
          \/ payout[p].status = "SENT" /\ payout'[p].status = "REVIEW_REQUIRED"
    BY <1>1, <1>5 DEF Review, ToReview, Payout
  <2> QED BY <1>5, <2>1, FeesStay DEF Review, accrual
<1>6. CASE ReadFees(w) \/ ReadPrepared(w) \/ Transfer(w) \/ EndDispatch(w) \/ Abandon(w)
  <2>1. UNCHANGED <<earned, pending, buffer, batch, payout>>
    BY <1>6 DEF ReadFees, ReadPrepared, Transfer, EndDispatch, Abandon, accrual
  <2> QED BY <2>1, FeesStay
<1> QED BY <1>2, <1>3, <1>4, <1>5, <1>6 DEF DispatchStep

\* Every step keeps what waits, is booked and was paid within what was earned.
LEMMA NoFeeTwiceStep ==
  ASSUME FiniteLedger, Typed, Typed', CoverInv, NoFeeTwice, [Next]_vars
  PROVE  NoFeeTwice'
<1>1. ASSUME NEW w \in Workers, Boot(w) PROVE NoFeeTwice'
  <2>1. \A p \in Payouts :
          \/ payout'[p] = payout[p]
          \/ payout[p].status = "SENT" /\ payout'[p].status = "REVIEW_REQUIRED"
    BY <1>1 DEF Boot, SentSetAside, Typed, TypeOK, Payout
  <2> QED BY <1>1, <2>1, FeesStay DEF Boot, accrual
<1>2. ASSUME NEW w \in Workers, Crash(w) PROVE NoFeeTwice'
  BY <1>2, FeesLost
<1>3. ASSUME NEW w \in Workers, FlushStep(w) PROVE NoFeeTwice'
  BY <1>3, FeesFlushed DEF FlushStep
<1>4. ASSUME NEW w \in Workers, DispatchStep(w) PROVE NoFeeTwice'
  BY <1>4, FeesDispatched
<1>5. ASSUME NEW w \in Workers, NEW u \in Users, SettleBet(w, u) \/ Settle(w, u)
      PROVE  NoFeeTwice'
  BY <1>5, FeesEarned
<1>6. CASE UNCHANGED vars
  BY <1>6, FeesStay DEF vars
<1> QED BY <1>1, <1>2, <1>3, <1>4, <1>5, <1>6 DEF Next

\* At first all sums are 0.
LEMMA NoFeeTwiceInit ==
  ASSUME FiniteLedger, Init
  PROVE  NoFeeTwice
<1>1. Typed
  BY TypedInit
<1>2. Totals
  BY <1>1, TotalsTyped
<1>3. \A w \in Workers : SumFunction(BatchFees(w)) = 0
  <2>1. ASSUME NEW w \in Workers PROVE SumFunction(BatchFees(w)) = 0
    <3>1. BatchFees(w) \in [Flushes -> Int] /\ \A f \in Flushes : BatchFees(w)[f] = 0
      BY DEF Init, BatchFees, NoBatch, NoFees
    <3> QED BY <3>1, TotalZero DEF FiniteLedger
  <2> QED BY <2>1
<1>4. \A w \in Workers : HeldFees[w] = 0
  BY <1>3 DEF Init, HeldFees, NoFees
<1>5. \A u \in Users : PaidOut(u) = 0
  <2>1. ASSUME NEW u \in Users PROVE PaidOut(u) = 0
    <3>1. PaidTerms(u) \in [Payouts -> Int] /\ \A p \in Payouts : PaidTerms(u)[p] = 0
      BY DEF Init, PaidTerms, AbsentPayout
    <3>2. SumFunction(PaidTerms(u)) = 0
      BY <3>1, TotalZero DEF FiniteLedger
    <3> QED BY <3>2 DEF PaidOut, PaidTerms
  <2> QED BY <2>1
<1>6. \A u \in Users : PaidFees[u] = 0 /\ pending[u] = 0
  BY <1>5 DEF Init, PaidFees
<1>7. /\ HeldFees \in [Workers -> Int] /\ PaidFees \in [Users -> Int]
      /\ pending \in [Users -> Int]
  BY <1>2 DEF Totals
<1>8. InMemory = 0 /\ Booked = 0 /\ Paid = 0
  BY <1>4, <1>6, <1>7, TotalZero DEF FiniteLedger, InMemory, Booked, Paid
<1> QED BY <1>1, <1>8, SumsTyped, NoFeeTwiceSums

\* With one process at a time, what waits in memory, is booked or was paid out never
\* exceeds what the settled rolls earned: no flush that fails, crash, reconciliation or
\* dispatch counts a fee twice (engine.go FlushPendingFees, service.go sendFee).  The
\* inductive invariant is OneProcessCovered's: a record takes from the books exactly
\* what it adds to the paid fees because the books cover the payout.
THEOREM NoFeeTwiceHolds ==
  ASSUME MaxProcesses = 1, FiniteLedger
  PROVE  Spec => []NoFeeTwice
<1>1. Init => Typed /\ CoverInv /\ NoFeeTwice
  <2>1. ASSUME Init PROVE CoverInv
    BY <2>1 DEF Init, CoverInv, OneUp, DownIdle, SeenIsBooked, Owned, OneOpen,
       PayoutCovered, IdleDispatch, AbsentPayout, Unresolved
  <2> QED BY <2>1, TypedInit, NoFeeTwiceInit
<1>2. Typed /\ CoverInv /\ NoFeeTwice /\ [Next]_vars => Typed' /\ CoverInv' /\ NoFeeTwice'
  BY TypedStep, CoverStep, NoFeeTwiceStep DEF FiniteLedger
<1> QED BY <1>1, <1>2, PTL DEF Spec
=============================================================================
