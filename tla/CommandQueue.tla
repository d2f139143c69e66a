---------------------------- MODULE CommandQueue ----------------------------
(***************************************************************************)
(* The durable queue of one user's trading commands: the rows of           *)
(* trading_commands (internal/trading/commands.go), the workers that claim,*)
(* process and finish them and hand stale ones out again                   *)
(* (internal/trading/worker.go), and the COMMAND_RESULT each publishes.    *)
(*                                                                         *)
(* A worker is one process.  It may stop between any two of its statements,*)
(* a statement may fail, and two minutes may pass while it is still at     *)
(* work: RequeueStale cannot tell the last case from the first.  What the  *)
(* commands do to the session is kept to its status; whether a bet is out  *)
(* when a STOP looks is left open (Engine.Start and the rolls are          *)
(* TradingEngine's).                                                       *)
(***************************************************************************)
EXTENDS Naturals, FiniteSets, SequencesExt

CONSTANTS
    Workers,      \* processes that run RunWorker
    Requests,     \* request ids the user's browser may send
    None,         \* no request, no worker
    MaxTroubles   \* bound: crashes of a worker, statements that fail, commands
                  \* sent again, and commands two minutes old under a worker
                  \* still at it

ASSUME QueueAssumption ==
    /\ None \notin Requests \cup Workers
    /\ MaxTroubles \in Nat

VARIABLES
    order,     \* the rows by created_at
    row,       \* trading_commands by request id
    worker,    \* what each worker is doing
    session,   \* status of the newest session, "NONE" once it is over or set aside
    told,      \* COMMAND_RESULT events written
    troubles,  \* how many of them so far
    requeued,  \* history: how often RequeueStale handed a command out again
    effects,   \* history: how often a command changed the session's status
    again,     \* whether a second Enqueue of a command holds its row
    hit        \* history: commands one of whose statements failed

vars == <<order, row, worker, session, told,
          troubles, requeued, effects, again, hit>>

Kinds == {"START", "STOP"}
Finished == {"COMPLETED", "FAILED"}
Statuses == {"PENDING", "PROCESSING"} \cup Finished

Row == [kind : Kinds, status : Statuses, stale : BOOLEAN]

Idle == [pc |-> "idle", request |-> None, ok |-> FALSE]
Down == [Idle EXCEPT !.pc = "down"]

PC == {"down", "idle", "claim", "process", "check", "complete", "finish", "publish"}
RequestIds == Requests \cup {None}

WorkerState == [pc : PC, request : RequestIds, ok : BOOLEAN]

TypeOK ==
    /\ order \in Seq(Requests) /\ IsInjective(order) /\ ToSet(order) = DOMAIN row
    /\ DOMAIN row \subseteq Requests
    /\ \A r \in DOMAIN row : row[r] \in Row
    /\ worker \in [Workers -> WorkerState]
    /\ session \in {"NONE", "RUNNING", "STOP_REQUESTED"}
    /\ told \subseteq Requests \X BOOLEAN
    /\ troubles \in 0..MaxTroubles
    /\ requeued \in [Requests -> Nat] /\ effects \in [Requests -> Nat]
    /\ again \in [Requests -> {"never", "held", "over"}]
    /\ hit \subseteq Requests
    /\ \A r \in DOMAIN row : row[r].stale => row[r].status = "PROCESSING"

Init ==
    /\ order = <<>> /\ row = [r \in {} |-> None]
    /\ worker = [w \in Workers |-> Idle]
    /\ session = "NONE"
    /\ told = {}
    /\ troubles = 0
    /\ requeued = [r \in Requests |-> 0] /\ effects = [r \in Requests |-> 0]
    /\ again = [r \in Requests |-> "never"]
    /\ hit = {}

Trouble == troubles < MaxTroubles /\ troubles' = troubles + 1

-----------------------------------------------------------------------------
(* The browser's side and the rolls.                                       *)

\* ON CONFLICT(request_id) DO UPDATE SET request_id=excluded.request_id
IsNew(r) == r \notin DOMAIN row

\* realtime queues start_runner and stop_runner.  A request id that is there
\* already keeps its row, whatever it was for.  Inserts of two sockets that
\* overlap are taken in the order of their commits.
Enqueue(r, kind) ==
    /\ IsNew(r)
    /\ order' = Append(order, r)
    /\ row' = [q \in DOMAIN row \cup {r} |->
                  IF q = r THEN [kind |-> kind, status |-> "PENDING", stale |-> FALSE]
                           ELSE row[q]]
    /\ UNCHANGED <<worker, session, told, troubles, requeued, effects, again, hit>>

\* The rolls of a session end it: a limit, the user's balance, or the STOP.
Rolls ==
    /\ session # "NONE" /\ session' = "NONE"
    /\ UNCHANGED <<order, row, worker, told, troubles, requeued, effects, again, hit>>

Waits(r) == row[r].status = "PENDING"

\* A worker whose claim is not committed yet holds the row (FOR UPDATE), and so
\* does an Enqueue of the same request until its own commit (DO UPDATE).
Locked(r) ==
    \/ \E w \in Workers : worker[w].pc = "claim" /\ worker[w].request = r
    \/ again[r] = "held"

Free(r) == Waits(r) /\ ~Locked(r)

\* The browser sends a request id again.  It changes nothing in the row, which
\* a claim passes over meanwhile; a row that is not pending only makes its
\* worker's statements wait.
EnqueueAgain(r) ==
    /\ ~IsNew(r) /\ Free(r)
    /\ Trouble
    /\ again' = [again EXCEPT ![r] = "held"]
    /\ UNCHANGED <<order, row, worker, session, told, requeued, effects, hit>>

AgainEnds(r) ==
    /\ again[r] = "held"
    /\ again' = [again EXCEPT ![r] = "over"]
    /\ UNCHANGED <<order, row, worker, session, told, troubles, requeued, effects, hit>>

-----------------------------------------------------------------------------
(* A worker.                                                               *)

\* mutants of Claimable: any row that is not finished; no ORDER BY
NotFinished == {r \in DOMAIN row : row[r].status \notin Finished}
AnyPending == {r \in DOMAIN row : Free(r)}

\* SELECT ... WHERE status='PENDING' ORDER BY created_at FOR UPDATE SKIP LOCKED
\* LIMIT 1
Claimable == {order[i] : i \in {j \in DOMAIN order :
    Free(order[j]) /\ \A k \in 1..(j - 1) : ~Free(order[k])}}

LockRow(w) ==
    /\ worker[w].pc = "idle"
    /\ \E r \in Claimable :
           worker' = [worker EXCEPT ![w] = [pc |-> "claim", request |-> r, ok |-> FALSE]]
    /\ UNCHANGED <<order, row, session, told, troubles, requeued, effects, again, hit>>

\* The UPDATE and the COMMIT.
Claim(w) ==
    /\ worker[w].pc = "claim"
    /\ row' = [row EXCEPT ![worker[w].request].status = "PROCESSING",
                          ![worker[w].request].stale = FALSE]
    /\ worker' = [worker EXCEPT ![w].pc = "process"]
    /\ UNCHANGED <<order, session, told, troubles, requeued, effects, again, hit>>

\* The claim is rolled back; another worker may have passed the row meanwhile.
ClaimFails(w) ==
    /\ worker[w].pc = "claim"
    /\ Trouble
    /\ hit' = hit \cup {worker[w].request}
    /\ worker' = [worker EXCEPT ![w] = Idle]
    /\ UNCHANGED <<order, row, session, told, requeued, effects, again>>

\* The worker goes on to pc with the command's outcome so far.
Goes(w, pc, ok) == worker' = [worker EXCEPT ![w].pc = pc, ![w].ok = ok]

At(w, pc, kind) ==
    /\ worker[w].pc = pc
    /\ row[worker[w].request].kind = kind

Effect(w) == effects' = [effects EXCEPT ![worker[w].request] = @ + 1]

\* Engine.Start: a running session is taken as this START's, one being
\* stopped refuses it, and a new one may still be refused (subscription,
\* balance, rules).  A START that settles a session awaiting reconciliation
\* returns without an error and without a session.
ProcessStart(w) ==
    /\ At(w, "process", "START")
    /\ \/ /\ session = "NONE" /\ session' = "RUNNING"
          /\ Effect(w) /\ Goes(w, "finish", TRUE)
       \/ /\ session = "NONE" /\ Goes(w, "finish", TRUE)
          /\ UNCHANGED <<session, effects>>
       \/ /\ Goes(w, "finish", session = "RUNNING")
          /\ UNCHANGED <<session, effects>>
    /\ UNCHANGED <<order, row, told, troubles, requeued, again, hit>>

\* UPDATE ... SET status='STOP_REQUESTED' ... WHERE status='RUNNING'
ProcessStop(w) ==
    /\ At(w, "process", "STOP")
    /\ IF session = "RUNNING"
       THEN session' = "STOP_REQUESTED" /\ Effect(w) /\ Goes(w, "check", FALSE)
       ELSE Goes(w, "finish", FALSE) /\ UNCHANGED <<session, effects>>
    /\ UNCHANGED <<order, row, told, troubles, requeued, again, hit>>

\* SELECT EXISTS(... s.status='STOP_REQUESTED' AND b.status IN (...)): a session
\* being stopped may have a bet out, which the rolls settle before they end it.
CheckPending(w) ==
    /\ worker[w].pc = "check"
    /\ \/ session = "STOP_REQUESTED" /\ Goes(w, "finish", TRUE)
       \/ Goes(w, "complete", FALSE)
    /\ UNCHANGED <<order, row, session, told, troubles, requeued, effects, again, hit>>

\* UPDATE ... SET status='COMPLETED' ... WHERE status='STOP_REQUESTED'
CompleteStop(w) ==
    /\ worker[w].pc = "complete"
    /\ session' = IF session = "STOP_REQUESTED" THEN "NONE" ELSE session
    /\ Goes(w, "finish", TRUE)
    /\ UNCHANGED <<order, row, told, troubles, requeued, effects, again, hit>>

\* A statement of processCommand fails and the command with it, after what it
\* did already: Start's lease update follows the insert of the session.
ProcessFails(w) ==
    /\ worker[w].pc \in {"process", "check", "complete"}
    /\ Trouble
    /\ hit' = hit \cup {worker[w].request}
    /\ \/ UNCHANGED <<session, effects>>
       \/ /\ At(w, "process", "START") /\ session = "NONE"
          /\ session' = "RUNNING" /\ Effect(w)
    /\ Goes(w, "finish", FALSE)
    /\ UNCHANGED <<order, row, told, requeued, again>>

\* mutant of StillProcessing: Finish updates by id alone
AnyStatus(r) == TRUE

StillProcessing(r) == row[r].status = "PROCESSING"

Outcome(w) == IF worker[w].ok THEN "COMPLETED" ELSE "FAILED"

\* Finish asks for the status alone, not for the worker: it takes the outcome
\* of whoever comes first.  Its error is logged.
Finish(w) ==
    LET r == worker[w].request IN
    /\ worker[w].pc = "finish"
    /\ row' = IF StillProcessing(r)
              THEN [row EXCEPT ![r].status = Outcome(w), ![r].stale = FALSE]
              ELSE row
    /\ Goes(w, "publish", worker[w].ok)
    /\ UNCHANGED <<order, session, told, troubles, requeued, effects, again, hit>>

FinishFails(w) ==
    /\ worker[w].pc = "finish"
    /\ Trouble
    /\ hit' = hit \cup {worker[w].request}
    /\ Goes(w, "publish", worker[w].ok)
    /\ UNCHANGED <<order, row, session, told, requeued, effects, again>>

\* The result is published whether Finish succeeded or not; an error of
\* PublishEvent is dropped.
Publish(w) ==
    /\ worker[w].pc = "publish"
    /\ \/ told' = told \cup {<<worker[w].request, worker[w].ok>>} /\ UNCHANGED troubles
       \/ Trouble /\ UNCHANGED told
    /\ worker' = [worker EXCEPT ![w] = Idle]
    /\ UNCHANGED <<order, row, session, requeued, effects, again, hit>>

-----------------------------------------------------------------------------
(* Time, crashes and what is handed out again.                             *)

Holders(r) == {w \in Workers : worker[w].request = r /\ worker[w].pc \notin {"claim", "publish"}}

\* Two minutes since the row was updated.
TwoMinutesPass(r) ==
    /\ r \in DOMAIN row /\ row[r].status = "PROCESSING" /\ ~row[r].stale
    /\ \/ Holders(r) = {} /\ UNCHANGED troubles
       \/ Holders(r) # {} /\ Trouble
    /\ row' = [row EXCEPT ![r].stale = TRUE]
    /\ UNCHANGED <<order, worker, session, told, requeued, effects, again, hit>>

\* mutant of Stale: stale rows are looked for when the worker comes up only
StaleAtStart(w) == {r \in DOMAIN row : row[r].stale /\ worker[w].pc = "down"}

\* WHERE status='PROCESSING' AND updated_at < now()-interval '2 minutes'
Stale(w) == {r \in DOMAIN row : row[r].status = "PROCESSING" /\ row[r].stale}

\* Every ten seconds between two commands, and when the worker comes up.
RequeueStale(w) ==
    /\ worker[w].pc = "idle" \/ worker[w].pc = "down"
    /\ worker[w].pc = "idle" => Stale(w) # {}
    /\ row' = [r \in DOMAIN row |->
                  IF r \in Stale(w)
                  THEN [row[r] EXCEPT !.status = "PENDING", !.stale = FALSE]
                  ELSE row[r]]
    /\ requeued' = [r \in Requests |-> requeued[r] + IF r \in Stale(w) THEN 1 ELSE 0]
    /\ worker' = [worker EXCEPT ![w] = Idle]
    /\ UNCHANGED <<order, session, told, troubles, effects, again, hit>>

\* The process dies; a row it claimed keeps saying PROCESSING.
Crash(w) ==
    /\ worker[w].pc # "down"
    /\ Trouble
    /\ worker' = [worker EXCEPT ![w] = Down]
    /\ hit' = hit \cup IF worker[w].pc = "claim" THEN {worker[w].request} ELSE {}
    /\ UNCHANGED <<order, row, session, told, requeued, effects, again>>

WorkerStep(w) ==
    \/ LockRow(w)
    \/ Claim(w)
    \/ ClaimFails(w)
    \/ ProcessStart(w)
    \/ ProcessStop(w)
    \/ CheckPending(w)
    \/ CompleteStop(w)
    \/ ProcessFails(w)
    \/ Finish(w)
    \/ FinishFails(w)
    \/ Publish(w)

Next ==
    \/ \E r \in Requests, kind \in Kinds : Enqueue(r, kind)
    \/ Rolls
    \/ \E w \in Workers : WorkerStep(w) \/ RequeueStale(w) \/ Crash(w)
    \/ \E r \in Requests : TwoMinutesPass(r) \/ EnqueueAgain(r) \/ AgainEnds(r)

\* A worker's loop keeps running, its ticks come, the supervisor restarts the
\* process, time passes, and an Enqueue ends with its commit or its context.
Fairness ==
    /\ \A w \in Workers : WF_vars(WorkerStep(w)) /\ WF_vars(RequeueStale(w))
    /\ \A r \in Requests : WF_vars(TwoMinutesPass(r)) /\ WF_vars(AgainEnds(r))

Spec == Init /\ [][Next]_vars /\ Fairness

-----------------------------------------------------------------------------
(* Properties.                                                             *)

\* A command changes the session at most once each time it is handed out: a
\* START or STOP that acts twice was under a worker for two minutes, or its
\* worker died (Claim, RequeueStale).
ActsOncePerClaim == \A r \in Requests : effects[r] <= 1 + requeued[r]

\* Two workers hold one command only after it was handed out again (the
\* claim's status test and row lock).
OneWorkerPerCommand ==
    \A v, w \in Workers :
        v # w /\ worker[v].request = worker[w].request /\ worker[v].request # None
            => requeued[worker[v].request] > 0

\* Commands are begun in the order they were queued, except one that was
\* handed out again, whose claim was rolled back, or that was sent a second
\* time, which locks its row (ORDER BY created_at, SKIP LOCKED, DO UPDATE).
QueueOrderKept ==
    \A i, j \in DOMAIN order :
        i < j /\ Free(order[i]) /\ ~Waits(order[j])
            => requeued[order[i]] > 0 \/ order[i] \in hit \/ again[order[i]] # "never"

\* The browser is told what the row records, unless the command was handed
\* out again or its Finish failed (Finish, PublishEvent).
ToldWhatIsRecorded ==
    \A r \in DOMAIN row : \A ok \in BOOLEAN :
        <<r, ok>> \in told /\ requeued[r] = 0 /\ r \notin hit
            => row[r].status = IF ok THEN "COMPLETED" ELSE "FAILED"

\* A START recorded as failed has started nothing, unless it was handed out
\* again or a statement of it failed on the way: only then does a browser that
\* believes the failure leave a session running.
FailedStartIsIdle ==
    \A r \in DOMAIN row :
        row[r].kind = "START" /\ row[r].status = "FAILED" /\ effects[r] > 0
            => requeued[r] > 0 \/ r \in hit

\* What is recorded about a command is final (Finish's status test).
ResultIsFinal ==
    [][\A r \in DOMAIN row : row[r].status \in Finished => row'[r] = row[r]]_vars

\* "A lost notification therefore only delays execution; it never loses the
\* command": whatever crashes, every queued command is finished.
NoCommandIsLost ==
    \A r \in Requests : r \in DOMAIN row ~> r \in DOMAIN row /\ row[r].status \in Finished
=============================================================================
