---------------------------- MODULE TradingEngine ----------------------------
(***************************************************************************)
(* One user's automatic trading: the sessions and provider bets PostgreSQL *)
(* keeps, the goroutines (run/roll) that place the bets, the lease that    *)
(* says which process may roll, the START and STOP requests, the recovery  *)
(* that adopts a dead process's session, and the provider that executes    *)
(* bets.  (internal/trading: engine.go, ledger.go, worker.go.)             *)
(*                                                                         *)
(* Every statement the code commits on its own is one action, so any two   *)
(* goroutines interleave between statements.  Amounts, fees and settings   *)
(* are left out: a stop reason or a lack of funds is a nondeterministic    *)
(* choice.                                                                 *)
(***************************************************************************)
EXTENDS Naturals, FiniteSets

CONSTANTS
  Workers,        \* process incarnations; the worker id is hostname-pid, so a
                  \* restarted process is another member of the set
  Sessions,       \* rows trading_sessions may hold
  Bets,           \* rows provider_bets may hold
  Runners,        \* slots for goroutines executing Engine.run
  StartRequests,  \* START clicks
  StopRequests,   \* STOP clicks, and the other writers of STOP_REQUESTED
  Repeated,       \* requests the user issues again and again
  Channels,       \* how requests reach a worker, a subset of {"queue", "http"}
  MaxProcesses,   \* processes alive at once (serve, worker)
  MaxLapses,      \* bound: leases that run out while their runner lives
  MaxFaults,      \* bound: statements that fail although their context lives
  None

Requests == StartRequests \cup StopRequests

ASSUME EngineAssumption ==
  /\ Channels \subseteq {"queue", "http"}
  /\ StartRequests \cap StopRequests = {}
  /\ Repeated \subseteq Requests
  /\ None \notin Workers \cup Sessions \cup Bets \cup Runners
  /\ MaxProcesses \in Nat /\ MaxLapses \in Nat /\ MaxFaults \in Nat

VARIABLES
  session,   \* trading_sessions: status, worker_id, lease
  bet,       \* provider_bets: status, session_id, result
  provider,  \* what the provider did with the bet
  socket,    \* bets whose bet_update may come on the process's connection
  runner,    \* the goroutines of Engine.run
  running,   \* Engine.running[userID] of every process
  process,   \* life of a process
  recovery,  \* where Recover stands in every process
  request,   \* where the handling of a request stands
  lapses, faults

vars == <<session, bet, provider, socket, runner, running, process, recovery,
          request, lapses, faults>>

durable == <<session, bet>>          \* the database
wires   == <<provider, socket>>
budgets == <<lapses, faults>>

Active     == {"RUNNING", "STOP_REQUESTED"}
Unresolved == Active \cup {"RECONCILIATION_REQUIRED"}
Uncertain  == {"SENT", "RECONCILIATION_REQUIRED"}
Pending    == Uncertain \cup {"PREPARED"}
Outcomes   == {"win", "loss"}

Session ==
  [status : Unresolved \cup {"ABSENT", "COMPLETED"},
   owner  : Workers \cup {None},
   lease  : {"held", "free"}]

\* "balance" is a result inferred from the provider balance (reconcileExact).
Bet ==
  [status  : Pending \cup {"ABSENT", "COMPLETED", "FAILED_CONFIRMED"},
   session : Sessions \cup {None},
   result  : Outcomes \cup {"none", "balance"}]

\* "wire": written to the socket, its fate not decided by the provider yet.
ProviderState == Outcomes \cup {"none", "wire", "refused"}

RunnerPC ==
  {"free", "spawned", "ready", "leased", "loaded", "prepared", "sent", "await",
   "reply", "unknown", "refused", "settled", "delay", "finish", "error",
   "closing", "leaving"}

Runner ==
  [pc : RunnerPC, worker : Workers \cup {None}, session : Sessions \cup {None},
   bet : Bets \cup {None}, reply : Outcomes \cup {None},
   ctx : {"live", "cancelled"}]

RequestPC ==
  {"new", "lookup", "local", "claim", "insert", "own", "recread", "recsettle",
   "reccomplete", "flip", "check", "complete", "done"}

Request ==
  [pc : RequestPC, worker : Workers \cup {None}, channel : Channels \cup {None},
   session : Sessions \cup {None}, bet : Bets \cup {None}]

RecoveryPC == {"idle", "fail", "check", "flag"}

Recovery == [pc : RecoveryPC, session : Sessions \cup {None}]

AbsentSession == [status |-> "ABSENT", owner |-> None, lease |-> "free"]
AbsentBet     == [status |-> "ABSENT", session |-> None, result |-> "none"]
FreeRunner    == [pc |-> "free", worker |-> None, session |-> None,
                  bet |-> None, reply |-> None, ctx |-> "live"]
NewRequest    == [pc |-> "new", worker |-> None, channel |-> None,
                  session |-> None, bet |-> None]
DoneRequest   == [NewRequest EXCEPT !.pc = "done"]
IdleRecovery  == [pc |-> "idle", session |-> None]

Init ==
  /\ session  = [s \in Sessions |-> AbsentSession]
  /\ bet      = [b \in Bets |-> AbsentBet]
  /\ provider = [b \in Bets |-> "none"]
  /\ socket   = [w \in Workers |-> {}]
  /\ runner   = [r \in Runners |-> FreeRunner]
  /\ running  = [w \in Workers |-> None]
  /\ process  = [w \in Workers |-> "unborn"]
  /\ recovery = [w \in Workers |-> IdleRecovery]
  /\ request  = [q \in Requests |-> NewRequest]
  /\ lapses = 0 /\ faults = 0

-----------------------------------------------------------------------------
(* Helpers *)

\* The unique index trading_sessions_one_unresolved_user lets s be unresolved.
IndexAllows(s) ==
  \A t \in Sessions \ {s} : session[t].status \notin Unresolved

BetsOf(s, statuses) ==
  {b \in Bets : bet[b].session = s /\ bet[b].status \in statuses}

\* Bets of s that Recover declares not executed.
UnsentOrSent(s) == BetsOf(s, {"PREPARED", "SENT"})     \* mutant
Unsent(s) == BetsOf(s, {"PREPARED"})

\* The guards of the ledger's statements.
RunningOnly(s) == session[s].status = "RUNNING"        \* mutant
ActiveSuffices(s) ==                                   \* mutant
  session[s].status \in Active /\ BetsOf(s, Pending) = {}
MayPrepare(s) == session[s].status = "RUNNING" /\ BetsOf(s, Pending) = {}

AnyRow(b) == bet[b].status # "ABSENT"                  \* mutant
StillPrepared(b) == bet[b].status = "PREPARED"

AwaitsResult(b) == bet[b].status \in Uncertain

\* Rows a STOP command may complete once it has flipped the status.
NothingPending == \A s \in Sessions :
  session[s].status = "STOP_REQUESTED" => BetsOf(s, Pending) = {}

\* Sessions Recover may adopt.
RecoverableRunning(s) ==                               \* mutant
  session[s].status = "RUNNING" /\ session[s].lease = "free"
RecoverableOwned(s) ==                                 \* mutant
  session[s].status \in Active /\ session[s].owner # None /\ session[s].lease = "free"
Recoverable(s) == session[s].status \in Active /\ session[s].lease = "free"

\* The session s set aside for reconciliation.
SetAside(s) == [session EXCEPT ![s].status = "RECONCILIATION_REQUIRED"]

\* Client.dropSocket: what the old connection would still deliver is lost.
KeepSocket(w) == UNCHANGED socket                      \* mutant
DropSocket(w) == socket' = [socket EXCEPT ![w] = {}]

\* The row Ledger.Start inserts: worker_id and lease_expires_at are NULL.
UnknownStatus == [status |-> "STARTED", owner |-> None, lease |-> "free"]  \* mutant
FreshSession == [status |-> "RUNNING", owner |-> None, lease |-> "free"]

\* The session s in the hands of process w for thirty seconds.
OwnedBy(s, w) ==
  [session EXCEPT ![s] = [status |-> @.status, owner |-> w, lease |-> "held"]]

\* Ledger.Complete on s, when its row still matches.
Completed(s) ==
  IF session[s].status \in Unresolved
    THEN [session EXCEPT ![s].status = "COMPLETED"]
    ELSE session

\* Ledger.Settle on b.
Settled(b, result) ==
  [bet EXCEPT ![b] =
    [status |-> "COMPLETED", session |-> @.session, result |-> result]]

\* go e.run(userID, s)
Spawn(w, s) ==
  \E r \in Runners :
    /\ runner[r].pc = "free"
    /\ runner' = [runner EXCEPT ![r] =
         [pc |-> "spawned", worker |-> w, session |-> s,
          bet |-> None, reply |-> None, ctx |-> "live"]]

Goto(r, pc) == runner' = [runner EXCEPT ![r].pc = pc]

Carry(r, pc, b, reply) ==
  runner' = [runner EXCEPT ![r] =
    [pc |-> pc, worker |-> @.worker, session |-> @.session,
     bet |-> b, reply |-> reply, ctx |-> @.ctx]]

\* The loop of run is over; what is left to do is to publish and to flush fees.
Depart(r) == Carry(r, "leaving", None, None)

\* run returns: its deferred function removes the process's entry for the
\* user, whichever goroutine that entry belongs to.
Return(r) ==
  /\ runner' = [runner EXCEPT ![r] = FreeRunner]
  /\ running' = [running EXCEPT ![runner[r].worker] = None]

QueueBusy(w) ==
  \/ recovery[w].pc # "idle"
  \/ \E q \in Requests : /\ request[q].worker = w
                         /\ request[q].channel = "queue"
                         /\ request[q].pc \notin {"new", "done"}

HasRunner(s) ==
  \E r \in Runners : /\ runner[r].session = s
                     /\ runner[r].worker = session[s].owner
                     /\ runner[r].pc # "leaving"

Fault == /\ faults < MaxFaults
         /\ faults' = faults + 1

-----------------------------------------------------------------------------
(* Processes and leases *)

Boot(w) ==
  /\ process[w] = "unborn"
  /\ Cardinality({v \in Workers : process[v] = "up"}) < MaxProcesses
  /\ process' = [process EXCEPT ![w] = "up"]
  /\ UNCHANGED <<durable, wires, runner, running, recovery, request, budgets>>

\* Goroutines, Engine.running and the connection die with the process.  A queued
\* command stays PROCESSING until RequeueStale makes it PENDING again; an HTTP
\* request is lost.
Crash(w) ==
  /\ process[w] = "up"
  /\ \E v \in Workers \ {w} : process[v] # "dead"
  /\ process' = [process EXCEPT ![w] = "dead"]
  /\ runner' = [r \in Runners |->
       IF runner[r].worker = w THEN FreeRunner ELSE runner[r]]
  /\ running' = [running EXCEPT ![w] = None]
  /\ socket' = [socket EXCEPT ![w] = {}]
  /\ recovery' = [recovery EXCEPT ![w] = IdleRecovery]
  /\ request' = [q \in Requests |->
       IF request[q].worker # w THEN request[q]
       ELSE IF request[q].channel = "queue" /\ request[q].pc # "done"
         THEN NewRequest
       ELSE DoneRequest]
  /\ UNCHANGED <<durable, provider, budgets>>

\* Thirty seconds without a roll by the owner: it has no goroutine left.  (Once
\* the session is not active, whoever claims it finds nothing to do.)
LeaseExpires(s) ==
  /\ session[s].status \in Active
  /\ session[s].lease = "held"
  /\ ~HasRunner(s)
  /\ session' = [session EXCEPT ![s].lease = "free"]
  /\ UNCHANGED <<bet, wires, runner, running, process, recovery, request, budgets>>

\* ... or its goroutine sleeps or stalls for longer (delay_ms may be 600000).
LeaseLapses(s) ==
  /\ session[s].status \in Active
  /\ session[s].lease = "held"
  /\ HasRunner(s)
  /\ lapses < MaxLapses
  /\ lapses' = lapses + 1
  /\ session' = [session EXCEPT ![s].lease = "free"]
  /\ UNCHANGED <<bet, wires, runner, running, process, recovery, request, faults>>

-----------------------------------------------------------------------------
(* Recover: at start-up and every ten seconds, in the command loop *)

RecoverClaim(w) ==
  /\ process[w] = "up"
  /\ ~QueueBusy(w)
  /\ \E s \in Sessions :
       /\ Recoverable(s)
       /\ session' = OwnedBy(s, w)
       /\ recovery' = [recovery EXCEPT ![w] = [pc |-> "fail", session |-> s]]
  /\ UNCHANGED <<bet, wires, runner, running, process, request, budgets>>

\* A PREPARED bet was never written to the socket: it cannot have been placed.
RecoverFail(w) ==
  /\ recovery[w].pc = "fail"
  /\ bet' = [b \in Bets |->
       IF b \in Unsent(recovery[w].session)
         THEN [bet[b] EXCEPT !.status = "FAILED_CONFIRMED"] ELSE bet[b]]
  /\ recovery' = [recovery EXCEPT ![w].pc = "check"]
  /\ UNCHANGED <<session, wires, runner, running, process, request, budgets>>

RecoverCheck(w) ==
  LET s == recovery[w].session IN
  /\ recovery[w].pc = "check"
  /\ \/ /\ BetsOf(s, Uncertain) # {}
        /\ recovery' = [recovery EXCEPT ![w].pc = "flag"]
        /\ UNCHANGED runner
     \/ /\ BetsOf(s, Uncertain) = {}
        /\ Spawn(w, s)
        /\ recovery' = [recovery EXCEPT ![w] = IdleRecovery]
  /\ UNCHANGED <<durable, wires, running, process, request, budgets>>

\* Unguarded UPDATE: only the unique index can refuse it.
RecoverFlag(w) ==
  LET s == recovery[w].session IN
  /\ recovery[w].pc = "flag"
  /\ session' = IF IndexAllows(s) THEN SetAside(s) ELSE session
  /\ recovery' = [recovery EXCEPT ![w] = IdleRecovery]
  /\ UNCHANGED <<bet, wires, runner, running, process, request, budgets>>

RecoverFault(w) ==
  /\ recovery[w].pc # "idle"
  /\ Fault
  /\ recovery' = [recovery EXCEPT ![w] = IdleRecovery]
  /\ UNCHANGED <<durable, wires, runner, running, process, request, lapses>>

-----------------------------------------------------------------------------
(* Requests: START and STOP, from the command queue or straight over HTTP *)

Step(q, pc) == request' = [request EXCEPT ![q].pc = pc]
Enter(q, pc, s, b) ==
  request' = [request EXCEPT ![q] =
    [pc |-> pc, worker |-> @.worker, channel |-> @.channel,
     session |-> s, bet |-> b]]
Finish(q) == request' = [request EXCEPT ![q] = DoneRequest]

\* A worker claims the queued command, or a process receives the HTTP call.
\* One process handles one queued command at a time, and not during Recover.
Accept(q, w, ch) ==
  /\ request[q].pc = "new"
  /\ process[w] = "up"
  /\ ch = "queue" => ~QueueBusy(w)
  /\ request' = [request EXCEPT ![q] =
       [pc |-> IF q \in StartRequests THEN "lookup" ELSE "flip",
        worker |-> w, channel |-> ch, session |-> None, bet |-> None]]
  /\ UNCHANGED <<durable, wires, runner, running, process, recovery, budgets>>

\* The user issues the request once more.
Repeat(q) ==
  /\ q \in Repeated
  /\ request[q].pc = "done"
  /\ request' = [request EXCEPT ![q] = NewRequest]
  /\ UNCHANGED <<durable, wires, runner, running, process, recovery, budgets>>

\* Engine.Start reads the user's unresolved session.
StartLookup(q) ==
  /\ request[q].pc = "lookup"
  /\ \/ \E s \in Sessions :
          \/ session[s].status = "RUNNING" /\ Enter(q, "local", s, None)
          \/ session[s].status = "STOP_REQUESTED" /\ Finish(q)
          \/ /\ session[s].status = "RECONCILIATION_REQUIRED"
             /\ Enter(q, "recread", s, None)
     \/ /\ \A s \in Sessions : session[s].status \notin Unresolved
        /\ Step(q, "insert") \/ Finish(q)  \* the checks may refuse
  /\ UNCHANGED <<durable, wires, runner, running, process, recovery, budgets>>

\* A RUNNING session: does this process have an entry for the user?
StartLocal(q) ==
  /\ request[q].pc = "local"
  /\ IF running[request[q].worker] = None THEN Step(q, "claim") ELSE Finish(q)
  /\ UNCHANGED <<durable, wires, runner, running, process, recovery, budgets>>

\* Claims a RUNNING session this process does not seem to run.
StartClaim(q) ==
  LET s == request[q].session
      w == request[q].worker
      mine == session[s].owner = w \/ session[s].lease = "free"
  IN
  /\ request[q].pc = "claim"
  /\ \/ /\ mine
        /\ session' = OwnedBy(s, w)
        /\ Spawn(w, s)
     \/ /\ ~mine
        /\ UNCHANGED <<session, runner>>
  /\ Finish(q)
  /\ UNCHANGED <<bet, wires, running, process, recovery, budgets>>

\* Ledger.Start; the worker and the lease follow in a statement of their own.
StartInsert(q) ==
  /\ request[q].pc = "insert"
  /\ IF \A s \in Sessions : session[s].status \notin Unresolved
       THEN \E s \in Sessions :
              /\ session[s].status = "ABSENT"
              /\ session' = [session EXCEPT ![s] = FreshSession]
              /\ Enter(q, "own", s, None)
       ELSE Finish(q) /\ UNCHANGED session
  /\ UNCHANGED <<bet, wires, runner, running, process, recovery, budgets>>

StartOwn(q) ==
  LET s == request[q].session
      w == request[q].worker
  IN
  /\ request[q].pc = "own"
  /\ session' = OwnedBy(s, w)
  /\ Spawn(w, s)
  /\ Finish(q)
  /\ UNCHANGED <<bet, wires, running, process, recovery, budgets>>

\* reconcileExact: the bet whose result is unknown, then the live balance.  No
\* such bet, or a balance that proves nothing: START is refused.
ReconcileRead(q) ==
  LET s == request[q].session IN
  /\ request[q].pc = "recread"
  /\ \/ /\ session[s].status = "RECONCILIATION_REQUIRED"
        /\ \E b \in BetsOf(s, Uncertain) :
             Enter(q, "recsettle", s, b)
     \/ Finish(q)
  /\ UNCHANGED <<durable, wires, runner, running, process, recovery, budgets>>

\* Ledger.Settle with the result the balance shows.
ReconcileSettle(q) ==
  LET b == request[q].bet IN
  /\ request[q].pc = "recsettle"
  /\ IF AwaitsResult(b)
       THEN /\ bet' = Settled(b, "balance")
            /\ Step(q, "reccomplete")
       ELSE Finish(q) /\ UNCHANGED bet
  /\ UNCHANGED <<session, wires, runner, running, process, recovery, budgets>>

\* Start then returns without a session: existingErr is nil, not ErrNoRows.
ReconcileComplete(q) ==
  /\ request[q].pc = "reccomplete"
  /\ session' = Completed(request[q].session)
  /\ Finish(q)
  /\ UNCHANGED <<bet, wires, runner, running, process, recovery, budgets>>

\* STOP: RequestTradingStop (HTTP) ends here, processCommand goes on to look
\* for a pending bet.
StopFlip(q) ==
  /\ request[q].pc = "flip"
  /\ \/ \E s \in Sessions :
          /\ session[s].status = "RUNNING"
          /\ session' = [session EXCEPT ![s].status = "STOP_REQUESTED"]
          /\ IF request[q].channel = "queue" THEN Step(q, "check") ELSE Finish(q)
     \/ /\ \A s \in Sessions : session[s].status # "RUNNING"
        /\ Finish(q)
        /\ UNCHANGED session
  /\ UNCHANGED <<bet, wires, runner, running, process, recovery, budgets>>

StopCheck(q) ==
  /\ request[q].pc = "check"
  /\ IF NothingPending THEN Step(q, "complete") ELSE Finish(q)
  /\ UNCHANGED <<durable, wires, runner, running, process, recovery, budgets>>

StopComplete(q) ==
  /\ request[q].pc = "complete"
  /\ session' = [s \in Sessions |->
       IF session[s].status = "STOP_REQUESTED"
         THEN [session[s] EXCEPT !.status = "COMPLETED"] ELSE session[s]]
  /\ Finish(q)
  /\ UNCHANGED <<bet, wires, runner, running, process, recovery, budgets>>

\* A statement fails, or the HTTP client goes away: the handler returns.
RequestFault(q) ==
  /\ request[q].pc \notin {"new", "done"}
  /\ Fault
  /\ Finish(q)
  /\ UNCHANGED <<durable, wires, runner, running, process, recovery, lapses>>

-----------------------------------------------------------------------------
(* Engine.run and Engine.roll *)

\* Registers the cancel function, cancelling the user's previous goroutine.
Register(r) ==
  LET w == runner[r].worker
      old == running[w]
  IN
  /\ runner[r].pc = "spawned"
  /\ runner' = [x \in Runners |->
       IF x = r THEN [runner[r] EXCEPT !.pc = "ready"]
       ELSE IF x = old THEN [runner[x] EXCEPT !.ctx = "cancelled"]
       ELSE runner[x]]
  /\ running' = [running EXCEPT ![w] = r]
  /\ UNCHANGED <<durable, wires, process, recovery, request, budgets>>

\* Statements of roll use run's context: once cancelled they all fail.
Live(r, pc) == runner[r].pc = pc /\ runner[r].ctx = "live"

Stumble(r) ==
  /\ runner[r].pc \in {"ready", "leased", "loaded", "prepared", "reply",
                       "settled", "delay", "finish"}
  /\ \/ runner[r].ctx = "cancelled" /\ UNCHANGED faults
     \/ runner[r].ctx = "live" /\ Fault
  /\ Goto(r, "error")
  /\ UNCHANGED <<durable, wires, running, process, recovery, request, lapses>>

\* Cancelled while it sleeps between two rolls: returns without a trace.
Vanish(r) ==
  /\ runner[r].pc = "delay"
  /\ runner[r].ctx = "cancelled"
  /\ Return(r)
  /\ UNCHANGED <<durable, wires, process, recovery, request, budgets>>

\* A roll begins: renew the lease if it is still this worker's.
Lease(r) ==
  LET s == runner[r].session
      mine == session[s].owner = runner[r].worker /\ session[s].status \in Active
  IN
  /\ Live(r, "ready") \/ Live(r, "delay")
  /\ IF mine
       THEN session' = [session EXCEPT ![s].lease = "held"] /\ Goto(r, "leased")
       ELSE Goto(r, "error") /\ UNCHANGED session
  /\ UNCHANGED <<bet, wires, running, process, recovery, request, budgets>>

\* Reads the session; "finish" also stands for too little balance or a bet
\* above the user's maximum.
Load(r) ==
  LET status == session[runner[r].session].status IN
  /\ Live(r, "leased")
  /\ \/ status = "RUNNING" /\ Goto(r, "loaded")
     \/ status \in Active  /\ Goto(r, "finish")
     \/ status \notin Active /\ Depart(r)
  /\ UNCHANGED <<durable, wires, running, process, recovery, request, budgets>>

\* Ledger.PrepareBet: commit the intent while the session row is locked.
PrepareBet(r) ==
  LET s == runner[r].session IN
  /\ Live(r, "loaded")
  /\ \/ /\ MayPrepare(s)
        /\ \E b \in Bets :
             /\ bet[b].status = "ABSENT"
             /\ bet' = [bet EXCEPT ![b] =
                          [status |-> "PREPARED", session |-> s, result |-> "none"]]
             /\ Carry(r, "prepared", b, None)
     \/ ~MayPrepare(s) /\ Goto(r, "error") /\ UNCHANGED bet
  /\ UNCHANGED <<session, wires, running, process, recovery, request, budgets>>

MarkSent(r) ==
  LET b == runner[r].bet IN
  /\ Live(r, "prepared")
  /\ IF StillPrepared(b)
       THEN bet' = [bet EXCEPT ![b].status = "SENT"] /\ Goto(r, "sent")
       ELSE Goto(r, "error") /\ UNCHANGED bet
  /\ UNCHANGED <<session, wires, running, process, recovery, request, budgets>>

\* The provider socket's lock is held from the write to the reply.
SocketFree(r) ==
  \A x \in Runners :
    runner[x].pc = "await" => runner[x].worker # runner[r].worker

\* Client.PlaceBet up to the write: no socket (a plain error), a connection that
\* was dropped while this roll waited for it, a write that fails after some or
\* all of it left, or a write that succeeds.
PlaceBet(r) ==
  LET b == runner[r].bet
      w == runner[r].worker
      written == provider' = [provider EXCEPT ![b] = "wire"]
  IN
  /\ runner[r].pc = "sent"
  /\ \/ Goto(r, "refused") /\ UNCHANGED wires
     \/ Goto(r, "unknown") /\ UNCHANGED wires
     \/ /\ SocketFree(r)
        /\ Goto(r, "unknown")
        /\ written \/ UNCHANGED provider
        /\ DropSocket(w)
     \/ /\ SocketFree(r)
        /\ runner[r].ctx = "live"
        /\ Goto(r, "await")
        /\ written
        /\ socket' = [socket EXCEPT ![w] = @ \cup {b}]
  /\ UNCHANGED <<durable, running, process, recovery, request, budgets>>

\* A bet_update names no bet: the next one on the connection is taken for the
\* answer.  It says executed, refused, or cannot be read.
ReceiveUpdate(r) ==
  LET w == runner[r].worker IN
  /\ runner[r].pc = "await"
  /\ \E b \in socket[w] :
       /\ \/ /\ provider[b] \in Outcomes
             /\ Carry(r, "reply", runner[r].bet, provider[b])
          \/ provider[b] \in Outcomes /\ Goto(r, "unknown")
          \/ provider[b] = "refused"  /\ Goto(r, "refused")
       /\ socket' = [socket EXCEPT ![w] = @ \ {b}]
  /\ UNCHANGED <<durable, provider, running, process, recovery, request, budgets>>

\* Twelve seconds pass, the connection drops, or the goroutine is cancelled: the
\* socket is dropped, so that the late bet_update is not the next roll's answer.
OutcomeUnknown(r) ==
  /\ runner[r].pc = "await"
  /\ Goto(r, "unknown")
  /\ DropSocket(runner[r].worker)
  /\ UNCHANGED <<durable, provider, running, process, recovery, request, budgets>>

\* Ledger.RequireReconciliation and Ledger.FailConfirmed: their UPDATE of the bet
\* builds its JSON from a parameter whose type PostgreSQL cannot infer, so that the
\* statement is refused whenever it is prepared and the transaction rolls back.
StatementRefused(r, pc) ==
  /\ runner[r].pc = pc
  /\ Goto(r, "error")
  /\ UNCHANGED <<durable, wires, running, process, recovery, request, budgets>>

\* The error is ignored: the bet stays SENT, its session active.
RequireReconciliation(r) == StatementRefused(r, "unknown")

\* The same for a bet the provider refused, or that never left.
FailConfirmed(r) == StatementRefused(r, "refused")

\* settleBet: only a bet still awaiting its result changes the ledger.
Settle(r) ==
  LET b == runner[r].bet IN
  /\ Live(r, "reply")
  /\ IF AwaitsResult(b)
       THEN /\ bet' = Settled(b, runner[r].reply)
            /\ Goto(r, "settled")
       ELSE Goto(r, "error") /\ UNCHANGED bet
  /\ UNCHANGED <<session, wires, running, process, recovery, request, budgets>>

\* Reads the status again; "finish" also stands for a stop rule that is met.
AfterSettle(r) ==
  /\ Live(r, "settled")
  /\ \/ /\ session[runner[r].session].status # "STOP_REQUESTED"
        /\ Carry(r, "delay", None, None)
     \/ Carry(r, "finish", None, None)
  /\ UNCHANGED <<durable, wires, running, process, recovery, request, budgets>>

\* roll ends with Ledger.Complete, which errs when its row no longer matches.
FinishSession(r) ==
  LET s == runner[r].session IN
  /\ Live(r, "finish")
  /\ \/ session[s].status \in Unresolved /\ session' = Completed(s) /\ Depart(r)
     \/ session[s].status \notin Unresolved /\ Goto(r, "error") /\ UNCHANGED session
  /\ UNCHANGED <<bet, wires, running, process, recovery, request, budgets>>

\* roll returned an error: run reads the status ...
ReadAfterError(r) ==
  /\ runner[r].pc = "error"
  /\ \/ /\ session[runner[r].session].status \in Active
        /\ Goto(r, "closing")
        /\ UNCHANGED faults
     \/ /\ session[runner[r].session].status \notin Active
        /\ Depart(r)
        /\ UNCHANGED faults
     \/ Fault /\ Depart(r)
  /\ UNCHANGED <<durable, wires, running, process, recovery, request, lapses>>

\* ... and completes the session, whoever owns it by now.
CloseAfterError(r) ==
  /\ runner[r].pc = "closing"
  /\ \/ session' = Completed(runner[r].session) /\ UNCHANGED faults
     \/ Fault /\ UNCHANGED session
  /\ Depart(r)
  /\ UNCHANGED <<bet, wires, running, process, recovery, request, lapses>>

Leave(r) ==
  /\ runner[r].pc = "leaving"
  /\ Return(r)
  /\ UNCHANGED <<durable, wires, process, recovery, request, budgets>>

-----------------------------------------------------------------------------
(* The provider (external): executes a bet it received, refuses it, or never
   decides.  A refused bet is never executed. *)

ProviderDecides(b) ==
  /\ provider[b] = "wire"
  /\ \E o \in Outcomes \cup {"refused"} : provider' = [provider EXCEPT ![b] = o]
  /\ UNCHANGED <<durable, socket, runner, running, process, recovery, request,
                 budgets>>

-----------------------------------------------------------------------------
RunnerStep(r) ==
  \/ Register(r) \/ Stumble(r) \/ Vanish(r) \/ Lease(r) \/ Load(r)
  \/ PrepareBet(r) \/ MarkSent(r) \/ PlaceBet(r) \/ ReceiveUpdate(r)
  \/ OutcomeUnknown(r) \/ RequireReconciliation(r) \/ FailConfirmed(r)
  \/ Settle(r) \/ AfterSettle(r) \/ FinishSession(r)
  \/ ReadAfterError(r) \/ CloseAfterError(r) \/ Leave(r)

RecoveryStep(w) ==
  \/ RecoverClaim(w) \/ RecoverFail(w) \/ RecoverCheck(w) \/ RecoverFlag(w)
  \/ RecoverFault(w)

StartStep(q) ==
  \/ StartLookup(q) \/ StartLocal(q) \/ StartClaim(q) \/ StartInsert(q)
  \/ StartOwn(q)
  \/ ReconcileRead(q) \/ ReconcileSettle(q) \/ ReconcileComplete(q)

StopStep(q) == StopFlip(q) \/ StopCheck(q) \/ StopComplete(q)

RequestStep(q) == StartStep(q) \/ StopStep(q) \/ RequestFault(q)

Next ==
  \/ \E w \in Workers : Boot(w) \/ Crash(w) \/ RecoveryStep(w)
  \/ \E s \in Sessions : LeaseExpires(s) \/ LeaseLapses(s)
  \/ \E q \in Requests : \/ RequestStep(q) \/ Repeat(q)
                         \/ \E w \in Workers, ch \in Channels : Accept(q, w, ch)
  \/ \E r \in Runners : RunnerStep(r)
  \/ \E b \in Bets : ProviderDecides(b)

Spec == Init /\ [][Next]_vars

\* Goroutines and statements are scheduled, PlaceBet gives up after twelve
\* seconds, Recover ticks every ten, time passes, and systemd restarts a dead
\* process.  The user repeats the requests in Repeated and owes no other; the
\* provider owes nothing; crashes, lapses and faults need not happen.
Fairness ==
  /\ \A r \in Runners  : WF_vars(RunnerStep(r))
  /\ \A w \in Workers  : WF_vars(Boot(w)) /\ WF_vars(RecoveryStep(w))
  /\ \A s \in Sessions : WF_vars(LeaseExpires(s))
  /\ \A q \in Requests : WF_vars(RequestStep(q))
  /\ \A q \in Repeated :
       /\ WF_vars(Repeat(q))
       /\ SF_vars(\E w \in Workers, ch \in Channels : Accept(q, w, ch))

FairSpec == Spec /\ Fairness

-----------------------------------------------------------------------------
(* Properties *)

\* Type invariant of the model.
TypeOK ==
  /\ session \in [Sessions -> Session]
  /\ bet \in [Bets -> Bet]
  /\ provider \in [Bets -> ProviderState]
  /\ socket \in [Workers -> SUBSET Bets]
  /\ runner \in [Runners -> Runner]
  /\ running \in [Workers -> Runners \cup {None}]
  /\ process \in [Workers -> {"unborn", "up", "dead"}]
  /\ recovery \in [Workers -> Recovery]
  /\ request \in [Requests -> Request]
  /\ lapses \in 0..MaxLapses /\ faults \in 0..MaxFaults

\* A bet the provider may have executed has a durable row that says so: it was
\* marked SENT before the write and is never recorded as not executed, whatever
\* crash, recovery or handover comes between PrepareBet, MarkSent and the reply
\* (ledger.go PrepareBet/MarkSent, engine.go Recover).
ExecutedIsDurable ==
  \A b \in Bets : provider[b] \in Outcomes \cup {"wire"} =>
    bet[b].status \in Uncertain \cup {"COMPLETED"}

\* A result settled from a bet_update is the provider's result for that bet,
\* although a bet_update names no bet: after a timeout the late one is never read
\* as the next roll's, nor is a reconciled bet settled a second time
\* (pasino/client.go PlaceBet, engine.go roll, ledger.go settle).
SettledIsTrue ==
  \A b \in Bets : bet[b].result \in Outcomes => provider[b] = bet[b].result

InFlight(r) == runner[r].pc \in {"sent", "await", "reply", "unknown", "refused"}

\* Two goroutines of one session never have a bet with the provider at the same
\* time, although handover, START and Recover may run several of them
\* (ledger.go PrepareBet's pending check under the session's row lock).
OneFlightPerSession ==
  \A r1, r2 \in Runners :
    InFlight(r1) /\ InFlight(r2) /\ runner[r1].session = runner[r2].session
      => r1 = r2

\* Once a stop was requested the session's pending bets only dwindle: a roll that
\* read RUNNING before cannot prepare another (worker.go STOP, ledger.go
\* PrepareBet's status check under the row lock).
StopDrains ==
  [][\A s \in Sessions :
       session[s].status = "STOP_REQUESTED"
         => BetsOf(s, Pending)' \subseteq BetsOf(s, Pending)]_vars

\* The STOP command completes a session only if none of its bets is pending
\* (worker.go processCommand checks first).
StopCompletesClean ==
  [][\A q \in StopRequests, s \in Sessions :
       (StopComplete(q) /\ session[s].status = "STOP_REQUESTED")
         => BetsOf(s, Pending) = {}]_vars

\* What the rows and the provider amount to for BetLifecycle.
BookOf(b) ==
  CASE bet[b].status = "ABSENT" -> "absent"
    [] bet[b].status \in Pending -> "open"
    [] bet[b].status = "FAILED_CONFIRMED" -> "void"
    [] bet[b].status = "COMPLETED" ->
         IF bet[b].result = "balance" THEN "assumed" ELSE bet[b].result

TruthOf(b) == IF provider[b] \in Outcomes THEN provider[b] ELSE "none"

Lifecycle == INSTANCE BetLifecycle WITH
  book <- [b \in Bets |-> BookOf(b)], truth <- [b \in Bets |-> TruthOf(b)]

\* Sessions, leases, crashes, recovery, reconciliation and late replies together
\* implement the lifecycle the ledger promises for every bet (ledger.go).
ImplementsLifecycle == Lifecycle!Spec

\* The user never has two bets of uncertain result (BUSINESS_FLOW.md section 4).
OneUncertainBet ==
  \A b1, b2 \in Bets :
    bet[b1].status \in Uncertain /\ bet[b2].status \in Uncertain => b1 = b2

\* A completed session has no bet of uncertain result: what cannot be proved waits
\* for the admin (BUSINESS_FLOW.md section 11, engine.go run and roll).
CompletedIsSettled ==
  \A s \in Sessions : session[s].status = "COMPLETED" => BetsOf(s, Uncertain) = {}

\* A stop request is carried out: the session completes or is set aside for
\* reconciliation, also when its process dies (worker.go STOP, engine.go Recover).
StopIsCarriedOut ==
  \A s \in Sessions :
    session[s].status = "STOP_REQUESTED" ~> session[s].status \notin Active

Adopted(s) ==
  \E r \in Runners : runner[r].session = s /\ runner[r].pc \notin {"free", "leaving"}

\* A session left without a goroutine is adopted again or leaves the active
\* states (engine.go Recover, Start).
OrphanIsAdopted ==
  \A s \in Sessions :
    session[s].status \in Active /\ ~Adopted(s)
      ~> Adopted(s) \/ session[s].status \notin Active

\* A session set aside for reconciliation whose bets all have a recorded result
\* ends (BUSINESS_FLOW.md section 11).
ReconciledSessionEnds ==
  \A s \in Sessions :
    session[s].status = "RECONCILIATION_REQUIRED" /\ BetsOf(s, Uncertain) = {}
      ~> session[s].status = "COMPLETED"
=============================================================================
