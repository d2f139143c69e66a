------------------------- MODULE TradingEngineProofs -------------------------
(***************************************************************************)
(* Proofs about TradingEngine in three parts: type correctness, the bet    *)
(* ledger's safety, and what a step may do, with the refinement of         *)
(* BetLifecycle.                                                           *)
(***************************************************************************)
EXTENDS TradingEngine, TLAPS

-----------------------------------------------------------------------------
(***************************************************************************)
(* Type correctness.  TypeOK alone is not inductive: an action applies     *)
(* session, bet and the reply to what a goroutine, a request or Recover    *)
(* carries.  Shape adds that whoever is at a statement has the arguments   *)
(* that statement needs.                                                   *)
(***************************************************************************)

Holding == {"prepared", "sent", "await", "reply", "unknown", "refused"}

Holds(r) == runner[r].pc \in Holding

RunnerShape ==
  \A r \in Runners :
    /\ runner[r].pc # "free" => /\ runner[r].worker \in Workers
                                /\ runner[r].session \in Sessions
    /\ Holds(r) => runner[r].bet \in Bets
    /\ runner[r].pc = "reply" => runner[r].reply \in Outcomes

RequestShape ==
  \A q \in Requests :
    /\ request[q].pc \notin {"new", "done"} => request[q].worker \in Workers
    /\ request[q].pc \in {"local", "claim", "own", "recread", "recsettle", "reccomplete"}
         => request[q].session \in Sessions
    /\ request[q].pc = "recsettle" => request[q].bet \in Bets

RecoveryShape ==
  \A w \in Workers : recovery[w].pc # "idle" => recovery[w].session \in Sessions

Shape == TypeOK /\ RunnerShape /\ RequestShape /\ RecoveryShape

\* The empty database and the unborn processes have the shape.
LEMMA ShapeInit == Init => Shape
  BY EngineAssumption DEF Init, Shape, TypeOK, RunnerShape, RequestShape,
     RecoveryShape, Holds, Holding, AbsentSession, AbsentBet, FreeRunner,
     NewRequest, IdleRecovery, Session, Bet, ProviderState, Runner, RunnerPC,
     Request, RequestPC, Recovery, RecoveryPC, Unresolved, Active, Pending,
     Uncertain, Outcomes

\* `go e.run` fills a free slot with a goroutine that knows its process and
\* session.
LEMMA SpawnTyped ==
  ASSUME Shape, NEW w \in Workers, NEW s \in Sessions, Spawn(w, s)
  PROVE  /\ runner' \in [Runners -> Runner]
         /\ RunnerShape'
<1>1. PICK r \in Runners : runner' = [runner EXCEPT ![r] =
         [pc |-> "spawned", worker |-> w, session |-> s,
          bet |-> None, reply |-> None, ctx |-> "live"]]
  BY DEF Spawn
<1>2. runner' \in [Runners -> Runner]
  BY <1>1 DEF Shape, TypeOK, Runner, RunnerPC
<1>3. RunnerShape'
  BY <1>1 DEF Shape, TypeOK, RunnerShape, Holds, Holding
<1> QED
  BY <1>2, <1>3

\* A goroutine that moves on keeps its shape, provided it gains no bet and no
\* reply by the move alone.
LEMMA GotoTyped ==
  ASSUME Shape, NEW r \in Runners, NEW pc \in RunnerPC \ {"free", "reply"},
         Goto(r, pc), runner[r].pc # "free", pc \in Holding => Holds(r)
  PROVE  /\ runner' \in [Runners -> Runner]
         /\ RunnerShape'
<1>1. runner' \in [Runners -> Runner]
  <2>1. \A x \in Runners : runner[x] \in Runner
    BY DEF Shape, TypeOK
  <2>2. [runner[r] EXCEPT !.pc = pc] \in Runner
    BY <2>1 DEF Runner
  <2> QED
    BY <2>1, <2>2 DEF Goto, Shape, TypeOK
<1>2. RunnerShape'
  BY DEF Shape, TypeOK, RunnerShape, Goto, Holds, Runner
<1> QED
  BY <1>1, <1>2

\* A goroutine that takes up a bet and a reply (PrepareBet, ReceiveUpdate), or
\* puts them down (AfterSettle), keeps its shape.
LEMMA CarryTyped ==
  ASSUME Shape, NEW r \in Runners, NEW pc \in RunnerPC, NEW b \in Bets \cup {None},
         NEW reply \in Outcomes \cup {None}, Carry(r, pc, b, reply),
         runner[r].pc # "free",
         pc \in Holding => b \in Bets,
         pc = "reply" => reply \in Outcomes
  PROVE  /\ runner' \in [Runners -> Runner]
         /\ RunnerShape'
<1>1. runner' \in [Runners -> Runner]
  BY DEF Shape, TypeOK, Carry, Runner
<1>2. RunnerShape'
  BY DEF Shape, TypeOK, RunnerShape, Carry, Holds, Runner
<1> QED
  BY <1>1, <1>2

\* run's return leaves a free slot and no entry of the process.
LEMMA ReturnTyped ==
  ASSUME Shape, NEW r \in Runners, Return(r)
  PROVE  /\ runner' \in [Runners -> Runner]
         /\ running' \in [Workers -> Runners \cup {None}]
         /\ RunnerShape'
<1>1. runner' \in [Runners -> Runner]
  BY DEF Shape, TypeOK, Return, FreeRunner, Runner, RunnerPC
<1>2. RunnerShape'
  BY DEF Shape, TypeOK, RunnerShape, Return, FreeRunner, Holds, Holding
<1>3. running' \in [Workers -> Runners \cup {None}]
  BY DEF Shape, TypeOK, Return
<1> QED
  BY <1>1, <1>2, <1>3

\* A failing statement stays within the bound of the faults.
LEMMA FaultTyped == ASSUME Shape, Fault PROVE faults' \in 0..MaxFaults
  BY EngineAssumption DEF Shape, TypeOK, Fault

\* The three ways a handler moves on (it ends, takes a step, or enters a step
\* with a session and a bet) keep the shape of the requests.
LEMMA RequestTyped ==
  ASSUME Shape, NEW q \in Requests, request[q].pc \notin {"new", "done"},
         \/ Finish(q)
         \/ \E pc \in RequestPC \ {"new", "local", "claim", "own", "recread",
                                   "recsettle", "reccomplete"} : Step(q, pc)
         \/ \E pc \in {"claim", "reccomplete"} :
              Step(q, pc) /\ request[q].session \in Sessions
         \/ \E pc \in RequestPC \ {"new"}, s \in Sessions, b \in Bets \cup {None} :
              Enter(q, pc, s, b) /\ (pc = "recsettle" => b \in Bets)
  PROVE  /\ request' \in [Requests -> Request]
         /\ RequestShape'
<1>1. CASE Finish(q)
  <2>1. DoneRequest = [pc |-> "done", worker |-> None, channel |-> None,
                       session |-> None, bet |-> None]
    BY DEF DoneRequest, NewRequest
  <2>2. request' \in [Requests -> Request]
    BY <1>1, <2>1 DEF Finish, Shape, TypeOK, Request, RequestPC
  <2>3. RequestShape'
    BY <1>1, <2>1 DEF Finish, Shape, TypeOK, RequestShape
  <2> QED
    BY <2>2, <2>3
<1>2. ASSUME NEW pc \in RequestPC \ {"new"}, Step(q, pc),
             pc \in {"local", "claim", "own", "recread", "recsettle", "reccomplete"}
               => request[q].session \in Sessions,
             pc # "recsettle"
      PROVE  request' \in [Requests -> Request] /\ RequestShape'
  <2>1. request' \in [Requests -> Request]
    <3>1. \A x \in Requests : request[x] \in Request
      BY DEF Shape, TypeOK
    <3>2. [request[q] EXCEPT !.pc = pc] \in Request
      BY <3>1 DEF Request
    <3> QED
      BY <1>2, <3>1, <3>2 DEF Step, Shape, TypeOK
  <2>2. RequestShape'
    BY <1>2 DEF Step, Shape, TypeOK, RequestShape, Request
  <2> QED
    BY <2>1, <2>2
<1>3. ASSUME NEW pc \in RequestPC \ {"new"}, NEW s \in Sessions,
             NEW b \in Bets \cup {None}, Enter(q, pc, s, b),
             pc = "recsettle" => b \in Bets
      PROVE  request' \in [Requests -> Request] /\ RequestShape'
  <2>1. request' \in [Requests -> Request]
    BY <1>3 DEF Enter, Shape, TypeOK, Request
  <2>2. RequestShape'
    BY <1>3 DEF Enter, Shape, TypeOK, RequestShape, Request
  <2> QED
    BY <2>1, <2>2
<1> QED
  BY <1>1, <1>2, <1>3 DEF RequestPC

\* The unguarded UPDATE to RECONCILIATION_REQUIRED leaves a typed table.
LEMMA SetAsideTyped ==
  ASSUME Shape, NEW s PROVE SetAside(s) \in [Sessions -> Session]
<1>1. CASE s \in Sessions
  <2>1. \A x \in Sessions : session[x] \in Session
    BY DEF Shape, TypeOK
  <2>2. [session[s] EXCEPT !.status = "RECONCILIATION_REQUIRED"] \in Session
    BY <1>1, <2>1 DEF Session, Unresolved
  <2> QED
    BY <2>1, <2>2 DEF SetAside, Shape, TypeOK
<1>2. CASE s \notin Sessions
  <2>1. SetAside(s) = session
    BY <1>2 DEF SetAside, Shape, TypeOK
  <2> QED
    BY <2>1 DEF Shape, TypeOK
<1> QED
  BY <1>1, <1>2

\* Ledger.Complete leaves a typed table.
LEMMA CompletedTyped ==
  ASSUME Shape, NEW s \in Sessions PROVE Completed(s) \in [Sessions -> Session]
  BY DEF Shape, TypeOK, Completed, Session

\* Every statement, crash, lapse and decision of the provider keeps the shape.
THEOREM ShapeStep == Shape /\ [Next]_vars => Shape'
<1> SUFFICES ASSUME Shape, [Next]_vars PROVE Shape'
  OBVIOUS
<1> USE EngineAssumption DEF Shape, TypeOK, durable, wires, budgets
<1>1. ASSUME NEW w \in Workers, Boot(w) PROVE Shape'
  BY <1>1 DEF Boot, RunnerShape, RequestShape, RecoveryShape, Holds
<1>2. ASSUME NEW w \in Workers, Crash(w) PROVE Shape'
  <2>1. runner' \in [Runners -> Runner] /\ RunnerShape'
    BY <1>2 DEF Crash, FreeRunner, Runner, RunnerPC, RunnerShape, Holds, Holding
  <2>2. request' \in [Requests -> Request] /\ RequestShape'
    <3>1. DoneRequest = [pc |-> "done", worker |-> None, channel |-> None,
                         session |-> None, bet |-> None]
      BY DEF DoneRequest, NewRequest
    <3> QED
      BY <1>2, <3>1 DEF Crash, NewRequest, Request, RequestPC, RequestShape
  <2>3. recovery' \in [Workers -> Recovery] /\ RecoveryShape'
    BY <1>2 DEF Crash, IdleRecovery, Recovery, RecoveryPC, RecoveryShape
  <2> QED
    BY <1>2, <2>1, <2>2, <2>3 DEF Crash
<1>3. ASSUME NEW s \in Sessions, LeaseExpires(s) PROVE Shape'
  BY <1>3 DEF LeaseExpires, RunnerShape, RequestShape, RecoveryShape, Holds,
     Session
<1>4. ASSUME NEW s \in Sessions, LeaseLapses(s) PROVE Shape'
  <2>1. session' \in [Sessions -> Session]
    BY <1>4 DEF LeaseLapses, Session
  <2>2. lapses' \in 0..MaxLapses
    BY <1>4 DEF LeaseLapses
  <2> QED
    BY <1>4, <2>1, <2>2 DEF LeaseLapses, RunnerShape, RequestShape,
       RecoveryShape, Holds
<1>5. ASSUME NEW w \in Workers, RecoverClaim(w) PROVE Shape'
  <2>1. PICK s \in Sessions : /\ session' = OwnedBy(s, w)
                              /\ recovery' = [recovery EXCEPT ![w] =
                                                [pc |-> "fail", session |-> s]]
    BY <1>5 DEF RecoverClaim
  <2>2. session' \in [Sessions -> Session]
    BY <2>1 DEF OwnedBy, Session
  <2>3. recovery' \in [Workers -> Recovery] /\ RecoveryShape'
    BY <2>1 DEF Recovery, RecoveryPC, RecoveryShape
  <2> QED
    BY <1>5, <2>2, <2>3 DEF RecoverClaim, RunnerShape, RequestShape, Holds
<1>6. ASSUME NEW w \in Workers, RecoverFail(w) PROVE Shape'
  <2>1. \A b \in Bets : [bet[b] EXCEPT !.status = "FAILED_CONFIRMED"] \in Bet
    BY DEF Bet
  <2>2. bet' \in [Bets -> Bet]
    BY <1>6, <2>1 DEF RecoverFail
  <2>3. recovery' \in [Workers -> Recovery] /\ RecoveryShape'
    BY <1>6 DEF RecoverFail, Recovery, RecoveryPC, RecoveryShape
  <2> QED
    BY <1>6, <2>2, <2>3 DEF RecoverFail, RunnerShape, RequestShape, Holds
<1>7. ASSUME NEW w \in Workers, RecoverCheck(w) PROVE Shape'
  <2>1. recovery[w].session \in Sessions
    BY <1>7 DEF RecoverCheck, RecoveryShape
  <2>2. recovery' \in [Workers -> Recovery] /\ RecoveryShape'
    <3>1. IdleRecovery \in Recovery /\ IdleRecovery.pc = "idle"
      BY DEF IdleRecovery, Recovery, RecoveryPC
    <3>2. [recovery[w] EXCEPT !.pc = "flag"] \in Recovery
      BY DEF Recovery, RecoveryPC
    <3>3. \/ recovery' = [recovery EXCEPT ![w] = IdleRecovery]
          \/ recovery' = [recovery EXCEPT ![w].pc = "flag"]
      BY <1>7 DEF RecoverCheck
    <3>4. ASSUME NEW v \in Recovery, v.pc # "idle" => v.session \in Sessions,
                 recovery' = [recovery EXCEPT ![w] = v]
          PROVE  recovery' \in [Workers -> Recovery] /\ RecoveryShape'
      BY <3>4 DEF RecoveryShape
    <3>5. [recovery[w] EXCEPT !.pc = "flag"].session \in Sessions
      BY <2>1 DEF Recovery
    <3> QED
      BY <3>1, <3>2, <3>3, <3>4, <3>5
  <2>3. runner' \in [Runners -> Runner] /\ RunnerShape'
    BY <1>7, <2>1, SpawnTyped DEF RecoverCheck, RunnerShape, Holds
  <2> QED
    BY <1>7, <2>2, <2>3 DEF RecoverCheck, RequestShape
<1>8. ASSUME NEW w \in Workers, RecoverFlag(w) PROVE Shape'
  <2>1. session' \in [Sessions -> Session]
    BY <1>8, SetAsideTyped DEF RecoverFlag
  <2>2. recovery' \in [Workers -> Recovery] /\ RecoveryShape'
    BY <1>8 DEF RecoverFlag, IdleRecovery, Recovery, RecoveryPC, RecoveryShape
  <2> QED
    BY <1>8, <2>1, <2>2 DEF RecoverFlag, RunnerShape, RequestShape, Holds
<1>9. ASSUME NEW w \in Workers, RecoverFault(w) PROVE Shape'
  BY <1>9, FaultTyped DEF RecoverFault, RunnerShape, RequestShape,
     RecoveryShape, Holds, IdleRecovery, Recovery, RecoveryPC
<1>10. ASSUME NEW q \in Requests, NEW w \in Workers, NEW ch \in Channels, Accept(q, w, ch)
      PROVE  Shape'
  BY <1>10 DEF Accept, RunnerShape, RequestShape, RecoveryShape, Holds,
     Request, RequestPC
<1>11. ASSUME NEW q \in Requests, Repeat(q) PROVE Shape'
  BY <1>11 DEF Repeat, RunnerShape, RequestShape, RecoveryShape, Holds,
     NewRequest, Request, RequestPC
<1>12. ASSUME NEW q \in Requests, StartLookup(q) PROVE Shape'
  <2>1. request' \in [Requests -> Request] /\ RequestShape'
    BY <1>12, RequestTyped DEF StartLookup, RequestPC
  <2> QED
    BY <1>12, <2>1 DEF StartLookup, RunnerShape, RecoveryShape, Holds, RequestPC
<1>13. ASSUME NEW q \in Requests, StartLocal(q) PROVE Shape'
  <2>1. request' \in [Requests -> Request] /\ RequestShape'
    BY <1>13, RequestTyped DEF StartLocal, RequestPC, RequestShape
  <2> QED
    BY <1>13, <2>1 DEF StartLocal, RunnerShape, RecoveryShape, Holds,
       RequestPC, RequestShape
<1>14. ASSUME NEW q \in Requests, ReconcileRead(q) PROVE Shape'
  <2>1. request' \in [Requests -> Request] /\ RequestShape'
    BY <1>14, RequestTyped DEF ReconcileRead, BetsOf, RequestPC, RequestShape
  <2> QED
    BY <1>14, <2>1 DEF ReconcileRead, RunnerShape, RecoveryShape, Holds,
       BetsOf, RequestPC, RequestShape
<1>15. ASSUME NEW q \in Requests, ReconcileSettle(q) PROVE Shape'
  <2>1. request' \in [Requests -> Request] /\ RequestShape'
    BY <1>15, RequestTyped DEF ReconcileSettle, RequestPC, RequestShape
  <2> QED
    BY <1>15, <2>1 DEF ReconcileSettle, RunnerShape, RecoveryShape, Holds,
       Settled, Bet, Pending, Uncertain, RequestPC, RequestShape
<1>16. ASSUME NEW q \in Requests, StopCheck(q) PROVE Shape'
  <2>1. request' \in [Requests -> Request] /\ RequestShape'
    BY <1>16, RequestTyped DEF StopCheck, RequestPC
  <2> QED
    BY <1>16, <2>1 DEF StopCheck, RunnerShape, RecoveryShape, Holds, RequestPC
<1>17. ASSUME NEW q \in Requests, StopComplete(q) PROVE Shape'
  <2>1. request' \in [Requests -> Request] /\ RequestShape'
    BY <1>17, RequestTyped DEF StopComplete, RequestPC
  <2> QED
    BY <1>17, <2>1 DEF StopComplete, RunnerShape, RecoveryShape, Holds, Session
<1>18. ASSUME NEW q \in Requests, StartInsert(q) PROVE Shape'
  <2>1. request' \in [Requests -> Request] /\ RequestShape'
    BY <1>18, RequestTyped DEF StartInsert, RequestPC
  <2> QED
    BY <1>18, <2>1 DEF StartInsert, RunnerShape, RecoveryShape, Holds,
       FreshSession, Session, Unresolved, Active, RequestPC
<1>19. ASSUME NEW q \in Requests, RequestFault(q) PROVE Shape'
  <2>1. request' \in [Requests -> Request] /\ RequestShape'
    BY <1>19, RequestTyped DEF RequestFault, RequestPC
  <2> QED
    BY <1>19, <2>1, FaultTyped DEF RequestFault, RunnerShape, RecoveryShape,
       Holds
<1>20. ASSUME NEW q \in Requests, ReconcileComplete(q) PROVE Shape'
  <2>1. request' \in [Requests -> Request] /\ RequestShape'
    BY <1>20, RequestTyped DEF ReconcileComplete
  <2>2. session' \in [Sessions -> Session]
    <3>1. request[q].session \in Sessions
      BY <1>20 DEF ReconcileComplete, RequestShape
    <3> QED
      BY <1>20, <3>1, CompletedTyped DEF ReconcileComplete
  <2> QED
    BY <1>20, <2>1, <2>2 DEF ReconcileComplete, RunnerShape, RecoveryShape,
       Holds
<1>21. ASSUME NEW q \in Requests, StopFlip(q) PROVE Shape'
  <2>1. request' \in [Requests -> Request] /\ RequestShape'
    BY <1>21, RequestTyped DEF StopFlip, RequestPC
  <2>2. session' \in [Sessions -> Session]
    BY <1>21 DEF StopFlip, Session, Unresolved, Active
  <2> QED
    BY <1>21, <2>1, <2>2 DEF StopFlip, RunnerShape, RecoveryShape, Holds
<1>22. ASSUME NEW q \in Requests, StartClaim(q) PROVE Shape'
  <2>1. request' \in [Requests -> Request] /\ RequestShape'
    BY <1>22, RequestTyped DEF StartClaim
  <2>2. request[q].session \in Sessions /\ request[q].worker \in Workers
    BY <1>22 DEF StartClaim, RequestShape
  <2>3. runner' \in [Runners -> Runner] /\ RunnerShape'
    BY <1>22, <2>2, SpawnTyped DEF StartClaim, RunnerShape, Holds
  <2>4. session' \in [Sessions -> Session]
    BY <1>22, <2>2 DEF StartClaim, OwnedBy, Session
  <2> QED
    BY <1>22, <2>1, <2>3, <2>4 DEF StartClaim, RecoveryShape
<1>23. ASSUME NEW q \in Requests, StartOwn(q) PROVE Shape'
  <2>1. request' \in [Requests -> Request] /\ RequestShape'
    BY <1>23, RequestTyped DEF StartOwn
  <2>2. request[q].session \in Sessions /\ request[q].worker \in Workers
    BY <1>23 DEF StartOwn, RequestShape
  <2>3. runner' \in [Runners -> Runner] /\ RunnerShape'
    BY <1>23, <2>2, SpawnTyped DEF StartOwn, RunnerShape, Holds
  <2>4. session' \in [Sessions -> Session]
    BY <1>23, <2>2 DEF StartOwn, OwnedBy, Session
  <2> QED
    BY <1>23, <2>1, <2>3, <2>4 DEF StartOwn, RecoveryShape
<1>24. ASSUME NEW r \in Runners, Register(r) PROVE Shape'
  <2>1. ASSUME NEW x \in Runners
        PROVE  /\ runner'[x] \in Runner
               /\ runner'[x].pc = IF x = r THEN "ready" ELSE runner[x].pc
               /\ runner'[x].worker = runner[x].worker
               /\ runner'[x].session = runner[x].session
               /\ runner'[x].bet = runner[x].bet
               /\ runner'[x].reply = runner[x].reply
    <3>1. runner[x] \in Runner
      OBVIOUS
    <3>2. CASE x = r
      BY <1>24, <3>1, <3>2 DEF Register, Runner, RunnerPC
    <3>3. CASE x # r /\ x = running[runner[r].worker]
      BY <1>24, <3>1, <3>3 DEF Register, Runner
    <3>4. CASE x # r /\ x # running[runner[r].worker]
      BY <1>24, <3>1, <3>4 DEF Register, Runner
    <3> QED
      BY <3>2, <3>3, <3>4
  <2>2. runner' \in [Runners -> Runner]
    BY <1>24, <2>1 DEF Register
  <2>3. RunnerShape'
    BY <1>24, <2>1 DEF Register, RunnerShape, Holds, Holding
  <2> QED
    BY <1>24, <2>2, <2>3 DEF Register, RequestShape, RecoveryShape
<1>25. ASSUME NEW r \in Runners, Stumble(r) PROVE Shape'
  <2>1. runner' \in [Runners -> Runner] /\ RunnerShape'
    BY <1>25, GotoTyped DEF Stumble, RunnerPC, Holding
  <2> QED
    BY <1>25, <2>1, FaultTyped DEF Stumble, RequestShape, RecoveryShape
<1>26. ASSUME NEW r \in Runners, Vanish(r) PROVE Shape'
  <2>1. runner' \in [Runners -> Runner] /\ RunnerShape'
    BY <1>26, ReturnTyped DEF Vanish, RunnerPC
  <2> QED
    BY <1>26, <2>1, ReturnTyped DEF Vanish, RequestShape, RecoveryShape
<1>27. ASSUME NEW r \in Runners, Lease(r) PROVE Shape'
  <2>1. runner' \in [Runners -> Runner] /\ RunnerShape'
    BY <1>27, GotoTyped DEF Lease, RunnerPC, Live, Holding
  <2> QED
    BY <1>27, <2>1 DEF Lease, RequestShape, RecoveryShape, Session
<1>28. ASSUME NEW r \in Runners, Load(r) PROVE Shape'
  <2>1. runner' \in [Runners -> Runner] /\ RunnerShape'
    BY <1>28, GotoTyped, CarryTyped DEF Load, Depart, RunnerPC, Live, Holding
  <2> QED
    BY <1>28, <2>1 DEF Load, RequestShape, RecoveryShape
<1>29. ASSUME NEW r \in Runners, PrepareBet(r) PROVE Shape'
  <2>1. runner' \in [Runners -> Runner] /\ RunnerShape'
    BY <1>29, GotoTyped, CarryTyped DEF PrepareBet, RunnerPC, Live, Holding
  <2>2. runner[r].session \in Sessions
    BY <1>29 DEF PrepareBet, Live, RunnerShape
  <2>3. ASSUME NEW b \in Bets,
               bet' = [bet EXCEPT ![b] = [status |-> "PREPARED",
                         session |-> runner[r].session, result |-> "none"]]
        PROVE  bet' \in [Bets -> Bet]
    BY <2>2, <2>3 DEF Bet, Pending
  <2>4. bet' \in [Bets -> Bet]
    BY <1>29, <2>3 DEF PrepareBet
  <2> QED
    BY <1>29, <2>1, <2>4 DEF PrepareBet, RequestShape, RecoveryShape
<1>30. ASSUME NEW r \in Runners, MarkSent(r) PROVE Shape'
  <2>1. runner' \in [Runners -> Runner] /\ RunnerShape'
    BY <1>30, GotoTyped DEF MarkSent, RunnerPC, Live, Holding, Holds
  <2>2. ASSUME NEW b, bet' = [bet EXCEPT ![b].status = "SENT"]
        PROVE  bet' \in [Bets -> Bet]
    <3>1. \A x \in Bets : bet[x] \in Bet
      OBVIOUS
    <3>2. \A x \in Bets : [bet[x] EXCEPT !.status = "SENT"] \in Bet
      BY <3>1 DEF Bet, Pending, Uncertain
    <3> QED
      BY <2>2, <3>1, <3>2
  <2>3. bet' \in [Bets -> Bet]
    BY <1>30, <2>2 DEF MarkSent
  <2> QED
    BY <1>30, <2>1, <2>3 DEF MarkSent, RequestShape, RecoveryShape
<1>31. ASSUME NEW r \in Runners, PlaceBet(r) PROVE Shape'
  <2>1. runner' \in [Runners -> Runner] /\ RunnerShape'
    BY <1>31, GotoTyped DEF PlaceBet, RunnerPC, Holding, Holds
  <2>2. runner[r].bet \in Bets
    BY <1>31 DEF PlaceBet, RunnerShape, Holds, Holding
  <2>3. provider' \in [Bets -> ProviderState] /\ socket' \in [Workers -> SUBSET Bets]
    BY <1>31, <2>2 DEF PlaceBet, DropSocket, ProviderState
  <2> QED
    BY <1>31, <2>1, <2>3 DEF PlaceBet, RequestShape, RecoveryShape
<1>32. ASSUME NEW r \in Runners, ReceiveUpdate(r) PROVE Shape'
  <2>1. Holds(r) /\ runner[r].bet \in Bets /\ runner[r].worker \in Workers
    BY <1>32 DEF ReceiveUpdate, RunnerShape, Holds, Holding
  <2>2. runner' \in [Runners -> Runner] /\ RunnerShape'
    BY <1>32, <2>1, GotoTyped, CarryTyped DEF ReceiveUpdate, RunnerPC, Holding
  <2>3. socket' \in [Workers -> SUBSET Bets]
    BY <1>32, <2>1 DEF ReceiveUpdate
  <2> QED
    BY <1>32, <2>2, <2>3 DEF ReceiveUpdate, RequestShape, RecoveryShape
<1>33. ASSUME NEW r \in Runners, OutcomeUnknown(r) PROVE Shape'
  <2>1. runner' \in [Runners -> Runner] /\ RunnerShape'
    BY <1>33, GotoTyped DEF OutcomeUnknown, RunnerPC, Holding, Holds
  <2> QED
    BY <1>33, <2>1 DEF OutcomeUnknown, RequestShape, RecoveryShape, DropSocket
<1>34. ASSUME NEW r \in Runners, RequireReconciliation(r) \/ FailConfirmed(r) PROVE Shape'
  <2>1. StatementRefused(r, "unknown") \/ StatementRefused(r, "refused")
    BY <1>34 DEF RequireReconciliation, FailConfirmed
  <2>2. runner' \in [Runners -> Runner] /\ RunnerShape'
    BY <2>1, GotoTyped DEF StatementRefused, RunnerPC, Holding
  <2> QED
    BY <2>1, <2>2 DEF StatementRefused, RequestShape, RecoveryShape
<1>35. ASSUME NEW r \in Runners, Leave(r) PROVE Shape'
  <2>1. runner' \in [Runners -> Runner] /\ RunnerShape'
    BY <1>35, ReturnTyped DEF Leave, RunnerPC
  <2> QED
    BY <1>35, <2>1, ReturnTyped DEF Leave, RequestShape, RecoveryShape
<1>36. ASSUME NEW r \in Runners, Settle(r) PROVE Shape'
  <2>1. runner' \in [Runners -> Runner] /\ RunnerShape'
    BY <1>36, GotoTyped DEF Settle, Live, RunnerPC, Holding
  <2>2. runner[r].bet \in Bets /\ runner[r].reply \in Outcomes
    BY <1>36 DEF Settle, Live, RunnerShape, Holds, Holding
  <2>3. bet' \in [Bets -> Bet]
    BY <1>36, <2>2 DEF Settle, Settled, Bet
  <2> QED
    BY <1>36, <2>1, <2>3 DEF Settle, RequestShape, RecoveryShape
<1>37. ASSUME NEW r \in Runners, AfterSettle(r) PROVE Shape'
  <2>1. runner' \in [Runners -> Runner] /\ RunnerShape'
    BY <1>37, CarryTyped DEF AfterSettle, RunnerPC, Live, Holding
  <2> QED
    BY <1>37, <2>1 DEF AfterSettle, RequestShape, RecoveryShape
<1>38. ASSUME NEW r \in Runners, FinishSession(r) PROVE Shape'
  <2>1. runner' \in [Runners -> Runner] /\ RunnerShape'
    BY <1>38, GotoTyped, CarryTyped DEF FinishSession, Depart, RunnerPC, Live, Holding
  <2>2. session' \in [Sessions -> Session]
    <3>1. runner[r].session \in Sessions
      BY <1>38 DEF FinishSession, RunnerShape, Live
    <3> QED
      BY <1>38, <3>1, CompletedTyped DEF FinishSession
  <2> QED
    BY <1>38, <2>1, <2>2 DEF FinishSession, RequestShape, RecoveryShape
<1>39. ASSUME NEW r \in Runners, ReadAfterError(r) PROVE Shape'
  <2>1. runner' \in [Runners -> Runner] /\ RunnerShape'
    BY <1>39, GotoTyped, CarryTyped DEF ReadAfterError, Depart, RunnerPC, Holding
  <2> QED
    BY <1>39, <2>1, FaultTyped DEF ReadAfterError, RequestShape, RecoveryShape
<1>40. ASSUME NEW r \in Runners, CloseAfterError(r) PROVE Shape'
  <2>1. runner' \in [Runners -> Runner] /\ RunnerShape'
    BY <1>40, CarryTyped DEF CloseAfterError, Depart, RunnerPC, Holding
  <2>2. session' \in [Sessions -> Session]
    <3>1. runner[r].session \in Sessions
      BY <1>40 DEF CloseAfterError, RunnerShape
    <3> QED
      BY <1>40, <3>1, CompletedTyped DEF CloseAfterError
  <2> QED
    BY <1>40, <2>1, <2>2, FaultTyped DEF CloseAfterError, RequestShape,
       RecoveryShape
<1>41. ASSUME NEW b \in Bets, ProviderDecides(b) PROVE Shape'
  BY <1>41 DEF ProviderDecides, ProviderState, Outcomes, RunnerShape,
     RequestShape, RecoveryShape, Holds
<1>42. ASSUME UNCHANGED vars PROVE Shape'
  BY <1>42 DEF vars, RunnerShape, RequestShape, RecoveryShape, Holds
<1> QED
  BY <1>1, <1>2, <1>3, <1>4, <1>5, <1>6, <1>7, <1>8, <1>9, <1>10, <1>11, <1>12,
     <1>13, <1>14, <1>15, <1>16, <1>17, <1>18, <1>19, <1>20, <1>21, <1>22,
     <1>23, <1>24, <1>25, <1>26, <1>27, <1>28, <1>29, <1>30, <1>31, <1>32,
     <1>33, <1>34, <1>35, <1>36, <1>37, <1>38, <1>39, <1>40, <1>41, <1>42 DEF
     Next, RecoveryStep, RequestStep, StartStep, StopStep, RunnerStep

\* The shape holds of every reachable state: whoever holds a bet, a session or
\* a reply really has one (the arguments roll, Recover and reconcileExact hand
\* from statement to statement).
THEOREM ShapeInvariant == Spec => []Shape
  BY ShapeInit, ShapeStep, PTL DEF Spec

\* The model never leaves the values the schema and the code allow.
THEOREM TypeInvariant == Spec => []TypeOK
  BY ShapeInvariant, PTL DEF Shape

-----------------------------------------------------------------------------
(***************************************************************************)
(* Proofs of the bet ledger's safety.  The invariant ties every row of     *)
(* provider_bets to the goroutine that holds it, to what the provider did  *)
(* with it, and to the connection its bet_update may arrive on; a          *)
(* reconciliation is tied to a session that never runs again.              *)
(***************************************************************************)

\* RUNNING and STOP_REQUESTED are behind the session for good.
Past(s) == session[s].status \in {"RECONCILIATION_REQUIRED", "COMPLETED"}

Truthful(b) ==
  /\ bet[b].status \in {"ABSENT", "PREPARED"} => provider[b] = "none"
  /\ bet[b].status = "FAILED_CONFIRMED" => provider[b] \in {"none", "refused"}
  /\ bet[b].status = "COMPLETED" <=> bet[b].result # "none"
  /\ bet[b].result \in Outcomes => provider[b] = bet[b].result

Abandoned(b) == bet[b].status = "FAILED_CONFIRMED"

\* A reconciliation settled the bet while its goroutine still waited for it.
Overtaken(r) ==
  LET b == runner[r].bet IN
  /\ bet[b].status = "COMPLETED" /\ bet[b].result = "balance"
  /\ Past(runner[r].session)

Held(r) ==
  LET b == runner[r].bet IN
  /\ bet[b].session = runner[r].session
  /\ runner[r].pc = "prepared" => bet[b].status = "PREPARED" \/ Abandoned(b)
  /\ runner[r].pc # "prepared" => bet[b].status = "SENT" \/ Overtaken(r)
  /\ runner[r].pc = "sent" => provider[b] = "none"
  /\ runner[r].pc = "reply" => provider[b] = runner[r].reply
  /\ runner[r].pc = "refused" => provider[b] \in {"none", "refused"}

HeldOnce ==
  \A r1, r2 \in Runners :
    Holds(r1) /\ Holds(r2) /\ runner[r1].bet = runner[r2].bet => r1 = r2

Committed(r) == Holds(r) /\ ~(runner[r].pc = "prepared" /\ Abandoned(runner[r].bet))

CommittedOnce ==
  \A r1, r2 \in Runners :
    Committed(r1) /\ Committed(r2) /\ runner[r1].session = runner[r2].session
      => r1 = r2

Awaits(r, w, b) ==
  runner[r].pc = "await" /\ runner[r].worker = w /\ runner[r].bet = b

SocketsMatch ==
  /\ \A w \in Workers : \A b \in socket[w] : \E r \in Runners : Awaits(r, w, b)
  /\ \A r1, r2 \in Runners :
       /\ runner[r1].pc = "await" /\ runner[r2].pc = "await"
       /\ runner[r1].worker = runner[r2].worker
       => r1 = r2

Reconciling(q) ==
  request[q].pc = "recsettle" =>
    /\ Past(request[q].session)
    /\ bet[request[q].bet].status # "ABSENT"
    /\ bet[request[q].bet].session = request[q].session

IInv ==
  /\ \A b \in Bets : Truthful(b)
  /\ \A r \in Runners : Holds(r) => Held(r)
  /\ HeldOnce
  /\ CommittedOnce
  /\ SocketsMatch
  /\ \A q \in Requests : Reconciling(q)

\* The initial state satisfies the inductive invariant.
LEMMA IInvInit == Init => IInv
  BY DEF Init, IInv, Truthful, HeldOnce, CommittedOnce, Committed, SocketsMatch,
     Reconciling, Holds, Holding, AbsentBet, FreeRunner, NewRequest, Outcomes

-----------------------------------------------------------------------------
(* A session's status never returns from Past. *)

PastKept == \A s \in Sessions : Past(s) => Past(s)'

\* A session that is completed or set aside never becomes active again: no
\* statement writes RUNNING or STOP_REQUESTED over those two.
LEMMA PastStable == Shape /\ [Next]_vars => PastKept
<1> SUFFICES ASSUME Shape, [Next]_vars, NEW s \in Sessions, Past(s) PROVE Past(s)'
  BY DEF PastKept
<1> USE DEF Past, Shape, TypeOK
<1>0. session[s] \in Session
  OBVIOUS
<1>1. CASE UNCHANGED session
  BY <1>1
<1>2. ASSUME NEW x \in Sessions,
             \/ \E lease : session' = [session EXCEPT ![x].lease = lease]
             \/ \E w : session' = OwnedBy(x, w)
      PROVE  Past(s)'
  BY <1>0, <1>2 DEF OwnedBy, Session
<1>3. ASSUME NEW x, \/ session' = Completed(x)
                    \/ session' = SetAside(x)
                    \/ session' = [session EXCEPT ![x].status = "COMPLETED"]
      PROVE  Past(s)'
  BY <1>0, <1>3 DEF Completed, SetAside, Session
<1>4. ASSUME NEW q \in Requests, StopFlip(q) \/ StopComplete(q) \/ StartInsert(q)
      PROVE  Past(s)'
  BY <1>0, <1>4 DEF StopFlip, StopComplete, StartInsert, Session
<1>5. ASSUME NEW w \in Workers,
             \/ Boot(w) \/ Crash(w) \/ RecoverFail(w) \/ RecoverCheck(w)
             \/ RecoverFault(w)
      PROVE  Past(s)'
  BY <1>1, <1>5 DEF Boot, Crash, RecoverFail, RecoverCheck, RecoverFault,
     durable
<1>6. ASSUME NEW w \in Workers,
             \/ RecoverClaim(w) \/ RecoverFlag(w)
      PROVE  Past(s)'
  BY <1>1, <1>2, <1>3, <1>6 DEF RecoverClaim, RecoverFlag
<1>7. ASSUME NEW x \in Sessions,
             \/ LeaseExpires(x) \/ LeaseLapses(x)
      PROVE  Past(s)'
  BY <1>2, <1>7 DEF LeaseExpires, LeaseLapses
<1>8. ASSUME NEW q \in Requests,
             \/ StartLookup(q) \/ StartLocal(q) \/ ReconcileRead(q)
             \/ ReconcileSettle(q) \/ StopCheck(q) \/ RequestFault(q)
             \/ Repeat(q)
      PROVE  Past(s)'
  BY <1>1, <1>8 DEF StartLookup, StartLocal, ReconcileRead, ReconcileSettle,
     StopCheck, RequestFault, Repeat, durable
<1>9. ASSUME NEW q \in Requests, NEW w \in Workers, NEW ch \in Channels, Accept(q, w, ch)
      PROVE  Past(s)'
  BY <1>1, <1>9 DEF Accept, durable
<1>10. ASSUME NEW q \in Requests,
             \/ StartClaim(q) \/ StartOwn(q) \/ ReconcileComplete(q)
      PROVE  Past(s)'
  BY <1>1, <1>2, <1>3, <1>10 DEF StartClaim, StartOwn, ReconcileComplete,
     RequestShape
<1>11. ASSUME NEW r \in Runners,
             \/ Register(r) \/ Stumble(r) \/ Vanish(r) \/ Load(r)
             \/ PrepareBet(r) \/ MarkSent(r) \/ PlaceBet(r) \/ ReceiveUpdate(r)
             \/ OutcomeUnknown(r) \/ Settle(r) \/ AfterSettle(r)
             \/ ReadAfterError(r) \/ Leave(r)
             \/ RequireReconciliation(r) \/ FailConfirmed(r)
      PROVE  Past(s)'
  BY <1>1, <1>11 DEF Register, Stumble, Vanish, Load, PrepareBet, MarkSent,
     PlaceBet, ReceiveUpdate, OutcomeUnknown, Settle, AfterSettle,
     ReadAfterError, Leave, RequireReconciliation, FailConfirmed,
     StatementRefused, durable
<1>12. ASSUME NEW r \in Runners,
             Lease(r) \/ FinishSession(r) \/ CloseAfterError(r)
      PROVE  Past(s)'
  BY <1>1, <1>2, <1>3, <1>12 DEF Lease, FinishSession, CloseAfterError,
     RunnerShape, Live, durable
<1>13. ASSUME NEW b \in Bets, ProviderDecides(b) PROVE Past(s)'
  BY <1>1, <1>13 DEF ProviderDecides, durable
<1>14. CASE UNCHANGED vars
  BY <1>1, <1>14 DEF vars
<1> QED
  BY <1>4, <1>5, <1>6, <1>7, <1>8, <1>9, <1>10, <1>11, <1>12, <1>13, <1>14 DEF
     Next, RecoveryStep, RequestStep, StartStep, StopStep, RunnerStep

-----------------------------------------------------------------------------
(* What keeps the invariant although the step does not concern a bet. *)

\* A goroutine that holds a bet after the step held it before, unchanged.
RunnersKept ==
  \A r \in Runners : Holds(r)' =>
    /\ runner'[r].pc = runner[r].pc
    /\ runner'[r].worker = runner[r].worker
    /\ runner'[r].session = runner[r].session
    /\ runner'[r].bet = runner[r].bet
    /\ runner'[r].reply = runner[r].reply

\* A connection delivers nothing new, and what it delivers is awaited still.
SocketsKept ==
  \A w \in Workers : \A b \in socket'[w] :
    b \in socket[w] /\ \A r \in Runners : Awaits(r, w, b) => Awaits(r, w, b)'

\* A request that settles a bet after the step was about to before.
RequestsKept ==
  \A q \in Requests : request'[q].pc = "recsettle" => request'[q] = request[q]

\* A step that changes neither bets nor the provider keeps the invariant when
\* no goroutine gains a bet, no connection owes more, and no request comes to
\* settle.
LEMMA FrameStep ==
  ASSUME Shape, Shape', IInv, PastKept, UNCHANGED <<bet, provider>>,
         RunnersKept, SocketsKept, RequestsKept
  PROVE  IInv'
<1> USE DEF Shape, TypeOK
<1>1. \A r \in Runners : Holds(r)' => Holds(r) /\ runner[r].session \in Sessions
  BY DEF RunnersKept, Holds, RunnerShape, Holding
<1>2. \A b \in Bets : Truthful(b)'
  BY DEF IInv, Truthful
<1>3. ASSUME NEW r \in Runners, Holds(r)' PROVE Held(r)'
  <2>1. Held(r) /\ runner[r].session \in Sessions
    BY <1>1, <1>3 DEF IInv
  <2> QED
    BY <1>3, <2>1 DEF RunnersKept, PastKept, Held, Overtaken, Abandoned
<1>4. HeldOnce'
  BY <1>1 DEF IInv, HeldOnce, RunnersKept
<1>5. CommittedOnce'
  BY <1>1 DEF IInv, CommittedOnce, Committed, RunnersKept, Abandoned
<1>6. SocketsMatch'
  <2>1. \A r \in Runners : runner'[r].pc = "await" => Holds(r)'
    BY DEF Holds, Holding
  <2>2. ASSUME NEW w \in Workers, NEW b \in socket'[w]
        PROVE  \E r \in Runners : Awaits(r, w, b)'
    BY <2>2 DEF IInv, SocketsMatch, SocketsKept
  <2> QED
    BY <2>1, <2>2 DEF IInv, SocketsMatch, RunnersKept
<1>7. ASSUME NEW q \in Requests PROVE Reconciling(q)'
  <2>1. CASE request'[q].pc = "recsettle"
    <3>1. request'[q] = request[q] /\ Reconciling(q) /\ request[q].session \in Sessions
      BY <2>1 DEF RequestsKept, IInv, RequestShape
    <3> QED
      BY <2>1, <3>1 DEF Reconciling, PastKept
  <2> QED
    BY <2>1 DEF Reconciling
<1> QED
  BY <1>2, <1>3, <1>4, <1>5, <1>6, <1>7 DEF IInv

\* The connection still owes what it owed when neither it nor any goroutine's
\* wait changed.
LEMMA SocketsStay ==
  ASSUME UNCHANGED socket,
         \A r \in Runners : runner[r].pc = "await" =>
           /\ runner'[r].pc = "await"
           /\ runner'[r].worker = runner[r].worker
           /\ runner'[r].bet = runner[r].bet
  PROVE  SocketsKept
  BY DEF SocketsKept, Awaits

\* The step of a goroutine r on its own bet: every other goroutine, bet and
\* request is as before.
LEMMA ActorStep ==
  ASSUME Shape, Shape', IInv, PastKept, NEW r \in Runners, NEW b \in Bets,
         Holds(r), runner[r].bet = b,
         \A x \in Runners \ {r} : runner'[x] = runner[x],
         Holds(r)' => runner'[r].bet = b /\ runner'[r].session = runner[r].session,
         Committed(r)' => Committed(r),
         \A c \in Bets \ {b} : bet'[c] = bet[c] /\ provider'[c] = provider[c],
         bet'[b].session = bet[b].session, bet'[b].status # "ABSENT",
         UNCHANGED request,
         Truthful(b)', Holds(r)' => Held(r)', SocketsMatch'
  PROVE  IInv'
<1> USE DEF Shape, TypeOK
<1>1. \A c \in Bets : Truthful(c)'
  BY DEF IInv, Truthful
<1>2. ASSUME NEW x \in Runners, Holds(x)' PROVE Held(x)'
  <2>1. CASE x = r
    BY <1>2, <2>1
  <2>2. CASE x # r
    <3>1. /\ runner'[x] = runner[x] /\ Holds(x) /\ Held(x)
          /\ runner[x].bet \in Bets \ {b} /\ runner[x].session \in Sessions
      BY <1>2, <2>2 DEF IInv, HeldOnce, RunnerShape, Holds, Holding
    <3> QED
      BY <3>1 DEF PastKept, Held, Overtaken, Abandoned
  <2> QED
    BY <2>1, <2>2
<1>3. HeldOnce'
  BY DEF IInv, HeldOnce, Holds
<1>4. CommittedOnce'
  <2>1. \A x \in Runners : Committed(x)' =>
          Committed(x) /\ runner'[x].session = runner[x].session
    <3>1. ASSUME NEW x \in Runners \ {r}, Committed(x)'
          PROVE  Committed(x) /\ runner'[x].session = runner[x].session
      <4>1. runner'[x] = runner[x] /\ Holds(x) /\ runner[x].bet \in Bets \ {b}
        BY <3>1 DEF IInv, HeldOnce, RunnerShape, Holds, Committed
      <4> QED
        BY <3>1, <4>1 DEF Committed, Abandoned
    <3> QED
      BY <3>1 DEF Committed
  <2> QED
    BY <2>1 DEF IInv, CommittedOnce
<1>5. ASSUME NEW q \in Requests PROVE Reconciling(q)'
  <2>1. CASE request[q].pc = "recsettle"
    <3>1. /\ Reconciling(q) /\ request[q].session \in Sessions
          /\ request[q].bet \in Bets
      BY <2>1 DEF IInv, RequestShape
    <3> QED
      BY <2>1, <3>1 DEF Reconciling, PastKept
  <2> QED
    BY <2>1 DEF Reconciling
<1> QED
  BY <1>1, <1>2, <1>3, <1>4, <1>5 DEF IInv

-----------------------------------------------------------------------------
(* Steps that concern no bet. *)

AwaitsKept ==
  \A r \in Runners : runner[r].pc = "await" =>
    /\ runner'[r].pc = "await"
    /\ runner'[r].worker = runner[r].worker
    /\ runner'[r].bet = runner[r].bet

\* A step that starts, ends or moves a goroutine without giving it a bet adds
\* nothing to what goroutines hold, and leaves the waiting ones waiting.
LEMMA RunnersIdle ==
  ASSUME Shape,
         \/ UNCHANGED runner
         \/ \E w \in Workers, s \in Sessions : Spawn(w, s)
         \/ \E r \in Runners : /\ runner[r].pc # "await"
                               /\ \/ \E pc \in RunnerPC \ Holding : Goto(r, pc)
                                  \/ Carry(r, "delay", None, None)
                                  \/ Carry(r, "finish", None, None)
                                  \/ Depart(r)
                                  \/ Return(r)
  PROVE  RunnersKept /\ AwaitsKept
<1> USE DEF Shape, TypeOK, RunnersKept, AwaitsKept, Holds
<1>1. CASE UNCHANGED runner
  BY <1>1
<1>2. ASSUME NEW w \in Workers, NEW s \in Sessions, Spawn(w, s)
      PROVE  RunnersKept /\ AwaitsKept
  BY <1>2 DEF Spawn, Holding
<1>3. ASSUME NEW r \in Runners, runner[r].pc # "await",
             NEW pc \in RunnerPC \ Holding, Goto(r, pc)
      PROVE  RunnersKept /\ AwaitsKept
  BY <1>3 DEF Goto
<1>4. ASSUME NEW r \in Runners, runner[r].pc # "await",
             NEW pc \in {"delay", "finish", "leaving"}, Carry(r, pc, None, None)
      PROVE  RunnersKept /\ AwaitsKept
  BY <1>4 DEF Carry, Holding
<1>5. ASSUME NEW r \in Runners, runner[r].pc # "await", Return(r)
      PROVE  RunnersKept /\ AwaitsKept
  BY <1>5 DEF Return, FreeRunner, Holding
<1> QED
  BY <1>1, <1>2, <1>3, <1>4, <1>5 DEF Depart

\* FrameStep for a step that leaves the connections alone.
LEMMA IdleStep ==
  ASSUME Shape, Shape', IInv, PastKept, UNCHANGED <<bet, provider, socket>>,
         RunnersKept, AwaitsKept, RequestsKept
  PROVE  IInv'
<1>1. SocketsKept
  BY SocketsStay DEF AwaitsKept
<1> QED
  BY <1>1, FrameStep

\* A request that moves anywhere but to the settlement keeps the premise of
\* FrameStep about requests.
LEMMA RequestIdle ==
  ASSUME Shape, NEW q \in Requests,
         \/ Finish(q)
         \/ \E pc \in RequestPC \ {"recsettle"} : Step(q, pc)
         \/ \E pc \in RequestPC \ {"recsettle"} : \E s, b : Enter(q, pc, s, b)
  PROVE  RequestsKept
<1> USE DEF Shape, TypeOK, RequestsKept
<1>1. CASE Finish(q)
  BY <1>1 DEF Finish, DoneRequest, NewRequest
<1>2. ASSUME NEW pc \in RequestPC \ {"recsettle"}, Step(q, pc) PROVE RequestsKept
  BY <1>2 DEF Step
<1>3. ASSUME NEW pc \in RequestPC \ {"recsettle"}, NEW s, NEW b, Enter(q, pc, s, b)
      PROVE  RequestsKept
  BY <1>3 DEF Enter
<1> QED
  BY <1>1, <1>2, <1>3

\* The actions of goroutines and recovery that touch no bet keep the invariant.
LEMMA IdleActions ==
  ASSUME Shape, Shape', IInv, PastKept,
         \/ \E w \in Workers : Boot(w) \/ RecoverClaim(w) \/ RecoverCheck(w)
                                 \/ RecoverFlag(w) \/ RecoverFault(w)
         \/ \E s \in Sessions : LeaseExpires(s) \/ LeaseLapses(s)
  PROVE  IInv'
<1> USE DEF durable, wires, budgets
<1>1. UNCHANGED <<bet, provider, socket>> /\ RequestsKept
  BY DEF Boot, RecoverClaim, RecoverCheck, RecoverFlag, RecoverFault,
     LeaseExpires, LeaseLapses, RequestsKept
<1>2. RunnersKept /\ AwaitsKept
  <2>1. CASE UNCHANGED runner
    BY <2>1, RunnersIdle
  <2>2. ASSUME NEW w \in Workers, RecoverCheck(w) PROVE RunnersKept /\ AwaitsKept
    <3>1. recovery[w].session \in Sessions
      BY <2>2 DEF RecoverCheck, Shape, RecoveryShape
    <3> QED
      BY <2>2, <3>1, RunnersIdle DEF RecoverCheck
  <2> QED
    BY <2>1, <2>2 DEF Boot, RecoverClaim, RecoverFlag, RecoverFault,
       LeaseExpires, LeaseLapses
<1> QED
  BY <1>1, <1>2, IdleStep

\* The actions of START and STOP keep the invariant.
LEMMA RequestActions ==
  ASSUME Shape, Shape', IInv, PastKept, NEW q \in Requests,
         \/ \E w \in Workers, ch \in Channels : Accept(q, w, ch)
         \/ Repeat(q) \/ StartLookup(q) \/ StartLocal(q) \/ StartClaim(q)
         \/ StartInsert(q) \/ StartOwn(q) \/ ReconcileComplete(q)
         \/ StopStep(q) \/ RequestFault(q)
  PROVE  IInv'
<1> USE DEF durable, wires, budgets
<1>1. UNCHANGED <<bet, provider, socket>>
  BY DEF Accept, Repeat, StartLookup, StartLocal, StartClaim, StartInsert,
     StartOwn, ReconcileComplete, StopStep, StopFlip, StopCheck, StopComplete,
     RequestFault
<1>2. RequestsKept
  <2>1. CASE \E w \in Workers, ch \in Channels : Accept(q, w, ch)
    BY <2>1 DEF Accept, RequestsKept, Shape, TypeOK
  <2>2. CASE Repeat(q)
    BY <2>2 DEF Repeat, RequestsKept, NewRequest, Shape, TypeOK
  <2>3. CASE StartLookup(q) \/ StartLocal(q) \/ StartClaim(q) \/ StartInsert(q)
    BY <2>3, RequestIdle DEF StartLookup, StartLocal, StartClaim,
       StartInsert, RequestPC
  <2>4. CASE StartOwn(q) \/ ReconcileComplete(q) \/ StopStep(q) \/ RequestFault(q)
    BY <2>4, RequestIdle DEF StartOwn, ReconcileComplete, StopStep, StopFlip,
       StopCheck, StopComplete, RequestFault, RequestPC
  <2> QED
    BY <2>1, <2>2, <2>3, <2>4
<1>3. RunnersKept /\ AwaitsKept
  <2>1. CASE UNCHANGED runner
    BY <2>1, RunnersIdle
  <2>2. CASE StartClaim(q) \/ StartOwn(q)
    <3>1. request[q].session \in Sessions /\ request[q].worker \in Workers
      BY <2>2 DEF StartClaim, StartOwn, Shape, RequestShape
    <3> QED
      BY <2>2, <3>1, RunnersIdle DEF StartClaim, StartOwn
  <2> QED
    BY <2>1, <2>2 DEF Accept, Repeat, StartLookup, StartLocal, StartInsert,
       ReconcileComplete, StopStep, StopFlip, StopCheck, StopComplete,
       RequestFault
<1> QED
  BY <1>1, <1>2, <1>3, IdleStep

\* A crash frees goroutines and loses connections, and keeps the invariant.
LEMMA CrashAction ==
  ASSUME Shape, Shape', IInv, PastKept, NEW w \in Workers, Crash(w)
  PROVE  IInv'
<1> USE DEF Shape, TypeOK
<1>1. \A r \in Runners :
        runner'[r] = IF runner[r].worker = w THEN FreeRunner ELSE runner[r]
  BY DEF Crash
<1>2. RunnersKept
  BY <1>1 DEF RunnersKept, Holds, Holding, FreeRunner
<1>3. SocketsKept
  BY <1>1 DEF Crash, SocketsKept, Awaits
<1>4. RequestsKept
  BY DEF Crash, RequestsKept, DoneRequest, NewRequest
<1> QED
  BY <1>2, <1>3, <1>4, FrameStep DEF Crash, durable

\* Registering a goroutine only cancels another, and keeps the invariant.
LEMMA RegisterAction ==
  ASSUME Shape, Shape', IInv, PastKept, NEW r \in Runners, Register(r)
  PROVE  IInv'
<1> USE DEF Shape, TypeOK
<1>1. ASSUME NEW x \in Runners
      PROVE  /\ runner'[x].pc = IF x = r THEN "ready" ELSE runner[x].pc
             /\ runner'[x].worker = runner[x].worker
             /\ runner'[x].session = runner[x].session
             /\ runner'[x].bet = runner[x].bet
             /\ runner'[x].reply = runner[x].reply
  <2>1. runner[x] \in Runner
    OBVIOUS
  <2>2. CASE x = r
    BY <2>1, <2>2 DEF Register, Runner
  <2>3. CASE x # r /\ x = running[runner[r].worker]
    BY <2>1, <2>3 DEF Register, Runner
  <2>4. CASE x # r /\ x # running[runner[r].worker]
    BY <2>1, <2>4 DEF Register, Runner
  <2> QED
    BY <2>2, <2>3, <2>4
<1>2. RunnersKept
  BY <1>1 DEF RunnersKept, Holds, Holding
<1>3. AwaitsKept
  BY <1>1 DEF AwaitsKept, Register
<1>4. RequestsKept
  BY DEF Register, RequestsKept
<1> QED
  BY <1>2, <1>3, <1>4, IdleStep DEF Register, durable, wires

\* The actions of a goroutine that holds no bet keep the invariant.
LEMMA RunnerActions ==
  ASSUME Shape, Shape', IInv, PastKept, NEW r \in Runners,
         \/ Stumble(r) \/ Vanish(r) \/ Lease(r) \/ Load(r) \/ AfterSettle(r)
         \/ FinishSession(r) \/ ReadAfterError(r) \/ CloseAfterError(r) \/ Leave(r)
  PROVE  IInv'
<1> USE DEF durable, wires, Live
<1>1. UNCHANGED <<bet, provider, socket>> /\ RequestsKept
  BY DEF Stumble, Vanish, Lease, Load, AfterSettle, FinishSession,
     ReadAfterError, CloseAfterError, Leave, RequestsKept
<1>2. RunnersKept /\ AwaitsKept
  <2>1. CASE Stumble(r) \/ Vanish(r) \/ Lease(r) \/ Load(r)
    BY <2>1, RunnersIdle DEF Stumble, Vanish, Lease, Load, RunnerPC, Holding
  <2>2. CASE \/ AfterSettle(r) \/ FinishSession(r)
             \/ ReadAfterError(r) \/ CloseAfterError(r) \/ Leave(r)
    BY <2>2, RunnersIdle DEF AfterSettle, FinishSession, ReadAfterError,
       CloseAfterError, Leave, RunnerPC, Holding
  <2> QED
    BY <2>1, <2>2
<1> QED
  BY <1>1, <1>2, IdleStep

-----------------------------------------------------------------------------
(* Steps that concern bets. *)

\* PrepareBet opens a fresh bet while the session has none pending: it keeps
\* the invariant.
LEMMA PrepareBetAction ==
  ASSUME Shape, Shape', IInv, PastKept, NEW r \in Runners, PrepareBet(r)
  PROVE  IInv'
<1> USE DEF Shape, TypeOK
<1>0. UNCHANGED <<session, provider, socket, request>>
  BY DEF PrepareBet, wires
<1> DEFINE s == runner[r].session
<1>1. CASE Goto(r, "error") /\ UNCHANGED bet
  <2>1. RunnersKept /\ AwaitsKept
    BY <1>1, RunnersIdle DEF PrepareBet, Live, RunnerPC, Holding
  <2> QED
    BY <1>0, <1>1, <2>1, IdleStep DEF RequestsKept
<1>2. ASSUME MayPrepare(s), NEW b \in Bets, bet[b].status = "ABSENT",
             bet' = [bet EXCEPT ![b] =
                      [status |-> "PREPARED", session |-> s, result |-> "none"]],
             Carry(r, "prepared", b, None)
      PROVE  IInv'
  <2>1. /\ runner[r].pc = "loaded" /\ s \in Sessions
        /\ runner'[r].pc = "prepared" /\ runner'[r].bet = b /\ runner'[r].session = s
        /\ \A x \in Runners \ {r} : runner'[x] = runner[x]
    BY <1>2 DEF PrepareBet, Live, Carry, RunnerShape
  <2>2. /\ bet'[b].status = "PREPARED" /\ bet'[b].session = s /\ bet'[b].result = "none"
        /\ \A c \in Bets \ {b} : bet'[c] = bet[c]
    BY <1>2
  <2>3. ASSUME NEW x \in Runners \ {r}, Holds(x)
        PROVE  runner[x].bet \in Bets \ {b} /\ Held(x) /\ runner[x].session \in Sessions
    BY <1>2, <2>3 DEF IInv, Held, Overtaken, Abandoned, RunnerShape, Holds,
       Holding
  <2>4. \A c \in Bets : Truthful(c)'
    BY <1>0, <1>2, <2>2 DEF IInv, Truthful, Outcomes
  <2>5. ASSUME NEW x \in Runners, Holds(x)' PROVE Held(x)'
    <3>1. CASE x = r
      BY <2>1, <2>2, <3>1 DEF Held
    <3>2. CASE x # r
      BY <1>0, <2>1, <2>2, <2>3, <2>5, <3>2 DEF Held, Overtaken, Abandoned,
         Past, Holds
    <3> QED
      BY <3>1, <3>2
  <2>6. HeldOnce'
    BY <2>1, <2>3 DEF IInv, HeldOnce, Holds
  <2>7. CommittedOnce'
    <3>1. ASSUME NEW x \in Runners \ {r}, Committed(x)'
          PROVE  Committed(x) /\ runner[x].session # s
      <4>1. Committed(x) /\ Held(x) /\ runner[x].bet \in Bets
        BY <2>1, <2>2, <2>3, <3>1 DEF Committed, Holds, Abandoned
      <4>2. \/ bet[runner[x].bet].status \in Pending
            \/ Past(runner[x].session)
        BY <4>1 DEF Committed, Held, Overtaken, Pending, Uncertain
      <4>3. bet[runner[x].bet].session = runner[x].session
        BY <4>1 DEF Held
      <4> QED
        BY <1>2, <4>1, <4>2, <4>3 DEF MayPrepare, BetsOf, Past
    <3> QED
      BY <2>1, <3>1 DEF IInv, CommittedOnce
  <2>8. SocketsMatch'
    BY <1>0, <2>1 DEF IInv, SocketsMatch, Awaits
  <2>9. \A q \in Requests : Reconciling(q)'
    BY <1>0, <1>2, <2>2 DEF IInv, Reconciling, Past, RequestShape
  <2> QED
    BY <2>4, <2>5, <2>6, <2>7, <2>8, <2>9 DEF IInv
<1> QED
  BY <1>1, <1>2 DEF PrepareBet

\* Recover fails only bets that were never written: it keeps the invariant.
LEMMA RecoverFailAction ==
  ASSUME Shape, Shape', IInv, PastKept, NEW w \in Workers, RecoverFail(w)
  PROVE  IInv'
<1> USE DEF Shape, TypeOK
<1>1. UNCHANGED <<session, provider, socket, runner, request>>
  BY DEF RecoverFail, wires
<1>2. ASSUME NEW b \in Bets
      PROVE  /\ bet'[b].session = bet[b].session /\ bet'[b].result = bet[b].result
             /\ \/ bet'[b].status = bet[b].status
                \/ bet[b].status = "PREPARED" /\ bet'[b].status = "FAILED_CONFIRMED"
  <2>1. bet[b] \in Bet
    OBVIOUS
  <2>2. CASE b \in Unsent(recovery[w].session)
    <3>1. bet'[b] = [bet[b] EXCEPT !.status = "FAILED_CONFIRMED"]
      BY <2>2 DEF RecoverFail
    <3> QED
      BY <2>1, <2>2, <3>1 DEF Unsent, BetsOf, Bet
  <2>3. CASE b \notin Unsent(recovery[w].session)
    BY <2>3 DEF RecoverFail
  <2> QED
    BY <2>2, <2>3
<1>3. \A b \in Bets : Truthful(b)'
  BY <1>1, <1>2 DEF IInv, Truthful
<1>4. ASSUME NEW r \in Runners, Holds(r)' PROVE Held(r)'
  <2>1. Held(r) /\ runner[r].bet \in Bets
    BY <1>1, <1>4 DEF IInv, Holds, RunnerShape
  <2> QED
    BY <1>1, <1>2, <1>4, <2>1 DEF Held, Overtaken, Abandoned, Past
<1>5. HeldOnce'
  BY <1>1 DEF IInv, HeldOnce, Holds
<1>6. CommittedOnce'
  <2>1. \A r \in Runners : Committed(r)' => Committed(r)
    BY <1>1, <1>2 DEF Committed, Holds, Abandoned, RunnerShape
  <2> QED
    BY <1>1, <2>1 DEF IInv, CommittedOnce
<1>7. SocketsMatch'
  BY <1>1 DEF IInv, SocketsMatch, Awaits
<1>8. ASSUME NEW q \in Requests PROVE Reconciling(q)'
  <2>1. Reconciling(q) /\ (request[q].pc = "recsettle" => request[q].bet \in Bets)
    BY DEF IInv, RequestShape
  <2> QED
    BY <1>1, <1>2, <2>1 DEF Reconciling, Past
<1> QED
  BY <1>3, <1>4, <1>5, <1>6, <1>7, <1>8 DEF IInv

\* reconcileExact picks a bet of a session set aside: it keeps the invariant.
LEMMA ReconcileReadAction ==
  ASSUME Shape, Shape', IInv, PastKept, NEW q \in Requests, ReconcileRead(q)
  PROVE  IInv'
<1> USE DEF Shape, TypeOK
<1>1. UNCHANGED <<session, bet, provider, socket, runner>>
  BY DEF ReconcileRead, durable, wires
<1>2. ASSUME NEW p \in Requests PROVE Reconciling(p)'
  <2>1. CASE p # q
    BY <1>1, <2>1 DEF ReconcileRead, Enter, Finish, IInv, Reconciling, Past
  <2>2. CASE p = q
    <3>1. CASE Finish(q)
      BY <2>2, <3>1 DEF Finish, DoneRequest, NewRequest, Reconciling
    <3>2. ASSUME NEW b \in BetsOf(request[q].session, Uncertain),
                 session[request[q].session].status = "RECONCILIATION_REQUIRED",
                 Enter(q, "recsettle", request[q].session, b)
          PROVE  Reconciling(p)'
      BY <1>1, <2>2, <3>2 DEF Enter, BetsOf, Uncertain, Reconciling, Past
    <3> QED
      BY <3>1, <3>2 DEF ReconcileRead
  <2> QED
    BY <2>1, <2>2
<1>3. \A b \in Bets : Truthful(b)'
  BY <1>1 DEF IInv, Truthful
<1>4. \A r \in Runners : Holds(r)' => Held(r)'
  BY <1>1 DEF IInv, Held, Holds, Overtaken, Abandoned, Past
<1>5. HeldOnce' /\ CommittedOnce' /\ SocketsMatch'
  BY <1>1 DEF IInv, HeldOnce, CommittedOnce, SocketsMatch, Committed, Holds,
     Abandoned, Awaits
<1> QED
  BY <1>2, <1>3, <1>4, <1>5 DEF IInv

\* Past sessions only: the goroutine that holds the bet is overtaken.
LEMMA ReconcileSettleAction ==
  ASSUME Shape, Shape', IInv, PastKept, NEW q \in Requests, ReconcileSettle(q)
  PROVE  IInv'
<1> USE DEF Shape, TypeOK
<1> DEFINE b == request[q].bet
<1>1. UNCHANGED <<session, provider, socket, runner>>
  BY DEF ReconcileSettle, wires
<1>2. RequestsKept
  BY RequestIdle DEF ReconcileSettle, RequestPC
<1>3. CASE UNCHANGED bet
  BY <1>1, <1>2, <1>3, RunnersIdle, IdleStep
<1>4. CASE AwaitsResult(b) /\ bet' = Settled(b, "balance")
  <2>1. /\ b \in Bets /\ Past(request[q].session)
        /\ bet[b].session = request[q].session
        /\ bet[b].status \in Uncertain
    BY <1>4 DEF ReconcileSettle, RequestShape, IInv, Reconciling, AwaitsResult
  <2>2. /\ bet'[b].status = "COMPLETED" /\ bet'[b].result = "balance"
        /\ bet'[b].session = bet[b].session
        /\ \A c \in Bets \ {b} : bet'[c] = bet[c]
    BY <1>4, <2>1 DEF Settled
  <2>3. \A c \in Bets : Truthful(c)'
    BY <1>1, <2>1, <2>2 DEF IInv, Truthful, Outcomes
  <2>4. ASSUME NEW r \in Runners, Holds(r)' PROVE Held(r)'
    <3>1. Held(r) /\ runner[r].bet \in Bets /\ Holds(r)
      BY <1>1, <2>4 DEF IInv, Holds, RunnerShape
    <3>2. CASE runner[r].bet = b
      <4>1. runner[r].session = request[q].session /\ runner[r].pc # "prepared"
        BY <2>1, <3>1, <3>2 DEF Held, Abandoned, Uncertain
      <4> QED
        BY <1>1, <2>1, <2>2, <3>1, <3>2, <4>1 DEF Held, Overtaken, Past
    <3>3. CASE runner[r].bet # b
      BY <1>1, <2>2, <3>1, <3>3 DEF Held, Overtaken, Abandoned, Past
    <3> QED
      BY <3>2, <3>3
  <2>5. HeldOnce' /\ SocketsMatch'
    BY <1>1 DEF IInv, HeldOnce, SocketsMatch, Holds, Awaits
  <2>6. CommittedOnce'
    <3>1. \A r \in Runners : Committed(r)' => Committed(r)
      BY <1>1, <2>1, <2>2 DEF Committed, Holds, Abandoned, Uncertain,
         RunnerShape
    <3> QED
      BY <1>1, <3>1 DEF IInv, CommittedOnce
  <2>7. ASSUME NEW p \in Requests PROVE Reconciling(p)'
    <3>1. CASE request'[p].pc = "recsettle"
      <4>1. request'[p] = request[p] /\ Reconciling(p) /\ request[p].bet \in Bets
        BY <1>2, <3>1 DEF RequestsKept, IInv, RequestShape
      <4> QED
        BY <1>1, <2>2, <3>1, <4>1 DEF Reconciling, Past
    <3> QED
      BY <3>1 DEF Reconciling
  <2> QED
    BY <2>3, <2>4, <2>5, <2>6, <2>7 DEF IInv
<1> QED
  BY <1>3, <1>4 DEF ReconcileSettle

\* The provider decides only what it received: it keeps the invariant.
LEMMA ProviderDecidesAction ==
  ASSUME Shape, Shape', IInv, PastKept, NEW b \in Bets, ProviderDecides(b)
  PROVE  IInv'
<1> USE DEF Shape, TypeOK
<1>1. UNCHANGED <<session, bet, socket, runner, request>>
  BY DEF ProviderDecides, durable
<1>2. provider[b] = "wire" /\ \A c \in Bets \ {b} : provider'[c] = provider[c]
  BY DEF ProviderDecides
<1>3. \A c \in Bets : Truthful(c)'
  BY <1>1, <1>2 DEF IInv, Truthful, Outcomes
<1>4. ASSUME NEW r \in Runners, Holds(r)' PROVE Held(r)'
  <2>1. Held(r) /\ runner[r].bet \in Bets /\ Holds(r)
    BY <1>1, <1>4 DEF IInv, Holds, RunnerShape
  <2> QED
    BY <1>1, <1>2, <2>1 DEF Held, Overtaken, Abandoned, Past, RunnerShape,
       Outcomes
<1>5. HeldOnce' /\ CommittedOnce' /\ SocketsMatch'
  BY <1>1 DEF IInv, HeldOnce, CommittedOnce, SocketsMatch, Committed, Holds,
     Abandoned, Awaits
<1>6. \A q \in Requests : Reconciling(q)'
  BY <1>1 DEF IInv, Reconciling, Past
<1> QED
  BY <1>3, <1>4, <1>5, <1>6 DEF IInv

-----------------------------------------------------------------------------
(* Steps of a goroutine on its own bet. *)

\* The goroutine r has moved, holding the same bet or none.
Moved(r, pc) ==
  /\ runner'[r].pc = pc
  /\ runner'[r].worker = runner[r].worker
  /\ runner'[r].session = runner[r].session
  /\ runner'[r].bet = runner[r].bet
  /\ \A x \in Runners \ {r} : runner'[x] = runner[x]

\* A goroutine that moves on changes nobody else.
LEMMA GotoMoves ==
  ASSUME Shape, NEW r \in Runners, NEW pc, Goto(r, pc) PROVE Moved(r, pc)
  BY DEF Shape, TypeOK, Goto, Moved, Runner

\* What the invariant says of a goroutine r that holds a bet.
LEMMA HolderFacts ==
  ASSUME Shape, IInv, NEW r \in Runners, Holds(r)
  PROVE  /\ Held(r) /\ Truthful(runner[r].bet)
         /\ runner[r].bet \in Bets /\ runner[r].session \in Sessions
         /\ runner[r].worker \in Workers
         /\ bet[runner[r].bet] \in Bet
  BY DEF Shape, TypeOK, IInv, RunnerShape, Holds, Holding

\* MarkSent makes the row SENT before anything is written: it keeps the
\* invariant.
LEMMA MarkSentAction ==
  ASSUME Shape, Shape', IInv, PastKept, NEW r \in Runners, MarkSent(r)
  PROVE  IInv'
<1> USE DEF Shape, TypeOK
<1>1. runner[r].pc = "prepared" /\ Holds(r)
  BY DEF MarkSent, Live, Holds, Holding
<1>b. PICK b \in Bets : runner[r].bet = b
  BY <1>1, HolderFacts
<1>2. UNCHANGED <<session, provider, socket, request>>
  BY DEF MarkSent, wires
<1>3. CASE Goto(r, "error") /\ UNCHANGED bet
  <2>1. RunnersKept /\ AwaitsKept
    BY <1>1, <1>3, RunnersIdle DEF RunnerPC, Holding
  <2> QED
    BY <1>2, <1>3, <2>1, IdleStep DEF RequestsKept
<1>4. CASE StillPrepared(b) /\ bet' = [bet EXCEPT ![b].status = "SENT"] /\ Goto(r, "sent")
  <2>1. Moved(r, "sent") /\ Held(r) /\ Truthful(b) /\ b \in Bets
    BY <1>1, <1>4, <1>b, GotoMoves, HolderFacts
  <2>2. /\ bet[b].status = "PREPARED" /\ bet'[b].status = "SENT"
        /\ bet'[b].session = bet[b].session /\ bet'[b].result = bet[b].result
        /\ \A c \in Bets \ {b} : bet'[c] = bet[c]
    BY <1>4, <2>1 DEF StillPrepared, Bet
  <2>3. Truthful(b)'
    BY <1>2, <2>1, <2>2 DEF Truthful
  <2>4. Held(r)'
    BY <1>2, <1>b, <2>1, <2>2 DEF Held, Moved, Truthful
  <2>5. Committed(r)
    BY <1>1, <1>b, <2>2 DEF Committed, Abandoned
  <2>6. SocketsMatch'
    BY <1>1, <1>2, <2>1 DEF IInv, SocketsMatch, Awaits, Moved
  <2>7. Holds(r)' => runner'[r].bet = b /\ runner'[r].session = runner[r].session
    BY <1>b, <2>1 DEF Moved
  <2> QED
    BY <1>1, <1>2, <1>b, <2>1, <2>2, <2>3, <2>4, <2>5, <2>6, <2>7, ActorStep
       DEF Moved
<1> QED
  BY <1>3, <1>4, <1>b DEF MarkSent

\* The write, whether it fails, half leaves or succeeds, keeps the invariant.
LEMMA PlaceBetAction ==
  ASSUME Shape, Shape', IInv, PastKept, NEW r \in Runners, PlaceBet(r)
  PROVE  IInv'
<1> USE DEF Shape, TypeOK
<1>1. runner[r].pc = "sent" /\ Holds(r)
  BY DEF PlaceBet, Holds, Holding
<1>b. PICK b \in Bets : runner[r].bet = b
  BY <1>1, HolderFacts
<1>w. PICK w \in Workers : runner[r].worker = w
  BY <1>1, HolderFacts
<1>2. UNCHANGED <<session, bet, request>>
  BY DEF PlaceBet, durable
<1>3. /\ Held(r) /\ Truthful(b) /\ b \in Bets /\ w \in Workers /\ bet[b] \in Bet
      /\ runner[r].session \in Sessions
  BY <1>1, <1>b, HolderFacts
<1>4. \/ Goto(r, "refused") /\ UNCHANGED wires
      \/ Goto(r, "unknown") /\ UNCHANGED wires
      \/ /\ SocketFree(r) /\ Goto(r, "unknown") /\ DropSocket(w)
         /\ provider' = [provider EXCEPT ![b] = "wire"] \/ UNCHANGED provider
      \/ /\ SocketFree(r) /\ Goto(r, "await")
         /\ provider' = [provider EXCEPT ![b] = "wire"]
         /\ socket' = [socket EXCEPT ![w] = @ \cup {b}]
  BY <1>b, <1>w DEF PlaceBet
<1>5. \E pc \in {"refused", "unknown", "await"} : Moved(r, pc)
  BY <1>4, GotoMoves
<1>6. /\ provider[b] = "none" /\ provider'[b] \in {"none", "wire"}
      /\ \A c \in Bets \ {b} : provider'[c] = provider[c]
      /\ runner'[r].pc = "refused" => provider'[b] = "none"
  BY <1>1, <1>3, <1>4, <1>b, GotoMoves DEF Held, wires, Moved
<1>7. Truthful(b)'
  BY <1>1, <1>2, <1>3, <1>6, <1>b DEF Held, Truthful, Overtaken, Outcomes
<1>8. Held(r)'
  BY <1>1, <1>2, <1>3, <1>5, <1>6, <1>b DEF Held, Moved, Overtaken, Past
<1>9. Committed(r) /\ bet[b].status # "ABSENT"
  BY <1>1, <1>3, <1>b DEF Committed, Held, Overtaken
<1>10. SocketsMatch'
  <2>1. ASSUME NEW pc \in {"refused", "unknown"}, Goto(r, pc), UNCHANGED wires
        PROVE  SocketsMatch'
    <3>1. Moved(r, pc)
      BY <2>1, GotoMoves
    <3> QED
      BY <1>1, <2>1, <3>1 DEF IInv, SocketsMatch, Awaits, Moved, wires
  <2>2. CASE SocketFree(r) /\ Goto(r, "unknown") /\ DropSocket(w)
    <3>1. Moved(r, "unknown")
      BY <2>2, GotoMoves
    <3>2. \A v \in Workers : socket'[v] = IF v = w THEN {} ELSE socket[v]
      BY <2>2 DEF DropSocket
    <3>3. ASSUME NEW v \in Workers, NEW c \in socket'[v]
          PROVE  \E x \in Runners : Awaits(x, v, c)'
      <4>1. c \in socket[v]
        BY <3>2, <3>3
      <4> QED
        BY <1>1, <3>1, <4>1 DEF IInv, SocketsMatch, Awaits, Moved
    <3> QED
      BY <1>1, <3>1, <3>3 DEF IInv, SocketsMatch, Moved
  <2>3. CASE SocketFree(r) /\ Goto(r, "await") /\ socket' = [socket EXCEPT ![w] = @ \cup {b}]
    <3>1. Moved(r, "await")
      BY <2>3, GotoMoves
    <3>2. \A v \in Workers : socket'[v] = IF v = w THEN socket[v] \cup {b} ELSE socket[v]
      BY <2>3
    <3>3. ASSUME NEW v \in Workers, NEW c \in socket'[v]
          PROVE  \E x \in Runners : Awaits(x, v, c)'
      <4>1. CASE c \in socket[v]
        BY <1>1, <3>1, <4>1 DEF IInv, SocketsMatch, Awaits, Moved
      <4>2. CASE c \notin socket[v]
        BY <1>b, <1>w, <3>1, <3>2, <3>3, <4>2 DEF Awaits, Moved
      <4> QED
        BY <4>1, <4>2
    <3>4. \A x \in Runners \ {r} : runner'[x].pc = "await" =>
            runner[x].pc = "await" /\ runner'[x].worker = runner[x].worker
                                   /\ runner'[x].worker # runner'[r].worker
      BY <2>3, <3>1 DEF SocketFree, Moved
    <3>5. ASSUME NEW r1 \in Runners, NEW r2 \in Runners,
                 runner'[r1].pc = "await", runner'[r2].pc = "await",
                 runner'[r1].worker = runner'[r2].worker
          PROVE  r1 = r2
      BY <3>4, <3>5 DEF IInv, SocketsMatch
    <3> QED
      BY <3>3, <3>5 DEF SocketsMatch
  <2> QED
    BY <1>4, <2>1, <2>2, <2>3
<1> QED
  BY <1>1, <1>2, <1>3, <1>5, <1>6, <1>7, <1>8, <1>9, <1>10, <1>b, ActorStep
     DEF Moved

\* The next bet_update on the connection answers the bet of the goroutine that
\* waits for it.
LEMMA ReceiveUpdateAction ==
  ASSUME Shape, Shape', IInv, PastKept, NEW r \in Runners, ReceiveUpdate(r)
  PROVE  IInv'
<1> USE DEF Shape, TypeOK
<1>1. runner[r].pc = "await" /\ Holds(r)
  BY DEF ReceiveUpdate, Holds, Holding
<1>2. UNCHANGED <<session, bet, provider, request>>
  BY DEF ReceiveUpdate, durable
<1>b. PICK b \in Bets : runner[r].bet = b
  BY <1>1, HolderFacts
<1>w. PICK w \in Workers : runner[r].worker = w
  BY <1>1, HolderFacts
<1>3. \A c \in socket[w] : c = b
  BY <1>1, <1>b, <1>w DEF IInv, SocketsMatch, Awaits
<1>4. /\ socket' = [socket EXCEPT ![w] = @ \ {b}]
      /\ \/ provider[b] \in Outcomes /\ Carry(r, "reply", b, provider[b])
         \/ provider[b] \in Outcomes /\ Goto(r, "unknown")
         \/ provider[b] = "refused" /\ Goto(r, "refused")
  BY <1>b, <1>w, <1>3 DEF ReceiveUpdate
<1>5. /\ \A x \in Runners \ {r} : runner'[x] = runner[x]
      /\ runner'[r].worker = w /\ runner'[r].bet = b
      /\ runner'[r].session = runner[r].session
      /\ \/ runner'[r].pc = "reply" /\ runner'[r].reply = provider[b]
         \/ runner'[r].pc = "unknown"
         \/ runner'[r].pc = "refused" /\ provider[b] = "refused"
  BY <1>4, <1>b, <1>w DEF Carry, Goto, Runner
<1>6. /\ Held(r) /\ Truthful(b) /\ bet[b] \in Bet /\ runner[r].session \in Sessions
  BY <1>1, <1>b, HolderFacts
<1>7. Truthful(b)'
  BY <1>2, <1>6 DEF Truthful
<1>8. Held(r)'
  BY <1>1, <1>2, <1>5, <1>6, <1>b DEF Held, Overtaken, Past
<1>9. Committed(r) /\ bet[b].status # "ABSENT"
  BY <1>1, <1>6, <1>b DEF Committed, Held, Overtaken
<1>10. SocketsMatch'
  <2>1. \A v \in Workers : socket'[v] = IF v = w THEN {} ELSE socket[v]
    BY <1>3, <1>4
  <2>2. ASSUME NEW v \in Workers, NEW c \in socket'[v]
        PROVE  \E x \in Runners : Awaits(x, v, c)'
    <3>1. v # w /\ c \in socket[v]
      BY <2>1, <2>2
    <3> QED
      BY <1>5, <1>w, <3>1 DEF IInv, SocketsMatch, Awaits
  <2> QED
    BY <1>5, <2>2 DEF IInv, SocketsMatch
<1> QED
  BY <1>1, <1>2, <1>5, <1>7, <1>8, <1>9, <1>10, <1>b, ActorStep

\* Dropping the socket with the wait keeps the invariant.
LEMMA OutcomeUnknownAction ==
  ASSUME Shape, Shape', IInv, PastKept, NEW r \in Runners, OutcomeUnknown(r)
  PROVE  IInv'
<1> USE DEF Shape, TypeOK
<1>1. runner[r].pc = "await" /\ Holds(r)
  BY DEF OutcomeUnknown, Holds, Holding
<1>2. UNCHANGED <<session, bet, provider, request>>
  BY DEF OutcomeUnknown, durable
<1>b. PICK b \in Bets : runner[r].bet = b
  BY <1>1, HolderFacts
<1>w. PICK w \in Workers : runner[r].worker = w
  BY <1>1, HolderFacts
<1>3. Moved(r, "unknown")
  BY GotoMoves DEF OutcomeUnknown
<1>4. \A v \in Workers : socket'[v] = IF v = w THEN {} ELSE socket[v]
  BY <1>w DEF OutcomeUnknown, DropSocket
<1>5. /\ Held(r) /\ Truthful(b) /\ bet[b] \in Bet /\ runner[r].session \in Sessions
  BY <1>1, <1>b, HolderFacts
<1>6. Truthful(b)'
  BY <1>2, <1>5 DEF Truthful
<1>7. Held(r)'
  BY <1>1, <1>2, <1>3, <1>5 DEF Held, Overtaken, Past, Moved
<1>8. Committed(r) /\ bet[b].status # "ABSENT"
  BY <1>1, <1>5, <1>b DEF Committed, Held, Overtaken
<1>9. SocketsMatch'
  <2>1. ASSUME NEW v \in Workers, NEW c \in socket'[v]
        PROVE  \E x \in Runners : Awaits(x, v, c)'
    <3>1. v # w /\ c \in socket[v]
      BY <1>4, <2>1
    <3> QED
      BY <1>3, <1>w, <3>1 DEF IInv, SocketsMatch, Awaits, Moved
  <2> QED
    BY <1>3, <2>1 DEF IInv, SocketsMatch, Moved
<1> QED
  BY <1>1, <1>2, <1>3, <1>6, <1>7, <1>8, <1>9, <1>b, ActorStep DEF Moved

\* The goroutine lets go of its bet without touching a connection.
LEMMA LetGo ==
  ASSUME Shape, Shape', IInv, PastKept, NEW r \in Runners, NEW b \in Bets,
         runner[r].bet = b, Holds(r), runner[r].pc # "await",
         NEW pc \in {"error", "settled"}, Moved(r, pc),
         \A c \in Bets \ {b} : bet'[c] = bet[c],
         bet'[b].session = bet[b].session, bet'[b].status # "ABSENT",
         UNCHANGED <<provider, socket, request>>,
         Truthful(b)'
  PROVE  IInv'
<1>1. ~Holds(r)'
  BY DEF Moved, Holds, Holding
<1>2. SocketsMatch'
  BY DEF IInv, SocketsMatch, Awaits, Moved
<1> QED
  BY <1>1, <1>2, ActorStep DEF Moved, Committed

\* Settling the bet, and letting go of one whose verdict was refused, keep the
\* invariant.
LEMMA VerdictActions ==
  ASSUME Shape, Shape', IInv, PastKept, NEW r \in Runners,
         RequireReconciliation(r) \/ FailConfirmed(r) \/ Settle(r)
  PROVE  IInv'
<1> USE DEF Shape, TypeOK
<1>1. /\ Holds(r) /\ runner[r].pc \in {"unknown", "refused", "reply"}
      /\ UNCHANGED <<provider, socket, request>>
  BY DEF RequireReconciliation, FailConfirmed, StatementRefused, Settle, Live,
     Holds, Holding, wires
<1>b. PICK b \in Bets : runner[r].bet = b
  BY <1>1, HolderFacts
<1>2. /\ Held(r) /\ Truthful(b) /\ bet[b] \in Bet
      /\ bet[b].status \in {"SENT", "COMPLETED"}
  BY <1>1, <1>b, HolderFacts DEF Held, Overtaken
<1>3. \E pc \in {"error", "settled"} : Moved(r, pc)
  BY GotoMoves DEF RequireReconciliation, FailConfirmed, StatementRefused, Settle
<1>4. ASSUME bet'[b].session = bet[b].session, bet'[b].status # "ABSENT", Truthful(b)',
             \A c \in Bets \ {b} : bet'[c] = bet[c]
      PROVE  IInv'
  BY <1>1, <1>3, <1>4, <1>b, LetGo
<1>5. CASE UNCHANGED bet
  BY <1>1, <1>2, <1>4, <1>5 DEF Truthful
<1>6. CASE /\ runner[r].pc = "reply"
           /\ bet' = Settled(b, runner[r].reply)
  <2>1. /\ bet'[b].status = "COMPLETED" /\ bet'[b].result = runner[r].reply
        /\ bet'[b].session = bet[b].session /\ \A c \in Bets \ {b} : bet'[c] = bet[c]
    BY <1>6 DEF Settled
  <2>2. runner[r].reply \in Outcomes /\ provider[b] = runner[r].reply
    BY <1>2, <1>6, <1>b DEF Held, RunnerShape
  <2> QED
    BY <1>1, <1>4, <2>1, <2>2 DEF Truthful, Outcomes
<1> QED
  BY <1>5, <1>6, <1>b DEF RequireReconciliation, FailConfirmed, StatementRefused,
     Settle, Live, durable

-----------------------------------------------------------------------------
\* Every step keeps the inductive invariant.
THEOREM IInvStep == Shape /\ Shape' /\ IInv /\ [Next]_vars => IInv'
<1> SUFFICES ASSUME Shape, Shape', IInv, [Next]_vars PROVE IInv'
  OBVIOUS
<1>1. PastKept
  BY PastStable
<1>2. ASSUME NEW w \in Workers, Boot(w) \/ Crash(w) \/ RecoveryStep(w) PROVE IInv'
  BY <1>1, <1>2, IdleActions, CrashAction, RecoverFailAction DEF RecoveryStep
<1>3. ASSUME NEW s \in Sessions, LeaseExpires(s) \/ LeaseLapses(s) PROVE IInv'
  BY <1>1, <1>3, IdleActions
<1>4. ASSUME NEW q \in Requests,
             \/ RequestStep(q) \/ Repeat(q)
             \/ \E w \in Workers, ch \in Channels : Accept(q, w, ch)
      PROVE  IInv'
  BY <1>1, <1>4, RequestActions, ReconcileReadAction, ReconcileSettleAction
     DEF RequestStep, StartStep
<1>5. ASSUME NEW r \in Runners, RunnerStep(r) PROVE IInv'
  BY <1>1, <1>5, RegisterAction, RunnerActions, PrepareBetAction,
     MarkSentAction, PlaceBetAction, ReceiveUpdateAction, OutcomeUnknownAction,
     VerdictActions DEF RunnerStep
<1>6. ASSUME NEW b \in Bets, ProviderDecides(b) PROVE IInv'
  BY <1>1, <1>6, ProviderDecidesAction
<1>7. CASE UNCHANGED vars
  <2>1. RunnersKept /\ AwaitsKept /\ RequestsKept
    BY <1>7, RunnersIdle DEF vars, RequestsKept
  <2> QED
    BY <1>1, <1>7, <2>1, IdleStep DEF vars
<1> QED
  BY <1>2, <1>3, <1>4, <1>5, <1>6, <1>7 DEF Next

\* The inductive invariant holds of every reachable state: between any two
\* statements, the row of every bet, the goroutine that holds it, the
\* connection that owes its answer and the provider agree on how far it got.
THEOREM InductiveInvariant == Spec => [](Shape /\ IInv)
<1>1. Init => Shape /\ IInv
  BY ShapeInit, IInvInit
<1>2. Shape /\ IInv /\ [Next]_vars => (Shape /\ IInv)'
  BY ShapeStep, IInvStep
<1> QED
  BY <1>1, <1>2, PTL DEF Spec

-----------------------------------------------------------------------------
(* What follows for the ledger. *)

\* No crash, recovery or handover records an executed bet as not executed.
THEOREM ExecutedIsDurableHolds == Spec => []ExecutedIsDurable
<1>1. Shape /\ IInv => ExecutedIsDurable
  <2> SUFFICES ASSUME Shape, IInv, NEW b \in Bets, provider[b] \in Outcomes \cup {"wire"}
               PROVE  bet[b].status \in Uncertain \cup {"COMPLETED"}
    BY DEF ExecutedIsDurable
  <2>1. Truthful(b) /\ bet[b] \in Bet
    BY DEF IInv, Shape, TypeOK
  <2> QED
    BY <2>1 DEF Truthful, Bet, Outcomes, Pending, Uncertain
<1> QED
  BY <1>1, InductiveInvariant, PTL

\* No late or foreign bet_update settles a bet with another bet's result.
THEOREM SettledIsTrueHolds == Spec => []SettledIsTrue
<1>1. IInv => SettledIsTrue
  BY DEF IInv, Truthful, SettledIsTrue
<1> QED
  BY <1>1, InductiveInvariant, PTL

\* However many goroutines run a session, one of them at most has a bet with the
\* provider.
THEOREM OneFlightHolds == Spec => []OneFlightPerSession
<1>1. IInv => OneFlightPerSession
  <2>1. \A r \in Runners : InFlight(r) => Committed(r)
    BY DEF InFlight, Committed, Holds, Holding
  <2> QED
    BY <2>1 DEF IInv, CommittedOnce, OneFlightPerSession
<1> QED
  BY <1>1, InductiveInvariant, PTL

-----------------------------------------------------------------------------
(***************************************************************************)
(* Proofs about steps: a session asked to stop opens no further bet, and   *)
(* every step of the engine is a step of BetLifecycle or leaves it alone.  *)
(* Only the actions of LedgerStep touch a bet or the provider.             *)
(***************************************************************************)

LedgerStep ==
  \/ \E w \in Workers : RecoverFail(w)
  \/ \E q \in Requests : ReconcileSettle(q)
  \/ \E r \in Runners : PrepareBet(r) \/ MarkSent(r) \/ PlaceBet(r) \/ Settle(r)
  \/ \E b \in Bets : ProviderDecides(b)

\* Every step but the ledger's and the provider's leaves both tables alone.
LEMMA OnlyLedgerSteps ==
  ASSUME [Next]_vars PROVE LedgerStep \/ UNCHANGED <<bet, provider>>
<1> USE DEF durable, wires
<1>1. ASSUME NEW w \in Workers, Boot(w) \/ Crash(w) \/ RecoveryStep(w)
      PROVE  RecoverFail(w) \/ UNCHANGED <<bet, provider>>
  BY <1>1 DEF Boot, Crash, RecoveryStep, RecoverClaim, RecoverCheck,
     RecoverFlag, RecoverFault
<1>2. ASSUME NEW s \in Sessions, LeaseExpires(s) \/ LeaseLapses(s)
      PROVE  UNCHANGED <<bet, provider>>
  BY <1>2 DEF LeaseExpires, LeaseLapses
<1>3. ASSUME NEW q \in Requests,
             \/ RequestStep(q) \/ Repeat(q)
             \/ \E w \in Workers, ch \in Channels : Accept(q, w, ch)
      PROVE  ReconcileSettle(q) \/ UNCHANGED <<bet, provider>>
  BY <1>3 DEF RequestStep, StartStep, StopStep, Repeat, Accept, StartLookup,
     StartLocal, StartClaim, StartInsert, StartOwn, ReconcileRead,
     ReconcileComplete, StopFlip, StopCheck, StopComplete, RequestFault
<1>4. ASSUME NEW r \in Runners, RunnerStep(r)
      PROVE  \/ PrepareBet(r) \/ MarkSent(r) \/ PlaceBet(r) \/ Settle(r)
             \/ UNCHANGED <<bet, provider>>
  BY <1>4 DEF RunnerStep, Register, Stumble, Vanish, Lease, Load, ReceiveUpdate,
     OutcomeUnknown, RequireReconciliation, FailConfirmed, StatementRefused,
     AfterSettle, FinishSession, ReadAfterError, CloseAfterError, Leave
<1>5. CASE UNCHANGED vars
  BY <1>5 DEF vars
<1> QED
  BY <1>1, <1>2, <1>3, <1>4, <1>5 DEF Next, LedgerStep

Book  == [b \in Bets |-> BookOf(b)]
Truth == [b \in Bets |-> TruthOf(b)]

\* The same row reads the same in the book.
LEMMA BookStays ==
  ASSUME \A b \in Bets : BookOf(b)' = BookOf(b) PROVE UNCHANGED Book
  BY DEF Book

\* The book after a step that rewrites one row.
LEMMA BookChanges ==
  ASSUME NEW b \in Bets, NEW v, BookOf(b)' = v,
         \A c \in Bets \ {b} : BookOf(c)' = BookOf(c)
  PROVE  Book' = [Book EXCEPT ![b] = v]
  BY DEF Book

\* The truth is unchanged when the provider's decisions are.
LEMMA TruthStays == ASSUME UNCHANGED provider PROVE UNCHANGED Truth
  BY DEF Truth, TruthOf

\* The abstract step of each action.
LifecycleStep == Lifecycle!Next \/ UNCHANGED <<Book, Truth>>

\* A PREPARED row opens the bet.
LEMMA OpenMaps ==
  ASSUME Shape, IInv, NEW r \in Runners, PrepareBet(r) PROVE LifecycleStep
<1> USE DEF Shape, TypeOK
<1>1. UNCHANGED Truth
  BY TruthStays DEF PrepareBet, wires
<1>2. CASE UNCHANGED bet
  <2>1. UNCHANGED Book
    BY <1>2, BookStays DEF BookOf
  <2> QED
    BY <1>1, <2>1 DEF LifecycleStep
<1>3. ASSUME NEW b \in Bets, NEW s, bet[b].status = "ABSENT",
             bet' = [bet EXCEPT ![b] =
                      [status |-> "PREPARED", session |-> s, result |-> "none"]]
      PROVE  LifecycleStep
  <2>1. BookOf(b) = "absent"
    BY <1>3 DEF BookOf, Pending, Uncertain
  <2>2. BookOf(b)' = "open"
    <3>1. bet'[b].status = "PREPARED"
      BY <1>3
    <3> QED
      BY <3>1 DEF BookOf, Pending, Uncertain
  <2>3. \A c \in Bets \ {b} : BookOf(c)' = BookOf(c)
    BY <1>3 DEF BookOf
  <2>4. Book' = [Book EXCEPT ![b] = "open"]
    BY <2>2, <2>3, BookChanges
  <2>5. Lifecycle!Open(b)
    BY <1>1, <2>1, <2>4 DEF Lifecycle!Open, Book, Truth
  <2> QED
    BY <2>5 DEF LifecycleStep, Lifecycle!Next
<1> QED
  BY <1>2, <1>3 DEF PrepareBet

\* Failing unexecuted open bets voids them.
LEMMA VoidMaps ==
  ASSUME Shape, IInv, UNCHANGED provider, NEW voided \in SUBSET Bets,
         \A b \in voided : /\ bet[b].status \in {"PREPARED", "SENT"}
                           /\ provider[b] \in {"none", "refused"}
                           /\ bet'[b].status = "FAILED_CONFIRMED",
         \A c \in Bets \ voided : bet'[c] = bet[c]
  PROVE  LifecycleStep
<1> USE DEF Shape, TypeOK
<1>1. UNCHANGED Truth
  BY TruthStays
<1>2. \A b \in voided : BookOf(b) = "open" /\ TruthOf(b) = "none"
  BY DEF BookOf, TruthOf, Pending, Uncertain, Outcomes
<1>3. \A b \in voided : BookOf(b)' = "void"
  BY DEF BookOf, Pending, Uncertain
<1>4. \A c \in Bets \ voided : BookOf(c)' = BookOf(c)
  BY DEF BookOf
<1>5. Book' = [b \in Bets |-> IF b \in voided THEN "void" ELSE Book[b]]
  BY <1>3, <1>4 DEF Book
<1>6. Lifecycle!Void(voided)
  BY <1>1, <1>2, <1>5 DEF Lifecycle!Void, Book, Truth
<1> QED
  BY <1>6 DEF LifecycleStep, Lifecycle!Next

\* Recover's failing of PREPARED bets voids them.
LEMMA RecoverFailMaps ==
  ASSUME Shape, IInv, NEW w \in Workers, RecoverFail(w) PROVE LifecycleStep
<1> USE DEF Shape, TypeOK
<1> DEFINE voided == Unsent(recovery[w].session)
<1>1. voided \in SUBSET Bets
  BY DEF Unsent, BetsOf
<1>2. ASSUME NEW b \in voided
      PROVE  /\ bet[b].status = "PREPARED" /\ provider[b] = "none"
             /\ bet'[b].status = "FAILED_CONFIRMED"
  <2>1. b \in Bets /\ bet[b] \in Bet /\ bet[b].status = "PREPARED" /\ Truthful(b)
    BY <1>1, <1>2 DEF Unsent, BetsOf, IInv
  <2>2. bet'[b] = [bet[b] EXCEPT !.status = "FAILED_CONFIRMED"]
    BY <1>2, <2>1 DEF RecoverFail
  <2> QED
    BY <2>1, <2>2 DEF Truthful, Bet
<1>3. \A c \in Bets \ voided : bet'[c] = bet[c]
  BY DEF RecoverFail
<1>4. UNCHANGED provider
  BY DEF RecoverFail, wires
<1> HIDE DEF voided
<1> QED
  BY <1>1, <1>2, <1>3, <1>4, VoidMaps

\* A pending bet stays pending: nothing the abstract ledger sees.
LEMMA PendingMaps ==
  ASSUME Shape, NEW b \in Bets, bet[b].status \in Pending, bet'[b].status \in Pending,
         \A c \in Bets \ {b} : bet'[c] = bet[c], UNCHANGED provider
  PROVE  LifecycleStep
<1>1. BookOf(b)' = BookOf(b)
  BY DEF BookOf, Pending, Uncertain
<1>2. \A c \in Bets : BookOf(c)' = BookOf(c)
  BY <1>1 DEF BookOf
<1> QED
  BY <1>2, BookStays, TruthStays DEF LifecycleStep

\* A step that changes no row's entry in the book is a stutter.
LEMMA SameRowsMaps ==
  ASSUME UNCHANGED <<bet, provider>> PROVE LifecycleStep
<1>1. \A c \in Bets : BookOf(c)' = BookOf(c)
  BY DEF BookOf
<1> QED
  BY <1>1, BookStays, TruthStays DEF LifecycleStep

\* MarkSent is a stutter: the bet stays open.
LEMMA MarkSentMaps ==
  ASSUME Shape, IInv, NEW r \in Runners, MarkSent(r) PROVE LifecycleStep
<1> USE DEF Shape, TypeOK
<1>1. PICK b \in Bets : runner[r].bet = b
  BY HolderFacts DEF MarkSent, Live, Holds, Holding
<1>2. UNCHANGED provider
  BY DEF MarkSent, wires
<1>3. CASE UNCHANGED bet
  BY <1>2, <1>3, SameRowsMaps
<1>4. CASE bet[b].status = "PREPARED" /\ bet' = [bet EXCEPT ![b].status = "SENT"]
  BY <1>2, <1>4, PendingMaps DEF Bet, Pending, Uncertain
<1> QED
  BY <1>1, <1>3, <1>4 DEF MarkSent, StillPrepared

\* PlaceBet is a stutter: the provider has not decided.
LEMMA PlaceBetMaps ==
  ASSUME Shape, IInv, NEW r \in Runners, PlaceBet(r) PROVE LifecycleStep
<1> USE DEF Shape, TypeOK
<1>1. PICK b \in Bets : runner[r].bet = b
  BY HolderFacts DEF PlaceBet, Holds, Holding
<1>2. provider[b] = "none" /\ UNCHANGED bet
  BY <1>1, HolderFacts DEF PlaceBet, Holds, Holding, Held, durable
<1>3. provider' = [provider EXCEPT ![b] = "wire"] \/ UNCHANGED provider
  BY <1>1 DEF PlaceBet, wires
<1>4. \A c \in Bets : TruthOf(c)' = TruthOf(c)
  BY <1>2, <1>3 DEF TruthOf, Outcomes
<1>5. UNCHANGED Truth
  BY <1>4 DEF Truth
<1>6. \A c \in Bets : BookOf(c)' = BookOf(c)
  BY <1>2 DEF BookOf
<1> QED
  BY <1>5, <1>6, BookStays DEF LifecycleStep

\* Settle records the provider's result.
LEMMA SettleMaps ==
  ASSUME Shape, IInv, NEW r \in Runners, Settle(r) PROVE LifecycleStep
<1> USE DEF Shape, TypeOK
<1>1. PICK b \in Bets : runner[r].bet = b
  BY HolderFacts DEF Settle, Live, Holds, Holding
<1>2. UNCHANGED provider
  BY DEF Settle, wires
<1>3. /\ runner[r].reply \in Outcomes /\ provider[b] = runner[r].reply
  BY <1>1, HolderFacts DEF Settle, Live, Holds, Holding, Held, RunnerShape
<1>4. CASE UNCHANGED bet
  BY <1>2, <1>4, SameRowsMaps
<1>5. CASE AwaitsResult(b) /\ bet' = Settled(b, runner[r].reply)
  <2>1. /\ bet'[b].status = "COMPLETED" /\ bet'[b].result = runner[r].reply
        /\ \A c \in Bets \ {b} : bet'[c] = bet[c]
    BY <1>5 DEF Settled
  <2>2. BookOf(b) = "open" /\ TruthOf(b) = runner[r].reply
    BY <1>3, <1>5 DEF BookOf, TruthOf, AwaitsResult, Pending, Uncertain
  <2>3. BookOf(b)' = runner[r].reply
    BY <1>3, <2>1 DEF BookOf, Pending, Uncertain, Outcomes
  <2>4. \A c \in Bets \ {b} : BookOf(c)' = BookOf(c)
    BY <2>1 DEF BookOf
  <2>5. Book' = [Book EXCEPT ![b] = runner[r].reply]
    BY <2>3, <2>4, BookChanges
  <2>6. Lifecycle!Record(b)
    BY <1>2, <1>3, <2>2, <2>5, TruthStays
       DEF Lifecycle!Record, Lifecycle!Results, Book, Truth, Outcomes
  <2> QED
    BY <2>6 DEF LifecycleStep, Lifecycle!Next
<1> QED
  BY <1>1, <1>4, <1>5 DEF Settle

\* reconcileExact's settlement assumes a result.
LEMMA ReconcileSettleMaps ==
  ASSUME Shape, IInv, NEW q \in Requests, ReconcileSettle(q) PROVE LifecycleStep
<1> USE DEF Shape, TypeOK
<1>1. PICK b \in Bets : request[q].bet = b
  BY DEF ReconcileSettle, RequestShape
<1>2. UNCHANGED provider
  BY DEF ReconcileSettle, wires
<1>3. CASE UNCHANGED bet
  BY <1>2, <1>3, SameRowsMaps
<1>4. CASE AwaitsResult(b) /\ bet' = Settled(b, "balance")
  <2>1. /\ bet'[b].status = "COMPLETED" /\ bet'[b].result = "balance"
        /\ \A c \in Bets \ {b} : bet'[c] = bet[c]
    BY <1>4 DEF Settled
  <2>2. BookOf(b) = "open"
    BY <1>4 DEF BookOf, AwaitsResult, Pending, Uncertain
  <2>3. BookOf(b)' = "assumed"
    BY <2>1 DEF BookOf, Pending, Uncertain
  <2>4. \A c \in Bets \ {b} : BookOf(c)' = BookOf(c)
    BY <2>1 DEF BookOf
  <2>5. Book' = [Book EXCEPT ![b] = "assumed"]
    BY <2>3, <2>4, BookChanges
  <2>6. Lifecycle!Assume(b)
    BY <1>2, <2>2, <2>5, TruthStays DEF Lifecycle!Assume, Book, Truth
  <2> QED
    BY <2>6 DEF LifecycleStep, Lifecycle!Next
<1> QED
  BY <1>1, <1>3, <1>4 DEF ReconcileSettle

\* An execution is one of the lifecycle's; a refusal is a stutter.
LEMMA ProviderDecidesMaps ==
  ASSUME Shape, IInv, NEW b \in Bets, ProviderDecides(b) PROVE LifecycleStep
<1> USE DEF Shape, TypeOK
<1>1. PICK o \in Outcomes \cup {"refused"} : provider' = [provider EXCEPT ![b] = o]
  BY DEF ProviderDecides
<1>2. provider[b] = "wire" /\ UNCHANGED bet
  BY DEF ProviderDecides, durable
<1>3. \A c \in Bets : BookOf(c)' = BookOf(c)
  BY <1>2 DEF BookOf
<1>4. CASE o = "refused"
  <2>1. \A c \in Bets : TruthOf(c)' = TruthOf(c)
    BY <1>1, <1>2, <1>4 DEF TruthOf, Outcomes
  <2> QED
    BY <1>3, <2>1, BookStays DEF LifecycleStep, Truth
<1>5. CASE o \in Outcomes
  <2>1. Truthful(b) /\ bet[b] \in Bet
    BY DEF IInv
  <2>2. BookOf(b) \in {"open", "assumed"} /\ TruthOf(b) = "none"
    BY <1>2, <2>1 DEF Truthful, BookOf, TruthOf, Bet, Pending, Uncertain,
       Outcomes
  <2>3. Truth' = [Truth EXCEPT ![b] = o]
    BY <1>1, <1>5 DEF Truth, TruthOf
  <2>4. Lifecycle!Execute(b, o)
    BY <1>3, <2>2, <2>3, BookStays DEF Lifecycle!Execute, Book, Truth
  <2>5. o \in Lifecycle!Results
    BY <1>5 DEF Lifecycle!Results, Outcomes
  <2> QED
    BY <2>4, <2>5 DEF LifecycleStep, Lifecycle!Next
<1> QED
  BY <1>4, <1>5

\* The engine with all its interleavings, crashes and faults implements the
\* ledger's promise for every bet.
THEOREM EngineImplementsLifecycle == Spec => ImplementsLifecycle
<1>1. Init => Lifecycle!Init
  BY DEF Init, Lifecycle!Init, BookOf, TruthOf, AbsentBet, Pending,
     Uncertain, Outcomes
<1>2. Shape /\ IInv /\ [Next]_vars =>
        [Lifecycle!Next]_<<[b \in Bets |-> BookOf(b)], [b \in Bets |-> TruthOf(b)]>>
  <2> SUFFICES ASSUME Shape, IInv, [Next]_vars PROVE LifecycleStep
    BY DEF LifecycleStep, Book, Truth
  <2>1. CASE UNCHANGED <<bet, provider>>
    BY <2>1, SameRowsMaps
  <2>2. CASE LedgerStep
    BY <2>2, RecoverFailMaps, ReconcileSettleMaps, OpenMaps, MarkSentMaps,
       PlaceBetMaps, SettleMaps, ProviderDecidesMaps
       DEF LedgerStep
  <2> QED
    BY <2>1, <2>2, OnlyLedgerSteps
<1> QED
  BY <1>1, <1>2, InductiveInvariant, PTL DEF Spec, ImplementsLifecycle,
     Lifecycle!Spec

-----------------------------------------------------------------------------
(* A session asked to stop. *)

Drains(s) ==
  \A b \in Bets : bet'[b].session = s /\ bet'[b].status \in Pending
    => bet[b].session = s /\ bet[b].status \in Pending

\* Every action but PrepareBet, whose guard asks for RUNNING, only shrinks a
\* session's pending bets.
LEMMA DrainsUnlessPrepared ==
  ASSUME Shape, IInv, NEW s \in Sessions,
         \/ \E w \in Workers : RecoverFail(w)
         \/ \E q \in Requests : ReconcileSettle(q)
         \/ \E r \in Runners : MarkSent(r) \/ Settle(r)
         \/ UNCHANGED bet
  PROVE  Drains(s)
<1> USE DEF Shape, TypeOK, Drains
<1>1. CASE UNCHANGED bet
  BY <1>1
<1>2. ASSUME NEW w \in Workers, RecoverFail(w) PROVE Drains(s)
  <2>1. ASSUME NEW b \in Bets
        PROVE  bet'[b] = bet[b] \/ bet'[b].status \notin Pending
    <3>1. CASE b \in Unsent(recovery[w].session)
      <4>1. bet'[b] = [bet[b] EXCEPT !.status = "FAILED_CONFIRMED"] /\ bet[b] \in Bet
        BY <1>2, <3>1 DEF RecoverFail
      <4>2. bet'[b].status = "FAILED_CONFIRMED"
        BY <4>1 DEF Bet
      <4> QED
        BY <4>2 DEF Pending, Uncertain
    <3>2. CASE b \notin Unsent(recovery[w].session)
      BY <1>2, <3>2 DEF RecoverFail
    <3> QED
      BY <3>1, <3>2
  <2> QED
    BY <2>1
<1>3. ASSUME NEW b \in Bets, bet[b] \in Bet,
             \/ bet[b].status \in Pending
                /\ \E st : bet' = [bet EXCEPT ![b].status = st]
             \/ \E result : bet' = Settled(b, result)
      PROVE  Drains(s)
  BY <1>3 DEF Settled, Bet, Pending, Uncertain
<1>4. ASSUME NEW q \in Requests, ReconcileSettle(q) PROVE Drains(s)
  <2>1. request[q].bet \in Bets
    BY <1>4 DEF ReconcileSettle, RequestShape
  <2> QED
    BY <1>1, <1>3, <1>4, <2>1 DEF ReconcileSettle
<1>5. ASSUME NEW r \in Runners, MarkSent(r) \/ Settle(r) PROVE Drains(s)
  <2>1. PICK b \in Bets : runner[r].bet = b
    BY <1>5, HolderFacts DEF MarkSent, Settle, Live, Holds, Holding
  <2>2. CASE MarkSent(r)
    BY <1>1, <1>3, <2>1, <2>2 DEF MarkSent, StillPrepared, Pending
  <2>3. CASE Settle(r)
    BY <1>1, <1>3, <2>1, <2>3 DEF Settle
  <2> QED
    BY <1>5, <2>2, <2>3
<1> QED
  BY <1>1, <1>2, <1>4, <1>5

\* From the stop request on, a session's pending bets only dwindle.
THEOREM StopDrainsHolds == Spec => StopDrains
<1>1. ASSUME Shape, IInv, [Next]_vars, NEW s \in Sessions,
             session[s].status = "STOP_REQUESTED"
      PROVE  BetsOf(s, Pending)' \subseteq BetsOf(s, Pending)
  <2>1. ASSUME NEW r \in Runners, PrepareBet(r) PROVE Drains(s)
    <3>1. CASE UNCHANGED bet
      BY <3>1 DEF Drains
    <3>2. ASSUME NEW b \in Bets, runner[r].session # s,
                 bet' = [bet EXCEPT ![b] = [status |-> "PREPARED",
                          session |-> runner[r].session, result |-> "none"]]
          PROVE  Drains(s)
      BY <3>2 DEF Drains, Shape, TypeOK
    <3> QED
      BY <1>1, <2>1, <3>1, <3>2 DEF PrepareBet, MayPrepare
  <2>2. ASSUME NEW r \in Runners, PlaceBet(r) PROVE UNCHANGED bet
    BY <2>2 DEF PlaceBet, durable
  <2>3. ASSUME NEW b \in Bets, ProviderDecides(b) PROVE UNCHANGED bet
    BY <2>3 DEF ProviderDecides, durable
  <2>4. Drains(s)
    BY <1>1, <2>1, <2>2, <2>3, OnlyLedgerSteps, DrainsUnlessPrepared DEF
       LedgerStep
  <2> QED
    BY <2>4 DEF Drains, BetsOf
<1>2. Shape /\ IInv /\ [Next]_vars =>
        [\A s \in Sessions : session[s].status = "STOP_REQUESTED"
           => BetsOf(s, Pending)' \subseteq BetsOf(s, Pending)]_vars
  BY <1>1
<1> QED
  BY <1>2, InductiveInvariant, PTL DEF Spec, StopDrains
=============================================================================
