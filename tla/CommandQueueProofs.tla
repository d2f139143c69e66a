--------------------------- MODULE CommandQueueProofs ---------------------------
(***************************************************************************)
(* Proofs about CommandQueue, for any number of workers, requests and      *)
(* troubles: types; a command acts once each time it is handed out; one    *)
(* worker has it until it is handed out again; the queue's order; what is  *)
(* told and recorded of it is true and final.  The last part is about      *)
(* EventFeed, by which what is told reaches the user's pages.              *)
(***************************************************************************)
EXTENDS CommandQueue, SequenceTheorems, FiniteSetTheorems, TLAPS

-----------------------------------------------------------------------------
(* What a step does                                                        *)

\* The types of again.
Repeats == [Requests -> {"never", "held", "over"}]

Working == {"process", "check", "complete", "finish"}

\* A worker has a command of the queue from its claim to its event; one that
\* claims a row holds it alone and has it pending.
Fits(w) ==
    /\ worker[w].request = None <=> worker[w].pc \in {"idle", "down"}
    /\ worker[w].request # None => worker[w].request \in DOMAIN row
    /\ worker[w].pc = "claim" => row[worker[w].request].status = "PENDING"

ToldOf(t, rows) == t \subseteq rows \X BOOLEAN

Held ==
    /\ \A w \in Workers : Fits(w)
    /\ \A v, w \in Workers :
           worker[v].pc = "claim" /\ worker[w].pc = "claim"
           /\ worker[v].request = worker[w].request => v = w
    /\ ToldOf(told, DOMAIN row)

Typed == TypeOK /\ Held

OthersSame(w) == \A v \in Workers : v # w => worker'[v] = worker[v]

\* The rows are the same but for their age.
Outside ==
    /\ DOMAIN row' = DOMAIN row
    /\ \A r \in DOMAIN row : row'[r].status = row[r].status /\ row'[r].kind = row[r].kind
    /\ \A r \in DOMAIN row : row[r].status \in Finished => row'[r] = row[r]
    /\ \A r \in Requests : again'[r] = "never" => again[r] = "never"
    /\ UNCHANGED <<order, worker, told, requeued, effects, hit>>

\* r is queued.
Queued(r) ==
    /\ r \notin DOMAIN row /\ DOMAIN row' = DOMAIN row \cup {r}
    /\ order' = Append(order, r)
    /\ \A q \in DOMAIN row : row'[q] = row[q]
    /\ row'[r].status = "PENDING"
    /\ UNCHANGED <<worker, told, requeued, effects, again, hit>>

\* w has locked the first row that is free.
Locks(w) ==
    /\ worker[w].pc = "idle" /\ worker'[w].pc = "claim"
    /\ worker'[w].request \in Claimable
    /\ OthersSame(w)
    /\ UNCHANGED <<order, row, told, requeued, effects, again, hit>>

\* w has claimed the row it locked.
Claims(w) ==
    /\ worker[w].pc = "claim" /\ worker'[w].pc = "process"
    /\ worker'[w].request = worker[w].request
    /\ OthersSame(w)
    /\ DOMAIN row' = DOMAIN row
    /\ row'[worker[w].request].status = "PROCESSING"
    /\ row'[worker[w].request].kind = row[worker[w].request].kind
    /\ \A r \in DOMAIN row : r # worker[w].request => row'[r] = row[r]
    /\ UNCHANGED <<order, told, requeued, effects, again, hit>>

\* w goes on with its command, whose row stays; it may have changed the session.
GoesOn(w) ==
    /\ worker[w].pc \in Working
    /\ worker'[w].pc \in {"check", "complete", "finish", "publish"}
    /\ worker'[w].request = worker[w].request
    /\ OthersSame(w)
    /\ UNCHANGED <<order, row, told, requeued, again>>
    /\ hit \subseteq hit'
    /\ worker[w].pc = "finish" \/ worker'[w].pc = "publish" => worker[w].request \in hit'
    /\ \/ UNCHANGED effects
       \/ /\ worker[w].pc = "process" /\ Effect(w)
          /\ row[worker[w].request].kind = "START"
             => \/ worker[w].request \in hit'
                \/ worker'[w].pc = "finish" /\ worker'[w].ok

\* w has recorded its outcome, if the row still asked for one.
Finishes(w) ==
    /\ worker[w].pc = "finish" /\ worker'[w].pc = "publish"
    /\ worker'[w].request = worker[w].request /\ worker'[w].ok = worker[w].ok
    /\ OthersSame(w)
    /\ DOMAIN row' = DOMAIN row
    /\ \A r \in DOMAIN row : r # worker[w].request => row'[r] = row[r]
    /\ row'[worker[w].request].kind = row[worker[w].request].kind
    /\ row'[worker[w].request].status =
           IF row[worker[w].request].status = "PROCESSING" THEN Outcome(w)
           ELSE row[worker[w].request].status
    /\ row[worker[w].request].status # "PROCESSING" => row' = row
    /\ UNCHANGED <<order, told, requeued, effects, again, hit>>

\* w has let go of its command: published, rolled back, or dead.
LetsGo(w) ==
    /\ worker'[w].request = None /\ worker'[w].pc \in {"idle", "down"}
    /\ OthersSame(w)
    /\ UNCHANGED <<order, row, requeued, effects, again>>
    /\ hit \subseteq hit'
    /\ worker[w].pc = "claim" => worker[w].request \in hit'
    /\ \/ UNCHANGED told
       \/ /\ worker[w].pc = "publish"
          /\ told' = told \cup {<<worker[w].request, worker[w].ok>>}

\* Rows that were too long at work are pending again.
HandsOut(w) ==
    /\ worker[w].pc \in {"idle", "down"}
    /\ worker'[w].request = None /\ worker'[w].pc = "idle"
    /\ OthersSame(w)
    /\ DOMAIN row' = DOMAIN row
    /\ \A r \in DOMAIN row :
           \/ /\ row'[r] = row[r] /\ requeued'[r] = requeued[r]
           \/ /\ row[r].status = "PROCESSING" /\ row'[r].status = "PENDING"
              /\ row'[r].kind = row[r].kind
              /\ requeued'[r] = requeued[r] + 1
    /\ \A r \in Requests : r \notin DOMAIN row => requeued'[r] = requeued[r]
    /\ UNCHANGED <<order, told, effects, again, hit>>

Change ==
    \/ Outside
    \/ \E r \in Requests : Queued(r)
    \/ \E w \in Workers :
           \/ Locks(w) \/ Claims(w) \/ GoesOn(w) \/ Finishes(w)
           \/ LetsGo(w) \/ HandsOut(w)

-----------------------------------------------------------------------------
(* Values                                                                  *)

\* Values the types are made of.
LEMMA Atoms ==
  /\ 0 \in Nat /\ TRUE \in BOOLEAN /\ FALSE \in BOOLEAN
  /\ None \in RequestIds /\ None \notin Requests
  /\ \A r \in Requests : r \in RequestIds
  /\ "PENDING" \in Statuses /\ "PROCESSING" \in Statuses
  /\ Finished \subseteq Statuses
BY QueueAssumption DEF RequestIds, Statuses

\* A worker between two commands, or not running.
LEMMA RestTyped ==
  /\ Idle \in WorkerState /\ Idle.pc = "idle" /\ Idle.request = None
  /\ Down \in WorkerState /\ Down.pc = "down" /\ Down.request = None
<1>1. "idle" \in PC /\ "down" \in PC
  BY DEF PC
<1>2. Idle \in WorkerState /\ Idle.pc = "idle" /\ Idle.request = None
  BY <1>1, Atoms, Zenon DEF Idle, WorkerState
<1>3. Down \in WorkerState /\ Down.pc = "down" /\ Down.request = Idle.request
  BY <1>1, <1>2, Zenon DEF Down, WorkerState
<1> QED BY <1>2, <1>3

\* A worker goes on.
LEMMA GoesTyped ==
  ASSUME TypeOK, NEW w \in Workers, NEW pc \in PC, NEW ok \in BOOLEAN, Goes(w, pc, ok)
  PROVE  /\ worker' \in [Workers -> WorkerState] /\ OthersSame(w)
         /\ worker'[w].pc = pc /\ worker'[w].ok = ok
         /\ worker'[w].request = worker[w].request
<1> DEFINE new == [worker[w] EXCEPT !.pc = pc, !.ok = ok]
<1>1. worker \in [Workers -> WorkerState] /\ worker[w] \in WorkerState
  BY DEF TypeOK
<1>2. new \in WorkerState /\ new.pc = pc /\ new.ok = ok
      /\ new.request = worker[w].request
  BY <1>1, Zenon DEF WorkerState
<1>3. worker' = [worker EXCEPT ![w] = new]
  BY <1>1 DEF Goes
<1> HIDE DEF new
<1>4. worker' \in [Workers -> WorkerState] /\ worker'[w] = new /\ OthersSame(w)
  BY <1>1, <1>2, <1>3, Zenon DEF OthersSame
<1> QED BY <1>2, <1>4

\* A worker is put in another state.
LEMMA PutTyped ==
  ASSUME TypeOK, NEW w \in Workers, NEW new \in WorkerState,
         worker' = [worker EXCEPT ![w] = new]
  PROVE  /\ worker' \in [Workers -> WorkerState] /\ worker'[w] = new /\ OthersSame(w)
BY Zenon DEF TypeOK, OthersSame

\* What a worker has at hand.
LEMMA WorkerTyped ==
  ASSUME TypeOK, NEW w \in Workers
  PROVE  /\ worker[w] \in WorkerState /\ worker[w].pc \in PC
         /\ worker[w].request \in RequestIds /\ worker[w].ok \in BOOLEAN
BY Zenon DEF TypeOK, WorkerState

\* Rows are typed.
LEMMA RowTyped ==
  ASSUME TypeOK, NEW r \in DOMAIN row
  PROVE  /\ r \in Requests /\ row[r] \in Row
         /\ row[r].status \in Statuses /\ row[r].kind \in Kinds /\ row[r].stale \in BOOLEAN
BY Zenon DEF TypeOK, Row

\* A worker's trouble is one more.
LEMMA TroubleTyped == ASSUME TypeOK, Trouble PROVE troubles' \in 0..MaxTroubles
BY QueueAssumption DEF TypeOK, Trouble

\* The types of a step that leaves the rows and their order.
LEMMA SameRows ==
  ASSUME TypeOK, UNCHANGED <<order, row>>,
         worker' \in [Workers -> WorkerState],
         session' \in {"NONE", "RUNNING", "STOP_REQUESTED"},
         told' \subseteq Requests \X BOOLEAN,
         troubles' \in 0..MaxTroubles,
         requeued' \in [Requests -> Nat], effects' \in [Requests -> Nat],
         again' \in Repeats, hit' \subseteq Requests
  PROVE  TypeOK'
BY Zenon DEF TypeOK, Repeats

\* A command's effect is counted.
LEMMA EffectTyped ==
  ASSUME TypeOK, NEW w \in Workers, worker[w].request \in Requests, Effect(w)
  PROVE  /\ effects' \in [Requests -> Nat]
         /\ effects'[worker[w].request] = effects[worker[w].request] + 1
         /\ \A r \in Requests : r # worker[w].request => effects'[r] = effects[r]
BY DEF TypeOK, Effect

\* A worker that is not at rest has a command of the queue.
LEMMA HasCommand ==
  ASSUME Typed, NEW w \in Workers, worker[w].pc \notin {"idle", "down"}
  PROVE  /\ worker[w].request \in DOMAIN row /\ worker[w].request \in Requests
         /\ worker[w].request # None
<1>1. worker[w].request # None /\ worker[w].request \in DOMAIN row
  BY DEF Typed, Held, Fits
<1> QED BY <1>1, RowTyped DEF Typed

\* What is told stays typed.
LEMMA ToldTyped ==
  ASSUME TypeOK
  PROVE  /\ told \subseteq Requests \X BOOLEAN /\ hit \subseteq Requests
         /\ requeued \in [Requests -> Nat] /\ effects \in [Requests -> Nat]
         /\ session \in {"NONE", "RUNNING", "STOP_REQUESTED"}
         /\ troubles \in 0..MaxTroubles
         /\ worker \in [Workers -> WorkerState] /\ again \in Repeats
BY Zenon DEF TypeOK, Repeats

-----------------------------------------------------------------------------
(* Each action                                                             *)

LEMMA EnqueueDoes ==
  ASSUME Typed, NEW r \in Requests, NEW kind \in Kinds, Enqueue(r, kind)
  PROVE  TypeOK' /\ Queued(r)
<1> DEFINE new == [kind |-> kind, status |-> "PENDING", stale |-> FALSE]
<1>1. TypeOK /\ r \notin DOMAIN row
  BY DEF Typed, Enqueue, IsNew
<1>2. new \in Row /\ new.status = "PENDING" /\ ~new.stale
  BY Atoms, Zenon DEF Row
<1>3. row' = [q \in DOMAIN row \cup {r} |-> IF q = r THEN new ELSE row[q]]
  BY Zenon DEF Enqueue
<1> HIDE DEF new
<1>4. /\ DOMAIN row' = DOMAIN row \cup {r} /\ row'[r] = new
      /\ \A q \in DOMAIN row : row'[q] = row[q]
  BY <1>1, <1>3, Zenon
<1>5. order \in Seq(Requests) /\ IsInjective(order) /\ ToSet(order) = DOMAIN row
  BY <1>1, Zenon DEF TypeOK
<1>6. order' = Append(order, r)
  BY Zenon DEF Enqueue
<1>7. /\ order' \in Seq(Requests) /\ Len(order') = Len(order) + 1
      /\ \A i \in 1..Len(order) : order'[i] = order[i]
      /\ order'[Len(order) + 1] = r /\ Len(order) \in Nat
      /\ DOMAIN order = 1..Len(order) /\ DOMAIN order' = 1..(Len(order) + 1)
  BY <1>5, <1>6, AppendProperties
<1>8. \A i \in DOMAIN order : order[i] # r
  BY <1>1, <1>5 DEF ToSet
<1>9. IsInjective(order')
  <2> SUFFICES ASSUME NEW a \in 1..(Len(order) + 1), NEW b \in 1..(Len(order) + 1),
                      order'[a] = order'[b]
               PROVE  a = b
    BY <1>7 DEF IsInjective
  <2>1. CASE a \in 1..Len(order) /\ b \in 1..Len(order)
    <3>1. order[a] = order[b]
      BY <1>7, <2>1, Zenon
    <3> QED BY <1>5, <1>7, <2>1, <3>1, Zenon DEF IsInjective
  <2>2. CASE a = Len(order) + 1 /\ b \in 1..Len(order)
    BY <1>7, <1>8, <2>2, Zenon
  <2>3. CASE b = Len(order) + 1 /\ a \in 1..Len(order)
    BY <1>7, <1>8, <2>3, Zenon
  <2>4. CASE a = Len(order) + 1 /\ b = Len(order) + 1
    BY <2>4, Zenon
  <2> QED BY <1>7, <2>1, <2>2, <2>3, <2>4
<1>10. ToSet(order') = DOMAIN row'
  <2>1. \A q \in ToSet(order') : q \in DOMAIN row \cup {r}
    <3> SUFFICES ASSUME NEW i \in 1..(Len(order) + 1)
                 PROVE  order'[i] \in DOMAIN row \cup {r}
      BY <1>7, Zenon DEF ToSet
    <3>1. CASE i \in 1..Len(order)
      BY <1>5, <1>7, <3>1, Zenon DEF ToSet
    <3>2. CASE i = Len(order) + 1
      BY <1>7, <3>2, Zenon
    <3> QED BY <1>7, <3>1, <3>2
  <2>2. r \in ToSet(order')
    <3>1. Len(order) + 1 \in DOMAIN order'
      BY <1>7
    <3> QED BY <1>7, <3>1, Zenon DEF ToSet
  <2>3. ASSUME NEW q \in DOMAIN row PROVE q \in ToSet(order')
    <3>1. PICK i \in DOMAIN order : q = order[i]
      BY <1>5, Zenon DEF ToSet
    <3>2. i \in DOMAIN order' /\ i \in 1..Len(order)
      BY <1>7
    <3> QED BY <1>7, <3>1, <3>2, Zenon DEF ToSet
  <2> QED BY <1>4, <2>1, <2>2, <2>3, Zenon
<1>11. UNCHANGED <<worker, session, told, troubles, requeued, effects, again, hit>>
  BY DEF Enqueue
<1>12. TypeOK'
  BY <1>1, <1>2, <1>4, <1>7, <1>9, <1>10, <1>11, Zenon DEF TypeOK
<1> QED BY <1>1, <1>2, <1>4, <1>6, <1>11, <1>12 DEF Queued

LEMMA RollsDo == ASSUME Typed, Rolls PROVE TypeOK' /\ Outside
<1>1. TypeOK
  BY DEF Typed
<1>2. TypeOK'
  BY <1>1 DEF TypeOK, Rolls
<1> QED BY <1>2 DEF Rolls, Outside

LEMMA LockRowDoes ==
  ASSUME Typed, NEW w \in Workers, LockRow(w)
  PROVE  TypeOK' /\ Locks(w)
<1>1. PICK r \in Claimable :
          worker' = [worker EXCEPT ![w] = [pc |-> "claim", request |-> r, ok |-> FALSE]]
  BY Zenon DEF LockRow
<1>2. TypeOK
  BY DEF Typed
<1>3. r \in Requests
  <2>1. \A i \in DOMAIN order : order[i] \in Requests
    BY <1>2, ElementOfSeq DEF TypeOK
  <2> QED BY <2>1, Zenon DEF Claimable
<1> DEFINE new == [pc |-> "claim", request |-> r, ok |-> FALSE]
<1>4. "claim" \in PC
  BY DEF PC
<1>5. new \in WorkerState /\ new.pc = "claim" /\ new.request = r
  BY <1>3, <1>4, Atoms, Zenon DEF WorkerState
<1>6. worker' = [worker EXCEPT ![w] = new]
  BY <1>1
<1> HIDE DEF new
<1>7. worker' \in [Workers -> WorkerState] /\ worker'[w] = new /\ OthersSame(w)
  BY <1>2, <1>5, <1>6, PutTyped
<1>8. /\ UNCHANGED <<order, row, session, told, troubles, requeued, effects, again, hit>>
      /\ worker[w].pc = "idle"
  BY DEF LockRow
<1>9. TypeOK'
  BY <1>2, <1>7, <1>8, ToldTyped, SameRows
<1> QED BY <1>5, <1>7, <1>8, <1>9 DEF Locks

\* One field of a row, and its age, change.
LEMMA StatusTyped ==
  ASSUME Typed, NEW r \in DOMAIN row, NEW s \in Statuses, NEW old \in BOOLEAN,
         old => s = "PROCESSING",
         row' = [row EXCEPT ![r] = [row[r] EXCEPT !.status = s, !.stale = old]],
         order' = order
  PROVE  /\ DOMAIN row' = DOMAIN row /\ row'[r].status = s /\ row'[r].kind = row[r].kind
         /\ \A q \in DOMAIN row : q # r => row'[q] = row[q]
         /\ order' \in Seq(Requests) /\ IsInjective(order') /\ ToSet(order') = DOMAIN row'
         /\ DOMAIN row' \subseteq Requests
         /\ \A q \in DOMAIN row' : row'[q] \in Row
         /\ \A q \in DOMAIN row' : row'[q].stale => row'[q].status = "PROCESSING"
<1> DEFINE new == [row[r] EXCEPT !.status = s, !.stale = old]
<1>1. TypeOK /\ row[r] \in Row
  BY RowTyped DEF Typed
<1>2. new \in Row /\ new.status = s /\ new.stale = old /\ new.kind = row[r].kind
  BY <1>1, Zenon DEF Row
<1> HIDE DEF new
<1>3. row' = [row EXCEPT ![r] = new]
  BY DEF new
<1>4. DOMAIN row' = DOMAIN row /\ row'[r] = new
      /\ \A q \in DOMAIN row : q # r => row'[q] = row[q]
  BY <1>3, Zenon
<1>5. /\ order \in Seq(Requests) /\ IsInjective(order) /\ ToSet(order) = DOMAIN row
      /\ DOMAIN row \subseteq Requests
      /\ \A q \in DOMAIN row : row[q] \in Row
      /\ \A q \in DOMAIN row : row[q].stale => row[q].status = "PROCESSING"
  BY <1>1, Zenon DEF TypeOK
<1>6. \A q \in DOMAIN row' : row'[q] \in Row
  BY <1>2, <1>4, <1>5, Zenon
<1>7. \A q \in DOMAIN row' : row'[q].stale => row'[q].status = "PROCESSING"
  BY <1>2, <1>4, <1>5, Zenon
<1>8. order' \in Seq(Requests) /\ IsInjective(order') /\ ToSet(order') = DOMAIN row'
  BY <1>4, <1>5, Zenon
<1> QED BY <1>2, <1>4, <1>5, <1>6, <1>7, <1>8, Zenon

\* The types of a step that changes rows as StatusTyped says.
LEMMA ChangedRows ==
  ASSUME order' \in Seq(Requests), IsInjective(order'), ToSet(order') = DOMAIN row',
         DOMAIN row' \subseteq Requests,
         \A q \in DOMAIN row' : row'[q] \in Row,
         \A q \in DOMAIN row' : row'[q].stale => row'[q].status = "PROCESSING",
         worker' \in [Workers -> WorkerState],
         session' \in {"NONE", "RUNNING", "STOP_REQUESTED"},
         told' \subseteq Requests \X BOOLEAN,
         troubles' \in 0..MaxTroubles,
         requeued' \in [Requests -> Nat], effects' \in [Requests -> Nat],
         again' \in Repeats, hit' \subseteq Requests
  PROVE  TypeOK'
BY Zenon DEF TypeOK, Repeats

LEMMA ClaimDoes ==
  ASSUME Typed, NEW w \in Workers, Claim(w)
  PROVE  TypeOK' /\ Claims(w)
<1> DEFINE r == worker[w].request
<1>1. TypeOK /\ worker[w].pc = "claim" /\ r \in DOMAIN row
  BY HasCommand DEF Typed, Claim
<1>2. UNCHANGED <<order, session, told, troubles, requeued, effects, again, hit>>
  BY DEF Claim
<1>3. row' = [row EXCEPT ![r] = [row[r] EXCEPT !.status = "PROCESSING", !.stale = FALSE]]
  BY <1>1 DEF Claim
<1>4. order' = order
  BY <1>2
<1> HIDE DEF r
<1>5. /\ DOMAIN row' = DOMAIN row /\ row'[r].status = "PROCESSING"
      /\ row'[r].kind = row[r].kind
      /\ \A q \in DOMAIN row : q # r => row'[q] = row[q]
      /\ order' \in Seq(Requests) /\ IsInjective(order') /\ ToSet(order') = DOMAIN row'
      /\ DOMAIN row' \subseteq Requests
      /\ \A q \in DOMAIN row' : row'[q] \in Row
      /\ \A q \in DOMAIN row' : row'[q].stale => row'[q].status = "PROCESSING"
  BY <1>1, <1>3, <1>4, Atoms, StatusTyped
<1>6. "process" \in PC
  BY DEF PC
<1>7. [worker[w] EXCEPT !.pc = "process"] \in WorkerState
      /\ [worker[w] EXCEPT !.pc = "process"].pc = "process"
      /\ [worker[w] EXCEPT !.pc = "process"].request = worker[w].request
  BY <1>1, <1>6, WorkerTyped, Zenon DEF WorkerState
<1>8. worker' = [worker EXCEPT ![w] = [worker[w] EXCEPT !.pc = "process"]]
  BY DEF Claim
<1>9. worker' \in [Workers -> WorkerState] /\ OthersSame(w)
      /\ worker'[w].pc = "process" /\ worker'[w].request = worker[w].request
  BY <1>1, <1>7, <1>8, PutTyped, Zenon
<1>10. /\ told' \subseteq Requests \X BOOLEAN /\ hit' \subseteq Requests
       /\ again' \in Repeats
       /\ requeued' \in [Requests -> Nat] /\ effects' \in [Requests -> Nat]
       /\ session' \in {"NONE", "RUNNING", "STOP_REQUESTED"}
       /\ troubles' \in 0..MaxTroubles
  BY <1>1, <1>2, ToldTyped
<1>11. TypeOK'
  BY <1>5, <1>9, <1>10, ChangedRows
<1> QED BY <1>1, <1>2, <1>5, <1>9, <1>11, Zenon DEF Claims, r

LEMMA TwoMinutesPassDoes ==
  ASSUME Typed, NEW r \in Requests, TwoMinutesPass(r)
  PROVE  TypeOK' /\ Outside
<1>1. /\ TypeOK /\ r \in DOMAIN row /\ row[r].status = "PROCESSING" /\ row[r] \in Row
      /\ row[r].status \in Statuses
  BY RowTyped DEF Typed, TwoMinutesPass
<1>2. UNCHANGED <<order, worker, session, told, requeued, effects, again, hit>>
  BY DEF TwoMinutesPass
<1> DEFINE new == [row[r] EXCEPT !.stale = TRUE]
<1>3. new \in Row /\ new.status = row[r].status /\ new.kind = row[r].kind
  BY <1>1, Atoms, Zenon DEF Row
<1>4. row' = [row EXCEPT ![r] = new]
  BY DEF TwoMinutesPass
<1> HIDE DEF new
<1>5. DOMAIN row' = DOMAIN row /\ row'[r] = new
      /\ \A q \in DOMAIN row : q # r => row'[q] = row[q]
  BY <1>1, <1>4, Zenon
<1>6. /\ order \in Seq(Requests) /\ IsInjective(order) /\ ToSet(order) = DOMAIN row
      /\ DOMAIN row \subseteq Requests
      /\ \A q \in DOMAIN row : row[q] \in Row
      /\ \A q \in DOMAIN row : row[q].stale => row[q].status = "PROCESSING"
  BY <1>1, Zenon DEF TypeOK
<1>7. /\ \A q \in DOMAIN row' : row'[q] \in Row
      /\ \A q \in DOMAIN row' : row'[q].stale => row'[q].status = "PROCESSING"
  BY <1>1, <1>3, <1>5, <1>6, Zenon
<1>8. order' \in Seq(Requests) /\ IsInjective(order') /\ ToSet(order') = DOMAIN row'
  BY <1>2, <1>5, <1>6, Zenon
<1>9. troubles' \in 0..MaxTroubles
  <2>1. UNCHANGED troubles \/ Trouble
    BY DEF TwoMinutesPass
  <2> QED BY <1>1, <2>1, ToldTyped, TroubleTyped
<1>10. /\ told' \subseteq Requests \X BOOLEAN /\ hit' \subseteq Requests
       /\ again' \in Repeats
       /\ requeued' \in [Requests -> Nat] /\ effects' \in [Requests -> Nat]
       /\ session' \in {"NONE", "RUNNING", "STOP_REQUESTED"}
       /\ worker' \in [Workers -> WorkerState]
  BY <1>1, <1>2, ToldTyped
<1>11. TypeOK'
  BY <1>5, <1>6, <1>7, <1>8, <1>9, <1>10, ChangedRows
<1>12. \A q \in DOMAIN row : row'[q].status = row[q].status /\ row'[q].kind = row[q].kind
  BY <1>3, <1>5, Zenon
<1>13. \A q \in DOMAIN row : row[q].status \in Finished => row'[q] = row[q]
  BY <1>1, <1>5 DEF Finished
<1> QED BY <1>2, <1>5, <1>11, <1>12, <1>13, Zenon DEF Outside

LEMMA ClaimFailsDoes ==
  ASSUME Typed, NEW w \in Workers, ClaimFails(w)
  PROVE  TypeOK' /\ LetsGo(w)
<1>1. /\ TypeOK /\ worker[w].pc = "claim" /\ worker[w].request \in Requests
      /\ hit' = hit \cup {worker[w].request} /\ Trouble
  BY HasCommand DEF Typed, ClaimFails
<1>2. UNCHANGED <<order, row, session, told, requeued, effects, again>>
  BY DEF ClaimFails
<1>3. worker' = [worker EXCEPT ![w] = Idle]
  BY DEF ClaimFails
<1>4. worker' \in [Workers -> WorkerState] /\ worker'[w] = Idle /\ OthersSame(w)
  BY <1>1, <1>3, RestTyped, PutTyped
<1>5. TypeOK'
  BY <1>1, <1>2, <1>4, ToldTyped, TroubleTyped, SameRows
<1> QED BY <1>1, <1>2, <1>4, <1>5, RestTyped DEF LetsGo

LEMMA ProcessStartDoes ==
  ASSUME Typed, NEW w \in Workers, ProcessStart(w)
  PROVE  TypeOK' /\ GoesOn(w)
<1>1. /\ TypeOK /\ worker[w].pc = "process" /\ worker[w].request \in Requests
  BY HasCommand DEF Typed, ProcessStart, At
<1>2. UNCHANGED <<order, row, told, troubles, requeued, again, hit>>
  BY DEF ProcessStart
<1>3. "finish" \in PC /\ (session = "RUNNING") \in BOOLEAN
  BY DEF PC
<1>4. CASE session' = "RUNNING" /\ Effect(w) /\ Goes(w, "finish", TRUE)
  <2>1. /\ worker' \in [Workers -> WorkerState] /\ OthersSame(w)
        /\ worker'[w].pc = "finish" /\ worker'[w].ok = TRUE
        /\ worker'[w].request = worker[w].request
    BY <1>1, <1>3, <1>4, Atoms, GoesTyped
  <2>2. effects' \in [Requests -> Nat]
    BY <1>1, <1>4, EffectTyped
  <2>3. TypeOK'
    BY <1>1, <1>2, <1>4, <2>1, <2>2, ToldTyped, SameRows
  <2> QED BY <1>1, <1>2, <1>4, <2>1, <2>3 DEF GoesOn, Working
<1>5. ASSUME NEW ok \in BOOLEAN, Goes(w, "finish", ok), UNCHANGED <<session, effects>>
      PROVE  TypeOK' /\ GoesOn(w)
  <2>1. /\ worker' \in [Workers -> WorkerState] /\ OthersSame(w)
        /\ worker'[w].pc = "finish"
        /\ worker'[w].request = worker[w].request
    BY <1>1, <1>3, <1>5, GoesTyped
  <2>2. TypeOK'
    BY <1>1, <1>2, <1>5, <2>1, ToldTyped, SameRows
  <2> QED BY <1>1, <1>2, <1>5, <2>1, <2>2 DEF GoesOn, Working
<1> QED BY <1>3, <1>4, <1>5, Atoms DEF ProcessStart

LEMMA ProcessStopDoes ==
  ASSUME Typed, NEW w \in Workers, ProcessStop(w)
  PROVE  TypeOK' /\ GoesOn(w)
<1>1. /\ TypeOK /\ worker[w].pc = "process" /\ worker[w].request \in Requests
      /\ row[worker[w].request].kind = "STOP"
  BY HasCommand DEF Typed, ProcessStop, At
<1>2. UNCHANGED <<order, row, told, troubles, requeued, again, hit>>
  BY DEF ProcessStop
<1>3. "finish" \in PC /\ "check" \in PC
  BY DEF PC
<1>4. CASE session' = "STOP_REQUESTED" /\ Effect(w) /\ Goes(w, "check", FALSE)
  <2>1. /\ worker' \in [Workers -> WorkerState] /\ OthersSame(w)
        /\ worker'[w].pc = "check"
        /\ worker'[w].request = worker[w].request
    BY <1>1, <1>3, <1>4, Atoms, GoesTyped
  <2>2. effects' \in [Requests -> Nat]
    BY <1>1, <1>4, EffectTyped
  <2>3. TypeOK'
    BY <1>1, <1>2, <1>4, <2>1, <2>2, ToldTyped, SameRows
  <2> QED BY <1>1, <1>2, <1>4, <2>1, <2>3 DEF GoesOn, Working
<1>5. CASE Goes(w, "finish", FALSE) /\ UNCHANGED <<session, effects>>
  <2>1. /\ worker' \in [Workers -> WorkerState] /\ OthersSame(w)
        /\ worker'[w].pc = "finish"
        /\ worker'[w].request = worker[w].request
    BY <1>1, <1>3, <1>5, Atoms, GoesTyped
  <2>2. TypeOK'
    BY <1>1, <1>2, <1>5, <2>1, ToldTyped, SameRows
  <2> QED BY <1>1, <1>2, <1>5, <2>1, <2>2 DEF GoesOn, Working
<1> QED BY <1>4, <1>5 DEF ProcessStop

LEMMA StopGoesOn ==
  ASSUME Typed, NEW w \in Workers, CheckPending(w) \/ CompleteStop(w)
  PROVE  TypeOK' /\ GoesOn(w)
<1>1. TypeOK /\ worker[w].pc \in {"check", "complete"}
  BY DEF Typed, CheckPending, CompleteStop
<1>2. UNCHANGED <<order, row, told, troubles, requeued, effects, again, hit>>
  BY DEF CheckPending, CompleteStop
<1>3. session' = session \/ session' = "NONE"
  BY DEF CheckPending, CompleteStop
<1>4. PICK pc \in {"finish", "complete"}, ok \in BOOLEAN : Goes(w, pc, ok)
  BY Atoms DEF CheckPending, CompleteStop
<1>5. pc \in PC
  BY DEF PC
<1>6. /\ worker' \in [Workers -> WorkerState] /\ OthersSame(w)
      /\ worker'[w].pc = pc /\ worker'[w].request = worker[w].request
  BY <1>1, <1>4, <1>5, GoesTyped
<1>7. TypeOK'
  BY <1>1, <1>2, <1>3, <1>6, ToldTyped, SameRows
<1> QED BY <1>1, <1>2, <1>6, <1>7 DEF GoesOn, Working

LEMMA ProcessFailsDoes ==
  ASSUME Typed, NEW w \in Workers, ProcessFails(w)
  PROVE  TypeOK' /\ GoesOn(w)
<1>1. /\ TypeOK /\ worker[w].pc \in {"process", "check", "complete"}
      /\ worker[w].request \in Requests
      /\ hit' = hit \cup {worker[w].request} /\ Trouble /\ Goes(w, "finish", FALSE)
  BY HasCommand DEF Typed, ProcessFails
<1>2. UNCHANGED <<order, row, told, requeued, again>>
  BY DEF ProcessFails
<1>3. "finish" \in PC
  BY DEF PC
<1>4. /\ worker' \in [Workers -> WorkerState] /\ OthersSame(w)
      /\ worker'[w].pc = "finish" /\ worker'[w].request = worker[w].request
  BY <1>1, <1>3, Atoms, GoesTyped
<1>5. troubles' \in 0..MaxTroubles /\ hit' \subseteq Requests
  BY <1>1, ToldTyped, TroubleTyped
<1>6. CASE UNCHANGED <<session, effects>>
  <2>1. TypeOK'
    BY <1>1, <1>2, <1>4, <1>5, <1>6, ToldTyped, SameRows
  <2> QED BY <1>1, <1>2, <1>4, <1>6, <2>1 DEF GoesOn, Working
<1>7. CASE At(w, "process", "START") /\ session' = "RUNNING" /\ Effect(w)
  <2>1. effects' \in [Requests -> Nat]
    BY <1>1, <1>7, EffectTyped
  <2>2. TypeOK'
    BY <1>1, <1>2, <1>4, <1>5, <1>7, <2>1, ToldTyped, SameRows
  <2> QED BY <1>1, <1>2, <1>4, <1>7, <2>2 DEF GoesOn, Working, At
<1> QED BY <1>6, <1>7 DEF ProcessFails

LEMMA FinishDoes ==
  ASSUME Typed, NEW w \in Workers, Finish(w)
  PROVE  TypeOK' /\ Finishes(w)
<1> DEFINE r == worker[w].request
<1>1. /\ TypeOK /\ worker[w].pc = "finish" /\ r \in DOMAIN row
      /\ worker[w].ok \in BOOLEAN
  BY HasCommand, WorkerTyped DEF Typed, Finish
<1>2. /\ UNCHANGED <<order, session, told, troubles, requeued, effects, again, hit>>
      /\ Goes(w, "publish", worker[w].ok)
  BY DEF Finish
<1>3. "publish" \in PC
  BY DEF PC
<1>4. /\ worker' \in [Workers -> WorkerState] /\ OthersSame(w)
      /\ worker'[w].pc = "publish" /\ worker'[w].ok = worker[w].ok
      /\ worker'[w].request = worker[w].request
  BY <1>1, <1>2, <1>3, GoesTyped
<1>5. Outcome(w) \in Statuses
  BY DEF Outcome, Statuses, Finished
<1>6. CASE row[r].status = "PROCESSING"
  <2>1. row' = [row EXCEPT ![r] = [row[r] EXCEPT !.status = Outcome(w), !.stale = FALSE]]
    BY <1>1, <1>6 DEF Finish, StillProcessing
  <2>2. order' = order
    BY <1>2
  <2> HIDE DEF r
  <2>3. /\ DOMAIN row' = DOMAIN row /\ row'[r].status = Outcome(w)
        /\ row'[r].kind = row[r].kind
        /\ \A q \in DOMAIN row : q # r => row'[q] = row[q]
        /\ order' \in Seq(Requests) /\ IsInjective(order') /\ ToSet(order') = DOMAIN row'
        /\ DOMAIN row' \subseteq Requests
        /\ \A q \in DOMAIN row' : row'[q] \in Row
        /\ \A q \in DOMAIN row' : row'[q].stale => row'[q].status = "PROCESSING"
    BY <1>1, <1>5, <2>1, <2>2, Atoms, StatusTyped
  <2>4. /\ told' \subseteq Requests \X BOOLEAN /\ hit' \subseteq Requests
        /\ again' \in Repeats
        /\ requeued' \in [Requests -> Nat] /\ effects' \in [Requests -> Nat]
        /\ session' \in {"NONE", "RUNNING", "STOP_REQUESTED"}
        /\ troubles' \in 0..MaxTroubles
    BY <1>1, <1>2, ToldTyped
  <2>5. TypeOK'
    BY <1>4, <2>3, <2>4, ChangedRows
  <2> QED BY <1>1, <1>2, <1>4, <1>6, <2>3, <2>5, Zenon DEF Finishes, r
<1>7. CASE row[r].status # "PROCESSING"
  <2>1. row' = row
    BY <1>7 DEF Finish, StillProcessing
  <2>2. TypeOK'
    BY <1>1, <1>2, <1>4, <2>1, ToldTyped, SameRows
  <2> QED BY <1>1, <1>2, <1>4, <1>7, <2>1, <2>2 DEF Finishes
<1> QED BY <1>6, <1>7

LEMMA FinishFailsDoes ==
  ASSUME Typed, NEW w \in Workers, FinishFails(w)
  PROVE  TypeOK' /\ GoesOn(w)
<1>1. /\ TypeOK /\ worker[w].pc = "finish" /\ worker[w].request \in Requests
      /\ worker[w].ok \in BOOLEAN
      /\ hit' = hit \cup {worker[w].request} /\ Trouble
      /\ Goes(w, "publish", worker[w].ok)
  BY HasCommand, WorkerTyped DEF Typed, FinishFails
<1>2. UNCHANGED <<order, row, session, told, requeued, effects, again>>
  BY DEF FinishFails
<1>3. "publish" \in PC
  BY DEF PC
<1>4. /\ worker' \in [Workers -> WorkerState] /\ OthersSame(w)
      /\ worker'[w].pc = "publish" /\ worker'[w].request = worker[w].request
  BY <1>1, <1>3, GoesTyped
<1>5. TypeOK'
  BY <1>1, <1>2, <1>4, ToldTyped, TroubleTyped, SameRows
<1> QED BY <1>1, <1>2, <1>4, <1>5 DEF GoesOn, Working

LEMMA PublishDoes ==
  ASSUME Typed, NEW w \in Workers, Publish(w)
  PROVE  TypeOK' /\ LetsGo(w)
<1>1. /\ TypeOK /\ worker[w].pc = "publish" /\ worker[w].request \in Requests
      /\ worker[w].ok \in BOOLEAN
  BY HasCommand, WorkerTyped DEF Typed, Publish
<1>2. UNCHANGED <<order, row, session, requeued, effects, again, hit>>
  BY DEF Publish
<1>3. worker' = [worker EXCEPT ![w] = Idle]
  BY DEF Publish
<1>4. worker' \in [Workers -> WorkerState] /\ worker'[w] = Idle /\ OthersSame(w)
  BY <1>1, <1>3, RestTyped, PutTyped
<1>5. \/ told' = told \cup {<<worker[w].request, worker[w].ok>>} /\ UNCHANGED troubles
      \/ Trouble /\ UNCHANGED told
  BY DEF Publish
<1>6. told' \subseteq Requests \X BOOLEAN /\ troubles' \in 0..MaxTroubles
  BY <1>1, <1>5, ToldTyped, TroubleTyped
<1>7. TypeOK'
  BY <1>1, <1>2, <1>4, <1>6, ToldTyped, SameRows
<1> QED BY <1>1, <1>2, <1>4, <1>5, <1>7, RestTyped DEF LetsGo

LEMMA CrashDoes ==
  ASSUME Typed, NEW w \in Workers, Crash(w)
  PROVE  TypeOK' /\ LetsGo(w)
<1>1. TypeOK /\ Trouble
  BY DEF Typed, Crash
<1>2. UNCHANGED <<order, row, session, told, requeued, effects, again>>
  BY DEF Crash
<1>3. worker' = [worker EXCEPT ![w] = Down]
  BY DEF Crash
<1>4. worker' \in [Workers -> WorkerState] /\ worker'[w] = Down /\ OthersSame(w)
  BY <1>1, <1>3, RestTyped, PutTyped
<1>5. hit' = hit \cup (IF worker[w].pc = "claim" THEN {worker[w].request} ELSE {})
  BY DEF Crash
<1>6. /\ hit \subseteq hit' /\ hit' \subseteq Requests
      /\ worker[w].pc = "claim" => worker[w].request \in hit'
  <2>1. CASE worker[w].pc = "claim"
    BY <1>1, <1>5, <2>1, HasCommand, ToldTyped
  <2>2. CASE worker[w].pc # "claim"
    BY <1>1, <1>5, <2>2, ToldTyped
  <2> QED BY <2>1, <2>2
<1>7. TypeOK'
  BY <1>1, <1>2, <1>4, <1>6, ToldTyped, TroubleTyped, SameRows
<1> QED BY <1>2, <1>4, <1>6, <1>7, RestTyped DEF LetsGo

LEMMA RequeueStaleDoes ==
  ASSUME Typed, NEW w \in Workers, RequeueStale(w)
  PROVE  TypeOK' /\ HandsOut(w)
<1>1. TypeOK /\ worker[w].pc \in {"idle", "down"}
  BY DEF Typed, RequeueStale
<1>2. UNCHANGED <<order, session, told, troubles, effects, again, hit>>
  BY DEF RequeueStale
<1>3. worker' = [worker EXCEPT ![w] = Idle]
  BY DEF RequeueStale
<1>4. worker' \in [Workers -> WorkerState] /\ worker'[w] = Idle /\ OthersSame(w)
  BY <1>1, <1>3, RestTyped, PutTyped
<1>5. /\ DOMAIN row' = DOMAIN row
      /\ \A r \in DOMAIN row :
             row'[r] = IF r \in Stale(w)
                       THEN [row[r] EXCEPT !.status = "PENDING", !.stale = FALSE]
                       ELSE row[r]
  BY Zenon DEF RequeueStale
<1>6. \A r \in DOMAIN row : r \in Stale(w) => row[r].status = "PROCESSING"
  BY DEF Stale
<1>7. \A r \in Requests : r \in Stale(w) => r \in DOMAIN row
  BY DEF Stale
<1>8. requeued \in [Requests -> Nat]
  BY <1>1, ToldTyped
<1>9. /\ requeued' \in [Requests -> Nat]
      /\ \A r \in Requests :
             requeued'[r] = IF r \in Stale(w) THEN requeued[r] + 1 ELSE requeued[r]
  <2>1. requeued' = [r \in Requests |-> requeued[r] + IF r \in Stale(w) THEN 1 ELSE 0]
    BY DEF RequeueStale
  <2> QED BY <1>8, <2>1
<1>10. ASSUME NEW r \in DOMAIN row
       PROVE  /\ row'[r] \in Row /\ (row'[r].stale => row'[r].status = "PROCESSING")
              /\ \/ /\ row'[r] = row[r] /\ requeued'[r] = requeued[r]
                 \/ /\ row[r].status = "PROCESSING" /\ row'[r].status = "PENDING"
                    /\ row'[r].kind = row[r].kind
                    /\ requeued'[r] = requeued[r] + 1
  <2>1. r \in Requests /\ row[r] \in Row
    BY <1>1, RowTyped
  <2>2. CASE r \in Stale(w)
    <3>1. row'[r] = [row[r] EXCEPT !.status = "PENDING", !.stale = FALSE]
      BY <1>5, <2>2, Zenon
    <3>2. /\ row'[r] \in Row /\ row'[r].status = "PENDING" /\ row'[r].stale = FALSE
          /\ row'[r].kind = row[r].kind
      BY <2>1, <3>1, Atoms, Zenon DEF Row
    <3> QED BY <1>6, <1>9, <2>1, <2>2, <3>2
  <2>3. CASE r \notin Stale(w)
    <3>1. row'[r] = row[r]
      BY <1>5, <2>3, Zenon
    <3>2. row[r].stale => row[r].status = "PROCESSING"
      BY <1>1, Zenon DEF TypeOK
    <3> QED BY <1>9, <2>1, <2>3, <3>1, <3>2
  <2> QED BY <2>2, <2>3
<1>11. /\ order' \in Seq(Requests) /\ IsInjective(order') /\ ToSet(order') = DOMAIN row'
       /\ DOMAIN row' \subseteq Requests
  BY <1>1, <1>2, <1>5, Zenon DEF TypeOK
<1>12. /\ told' \subseteq Requests \X BOOLEAN /\ hit' \subseteq Requests
       /\ again' \in Repeats
       /\ effects' \in [Requests -> Nat]
       /\ session' \in {"NONE", "RUNNING", "STOP_REQUESTED"}
       /\ troubles' \in 0..MaxTroubles
  BY <1>1, <1>2, ToldTyped
<1>13. TypeOK'
  BY <1>4, <1>5, <1>9, <1>10, <1>11, <1>12, ChangedRows
<1>14. \A r \in Requests : r \notin DOMAIN row => requeued'[r] = requeued[r]
  BY <1>7, <1>9
<1> QED BY <1>1, <1>2, <1>4, <1>5, <1>10, <1>13, <1>14, RestTyped DEF HandsOut

\* A second Enqueue locks a row or lets go of it.
LEMMA AgainDoes ==
  ASSUME Typed, NEW r \in Requests, EnqueueAgain(r) \/ AgainEnds(r)
  PROVE  TypeOK' /\ Outside
<1>1. TypeOK
  BY DEF Typed
<1>2. /\ UNCHANGED <<order, row, worker, session, told, requeued, effects, hit>>
      /\ UNCHANGED troubles \/ Trouble
  BY DEF EnqueueAgain, AgainEnds
<1>3. again \in Repeats
  BY <1>1, ToldTyped
<1>4. PICK state \in {"held", "over"} : again' = [again EXCEPT ![r] = state]
  BY Zenon DEF EnqueueAgain, AgainEnds
<1>5. /\ again' \in Repeats
      /\ \A q \in Requests : again'[q] = "never" => again[q] = "never"
  BY <1>3, <1>4 DEF Repeats
<1>6. troubles' \in 0..MaxTroubles
  BY <1>1, <1>2, ToldTyped, TroubleTyped
<1>7. TypeOK'
  BY <1>1, <1>2, <1>5, <1>6, ToldTyped, SameRows
<1> QED BY <1>2, <1>5, <1>7 DEF Outside

LEMMA StutterDoes == ASSUME Typed, UNCHANGED vars PROVE TypeOK' /\ Outside
<1>1. UNCHANGED <<order, row, worker, session, told, troubles, requeued, effects, again, hit>>
  BY DEF vars
<1>2. TypeOK'
  BY <1>1 DEF Typed, TypeOK
<1> QED BY <1>1, <1>2 DEF Outside

\* Every step keeps the types and is one of the changes.
LEMMA StepChanges == ASSUME Typed, [Next]_vars PROVE TypeOK' /\ Change
<1>1. CASE \E r \in Requests, kind \in Kinds : Enqueue(r, kind)
  BY <1>1, EnqueueDoes, Zenon DEF Change
<1>2. CASE Rolls
  BY <1>2, RollsDo, Zenon DEF Change
<1>3. CASE \E r \in Requests : TwoMinutesPass(r)
  BY <1>3, TwoMinutesPassDoes, Zenon DEF Change
<1>4. ASSUME NEW w \in Workers, WorkerStep(w) PROVE TypeOK' /\ Change
  <2>1. CASE LockRow(w)
    BY <2>1, LockRowDoes, Zenon DEF Change
  <2>2. CASE Claim(w)
    BY <2>2, ClaimDoes, Zenon DEF Change
  <2>3. CASE ClaimFails(w) \/ Publish(w)
    BY <2>3, ClaimFailsDoes, PublishDoes, Zenon DEF Change
  <2>4. CASE ProcessStart(w) \/ ProcessStop(w) \/ ProcessFails(w)
    BY <2>4, ProcessStartDoes, ProcessStopDoes, ProcessFailsDoes, Zenon DEF Change
  <2>5. CASE CheckPending(w) \/ CompleteStop(w) \/ FinishFails(w)
    BY <2>5, StopGoesOn, FinishFailsDoes, Zenon DEF Change
  <2>6. CASE Finish(w)
    BY <2>6, FinishDoes, Zenon DEF Change
  <2> QED BY <1>4, <2>1, <2>2, <2>3, <2>4, <2>5, <2>6, Zenon DEF WorkerStep
<1>5. ASSUME NEW w \in Workers, RequeueStale(w) \/ Crash(w) PROVE TypeOK' /\ Change
  BY <1>5, RequeueStaleDoes, CrashDoes, Zenon DEF Change
<1>6. CASE UNCHANGED vars
  BY <1>6, StutterDoes, Zenon DEF Change
<1>7. CASE \E r \in Requests : EnqueueAgain(r) \/ AgainEnds(r)
  BY <1>7, AgainDoes, Zenon DEF Change
<1> QED BY <1>1, <1>2, <1>3, <1>4, <1>5, <1>6, <1>7, Zenon DEF Next

-----------------------------------------------------------------------------
(* Types                                                                   *)

LEMMA InitTyped == Init => Typed
<1> SUFFICES ASSUME Init PROVE Typed
  OBVIOUS
<1>1. /\ order = <<>> /\ DOMAIN row = {} /\ told = {} /\ hit = {}
      /\ worker = [w \in Workers |-> Idle] /\ session = "NONE" /\ troubles = 0
      /\ requeued = [r \in Requests |-> 0] /\ effects = [r \in Requests |-> 0]
      /\ again = [r \in Requests |-> "never"]
  BY Zenon DEF Init
<1>2. order \in Seq(Requests) /\ DOMAIN order = {}
  BY <1>1, EmptySeq
<1>3. ToSet(order) = {} /\ IsInjective(order)
  BY <1>2, Zenon DEF ToSet, IsInjective
<1>4. worker \in [Workers -> WorkerState]
  BY <1>1, RestTyped
<1>5. 0 \in 0..MaxTroubles
  BY QueueAssumption
<1>6. TypeOK
  BY <1>1, <1>2, <1>3, <1>4, <1>5 DEF TypeOK
<1>7. Held
  BY <1>1, RestTyped DEF Held, Fits, ToldOf
<1> QED BY <1>6, <1>7 DEF Typed

\* A worker that stays where it was keeps what it has.
LEMMA OthersFit ==
  ASSUME NEW v \in Workers, Fits(v), worker'[v] = worker[v],
         DOMAIN row \subseteq DOMAIN row',
         worker[v].pc = "claim" => row'[worker[v].request].status = "PENDING"
  PROVE  Fits(v)'
BY DEF Fits

\* A worker that moves within its command, or lets go of it, has what it says.
LEMMA MovedFits ==
  ASSUME NEW w \in Workers, worker'[w].pc # "claim",
         worker'[w].request = None <=> worker'[w].pc \in {"idle", "down"},
         worker'[w].request # None => worker'[w].request \in DOMAIN row'
  PROVE  Fits(w)'
BY DEF Fits

\* No two workers claim one row after a step in which none begins to.
LEMMA ClaimsStay ==
  ASSUME Held, NEW w \in Workers, OthersSame(w), worker'[w].pc # "claim"
  PROVE  \A u, v \in Workers :
             worker'[u].pc = "claim" /\ worker'[v].pc = "claim"
             /\ worker'[u].request = worker'[v].request => u = v
<1> SUFFICES ASSUME NEW u \in Workers, NEW v \in Workers,
                    worker'[u].pc = "claim", worker'[v].pc = "claim",
                    worker'[u].request = worker'[v].request
             PROVE  u = v
  OBVIOUS
<1>1. worker'[u] = worker[u] /\ worker'[v] = worker[v]
  BY Zenon DEF OthersSame
<1> QED BY <1>1 DEF Held

\* What is told is told of commands there are.
LEMMA ToldGrows ==
  ASSUME NEW D, NEW E, NEW t, D \subseteq E, ToldOf(t, D)
  PROVE  ToldOf(t, E)
BY DEF ToldOf

LEMMA ToldAdds ==
  ASSUME NEW D, NEW t, ToldOf(t, D), NEW r \in D, NEW ok \in BOOLEAN
  PROVE  ToldOf(t \cup {<<r, ok>>}, D)
BY DEF ToldOf

\* Held holds again when each part does.
LEMMA HeldAgain ==
  ASSUME \A v \in Workers : Fits(v)',
         \A u, v \in Workers :
             worker'[u].pc = "claim" /\ worker'[v].pc = "claim"
             /\ worker'[u].request = worker'[v].request => u = v,
         ToldOf(told', DOMAIN row')
  PROVE  Held'
BY Zenon DEF Held

\* Who has which command.
LEMMA StepHeld == ASSUME Typed, Change PROVE Held'
<1>0. /\ \A w \in Workers : Fits(w)
      /\ \A v, w \in Workers :
             worker[v].pc = "claim" /\ worker[w].pc = "claim"
             /\ worker[v].request = worker[w].request => v = w
      /\ ToldOf(told, DOMAIN row)
      /\ TypeOK /\ Held
  BY Zenon DEF Typed, Held
<1>a. \A w \in Workers : worker[w].pc \notin {"idle", "down"} =>
          worker[w].request \in DOMAIN row /\ worker[w].request # None
  BY HasCommand
<1>b. \A w \in Workers : worker[w].pc = "claim" =>
          row[worker[w].request].status = "PENDING"
  BY <1>0 DEF Fits
<1>1. CASE Outside
  <2>1. /\ DOMAIN row' = DOMAIN row /\ worker' = worker /\ told' = told
        /\ \A r \in DOMAIN row : row'[r].status = row[r].status
    BY <1>1 DEF Outside
  <2>2. \A v \in Workers : Fits(v)'
    BY <1>0, <1>a, <1>b, <2>1, OthersFit
  <2>3. \A u, v \in Workers :
             worker'[u].pc = "claim" /\ worker'[v].pc = "claim"
             /\ worker'[u].request = worker'[v].request => u = v
    BY <1>0, <2>1
  <2>4. ToldOf(told', DOMAIN row')
    BY <1>0, <2>1, Zenon
  <2> QED BY <2>2, <2>3, <2>4, HeldAgain
<1>2. ASSUME NEW r \in Requests, Queued(r) PROVE Held'
  <2>1. /\ DOMAIN row' = DOMAIN row \cup {r} /\ worker' = worker /\ told' = told
        /\ \A q \in DOMAIN row : row'[q] = row[q]
    BY <1>2 DEF Queued
  <2>2. \A v \in Workers : Fits(v)'
    BY <1>0, <1>a, <1>b, <2>1, OthersFit
  <2>3. \A u, v \in Workers :
             worker'[u].pc = "claim" /\ worker'[v].pc = "claim"
             /\ worker'[u].request = worker'[v].request => u = v
    BY <1>0, <2>1
  <2>4. DOMAIN row \subseteq DOMAIN row' /\ ToldOf(told, DOMAIN row)
    BY <1>0, <2>1
  <2>5. ToldOf(told', DOMAIN row')
    BY <2>1, <2>4, ToldGrows, Zenon
  <2> QED BY <2>2, <2>3, <2>5, HeldAgain
<1>3. ASSUME NEW w \in Workers, Locks(w) PROVE Held'
  <2> DEFINE r == worker'[w].request
  <2>1. /\ r \in DOMAIN row /\ row[r].status = "PENDING"
        /\ \A v \in Workers : ~(worker[v].pc = "claim" /\ worker[v].request = r)
    <3>1. PICK i \in DOMAIN order : r = order[i] /\ Free(order[i])
      BY <1>3, Zenon DEF Locks, Claimable
    <3>2. r \in DOMAIN row
      BY <1>0, <3>1, Zenon DEF TypeOK, ToSet
    <3> QED BY <3>1, <3>2, Zenon DEF Free, Waits, Locked
  <2>2. r # None
    BY <1>0, <2>1, RowTyped, Atoms
  <2>3. worker'[w].pc = "claim" /\ OthersSame(w) /\ row' = row /\ told' = told
    BY <1>3 DEF Locks
  <2>4. Fits(w)'
    BY <2>1, <2>2, <2>3 DEF Fits
  <2>5. \A v \in Workers : v # w => worker'[v] = worker[v]
    BY <2>3 DEF OthersSame
  <2>6. \A v \in Workers : Fits(v)'
    BY <1>0, <1>b, <2>3, <2>4, <2>5, OthersFit
  <2> HIDE DEF r
  <2>7. ASSUME NEW u \in Workers, NEW v \in Workers,
               worker'[u].pc = "claim", worker'[v].pc = "claim",
               worker'[u].request = worker'[v].request
        PROVE  u = v
    <3>1. CASE u = w
      BY <2>1, <2>5, <2>7, <3>1 DEF r
    <3>2. CASE v = w
      BY <2>1, <2>5, <2>7, <3>2 DEF r
    <3>3. CASE u # w /\ v # w
      BY <1>0, <2>5, <2>7, <3>3
    <3> QED BY <3>1, <3>2, <3>3
  <2>8. ToldOf(told', DOMAIN row')
    BY <1>0, <2>3, Zenon
  <2> QED BY <2>6, <2>7, <2>8, HeldAgain
<1>4. ASSUME NEW w \in Workers, Claims(w) PROVE Held'
  <2>1. worker[w].request \in DOMAIN row /\ worker[w].request # None
    BY <1>a, <1>4 DEF Claims
  <2>2. \A v \in Workers : v # w /\ worker[v].pc = "claim"
                           => worker[v].request # worker[w].request
    BY <1>0, <1>4 DEF Claims
  <2>3. /\ DOMAIN row' = DOMAIN row /\ told' = told /\ OthersSame(w)
        /\ worker'[w].pc = "process" /\ worker'[w].request = worker[w].request
        /\ \A q \in DOMAIN row : q # worker[w].request => row'[q] = row[q]
    BY <1>4 DEF Claims
  <2>4. Fits(w)'
    BY <2>1, <2>3, MovedFits
  <2>5. ASSUME NEW v \in Workers, v # w PROVE Fits(v)'
    <3>1. worker'[v] = worker[v]
      BY <2>3, <2>5 DEF OthersSame
    <3>2. worker[v].pc = "claim" => row'[worker[v].request].status = "PENDING"
      BY <1>a, <1>b, <2>2, <2>3, <2>5
    <3> QED BY <1>0, <2>3, <3>1, <3>2, OthersFit
  <2>6. \A v \in Workers : Fits(v)'
    BY <2>4, <2>5
  <2>7. \A u, v \in Workers :
             worker'[u].pc = "claim" /\ worker'[v].pc = "claim"
             /\ worker'[u].request = worker'[v].request => u = v
    BY <1>0, <2>3, ClaimsStay
  <2>8. ToldOf(told', DOMAIN row')
    BY <1>0, <2>3, Zenon
  <2> QED BY <2>6, <2>7, <2>8, HeldAgain
<1>5. ASSUME NEW w \in Workers, GoesOn(w) \/ Finishes(w) PROVE Held'
  <2>1. /\ DOMAIN row' = DOMAIN row /\ told' = told /\ OthersSame(w)
        /\ worker[w].pc \in Working
        /\ worker'[w].pc \in {"check", "complete", "finish", "publish"}
        /\ worker'[w].request = worker[w].request
    BY <1>5 DEF GoesOn, Finishes, Working
  <2>2. \A q \in DOMAIN row : row[q].status = "PENDING" => row'[q].status = "PENDING"
    <3>1. CASE GoesOn(w)
      BY <3>1 DEF GoesOn
    <3>2. CASE Finishes(w)
      <4>1. row[worker[w].request].status = "PENDING" =>
               row'[worker[w].request].status = "PENDING"
        BY <3>2 DEF Finishes
      <4>2. \A q \in DOMAIN row : q # worker[w].request => row'[q] = row[q]
        BY <3>2 DEF Finishes
      <4> QED BY <4>1, <4>2
    <3> QED BY <1>5, <3>1, <3>2
  <2>3. Fits(w)'
    BY <1>a, <2>1, MovedFits DEF Working
  <2>4. ASSUME NEW v \in Workers, v # w PROVE Fits(v)'
    <3>1. worker'[v] = worker[v]
      BY <2>1, <2>4 DEF OthersSame
    <3>2. worker[v].pc = "claim" => row'[worker[v].request].status = "PENDING"
      BY <1>a, <1>b, <2>2
    <3> QED BY <1>0, <2>1, <3>1, <3>2, OthersFit
  <2>5. \A v \in Workers : Fits(v)'
    BY <2>3, <2>4
  <2>6. \A u, v \in Workers :
             worker'[u].pc = "claim" /\ worker'[v].pc = "claim"
             /\ worker'[u].request = worker'[v].request => u = v
    BY <1>0, <2>1, ClaimsStay
  <2>8. ToldOf(told', DOMAIN row')
    BY <1>0, <2>1, Zenon
  <2> QED BY <2>5, <2>6, <2>8, HeldAgain
<1>6. ASSUME NEW w \in Workers, LetsGo(w) \/ HandsOut(w) PROVE Held'
  <2>1. /\ DOMAIN row' = DOMAIN row /\ OthersSame(w)
        /\ worker'[w].pc \in {"idle", "down"} /\ worker'[w].request = None
        /\ \A q \in DOMAIN row : row[q].status = "PENDING" => row'[q].status = "PENDING"
    BY <1>6 DEF LetsGo, HandsOut
  <2>2. Fits(w)'
    BY <2>1, MovedFits
  <2>3. ASSUME NEW v \in Workers, v # w PROVE Fits(v)'
    <3>1. worker'[v] = worker[v]
      BY <2>1, <2>3 DEF OthersSame
    <3>2. worker[v].pc = "claim" => row'[worker[v].request].status = "PENDING"
      BY <1>a, <1>b, <2>1
    <3> QED BY <1>0, <2>1, <3>1, <3>2, OthersFit
  <2>4. \A v \in Workers : Fits(v)'
    BY <2>2, <2>3
  <2>5. \A u, v \in Workers :
             worker'[u].pc = "claim" /\ worker'[v].pc = "claim"
             /\ worker'[u].request = worker'[v].request => u = v
    BY <1>0, <2>1, ClaimsStay
  <2>6. ToldOf(told', DOMAIN row')
    <3>1. worker[w].pc = "publish" =>
             worker[w].request \in DOMAIN row /\ worker[w].ok \in BOOLEAN
      BY <1>0, <1>a, WorkerTyped
    <3>2. told' = told \/ (worker[w].pc = "publish"
                           /\ told' = told \cup {<<worker[w].request, worker[w].ok>>})
      BY <1>6 DEF LetsGo, HandsOut
    <3>3. ToldOf(told, DOMAIN row) /\ DOMAIN row' = DOMAIN row
      BY <1>0, <2>1
    <3>4. CASE told' = told
      BY <3>3, <3>4, Zenon
    <3>5. CASE told' # told
      <4>1. told' = told \cup {<<worker[w].request, worker[w].ok>>}
            /\ worker[w].request \in DOMAIN row /\ worker[w].ok \in BOOLEAN
        BY <3>1, <3>2, <3>5
      <4>2. ToldOf(told', DOMAIN row)
        BY <3>3, <4>1, ToldAdds, Zenon
      <4> QED BY <3>3, <4>2, Zenon
    <3> QED BY <3>4, <3>5
  <2> QED BY <2>4, <2>5, <2>6, HeldAgain
<1> QED BY <1>1, <1>2, <1>3, <1>4, <1>5, <1>6, Zenon DEF Change

LEMMA StepTyped == Typed /\ [Next]_vars => Typed'
BY StepChanges, StepHeld, Zenon DEF Typed

\* The types are kept, and whoever has a command has it from the queue.
THEOREM TypesHold == Spec => []TypeOK
<1>1. Init => Typed
  BY InitTyped
<1>2. Typed /\ [Next]_vars => Typed'
  BY StepTyped
<1>3. Typed => TypeOK
  BY DEF Typed
<1> QED BY <1>1, <1>2, <1>3, PTL DEF Spec

-----------------------------------------------------------------------------
(* Once each time it is handed out                                         *)

\* Who is about to act for r, and whether r is past its claim.
Processing(r) == {w \in Workers : worker[w].pc = "process" /\ worker[w].request = r}

Begun(r) == IF r \in DOMAIN row /\ row[r].status # "PENDING" THEN 1 ELSE 0

Counts(r) ==
    /\ IsFiniteSet(Processing(r))
    /\ effects[r] + Cardinality(Processing(r)) <= requeued[r] + Begun(r)

Counted == \A r \in Requests : Counts(r)

\* A step under which nothing of r's sum changes.
LEMMA CountStays ==
  ASSUME NEW r \in Requests, Counts(r), Processing(r)' = Processing(r),
         effects'[r] = effects[r], requeued'[r] = requeued[r], Begun(r)' = Begun(r)
  PROVE  Counts(r)'
BY DEF Counts

\* Who acts for r is told by the workers that are processing.
LEMMA SameProcessing ==
  ASSUME NEW r, NEW w \in Workers, OthersSame(w),
         ~(worker[w].pc = "process" /\ worker[w].request = r),
         ~(worker'[w].pc = "process" /\ worker'[w].request = r)
  PROVE  Processing(r)' = Processing(r)
<1>1. ASSUME NEW v \in Workers
      PROVE  /\ worker'[v].pc = "process" /\ worker'[v].request = r
                => worker[v].pc = "process" /\ worker[v].request = r
             /\ worker[v].pc = "process" /\ worker[v].request = r
                => worker'[v].pc = "process" /\ worker'[v].request = r
  <2>1. v = w \/ worker'[v] = worker[v]
    BY Zenon DEF OthersSame
  <2> QED BY <2>1
<1> QED BY <1>1, Zenon DEF Processing

\* One worker leaves those that act for r.
LEMMA OneLess ==
  ASSUME NEW r, NEW w \in Workers, OthersSame(w), worker'[w].pc # "process"
  PROVE  Processing(r)' = Processing(r) \ {w}
<1>1. ASSUME NEW v \in Workers
      PROVE  worker'[v].pc = "process" /\ worker'[v].request = r
             <=> worker[v].pc = "process" /\ worker[v].request = r /\ v # w
  <2>1. v = w \/ (v # w /\ worker'[v] = worker[v])
    BY Zenon DEF OthersSame
  <2> QED BY <2>1
<1> QED BY <1>1 DEF Processing

\* One worker joins them.
LEMMA OneMore ==
  ASSUME NEW w \in Workers, OthersSame(w),
         worker'[w].pc = "process", worker'[w].request = worker[w].request
  PROVE  Processing(worker[w].request)' = Processing(worker[w].request) \cup {w}
<1> DEFINE r == worker[w].request
<1>1. ASSUME NEW v \in Workers
      PROVE  worker'[v].pc = "process" /\ worker'[v].request = r
             <=> (worker[v].pc = "process" /\ worker[v].request = r) \/ v = w
  <2>1. v = w \/ (v # w /\ worker'[v] = worker[v])
    BY Zenon DEF OthersSame
  <2> QED BY <2>1
<1> HIDE DEF r
<1>2. {v \in Workers : worker'[v].pc = "process" /\ worker'[v].request = r}
      = {v \in Workers : worker[v].pc = "process" /\ worker[v].request = r} \cup {w}
  BY <1>1
<1> QED BY <1>2 DEF Processing, r

LEMMA StepCounted ==
  ASSUME Typed, Counted, Change
  PROVE  Counted'
<1> SUFFICES ASSUME NEW r \in Requests PROVE Counts(r)'
  BY DEF Counted
<1>0. /\ Counts(r) /\ effects[r] \in Nat /\ requeued[r] \in Nat
      /\ \A w \in Workers : worker[w].pc \notin {"idle", "down"} =>
             worker[w].request \in DOMAIN row /\ worker[w].request # None
      /\ \A w \in Workers : worker[w].pc = "claim" =>
             row[worker[w].request].status = "PENDING"
      /\ TypeOK
  BY ToldTyped, HasCommand DEF Counted, Typed, Held, Fits
<1>c. IsFiniteSet(Processing(r)) /\ Cardinality(Processing(r)) \in Nat
  BY <1>0, FS_CardinalityType DEF Counts
<1>1. CASE Outside
  <2>1. /\ DOMAIN row' = DOMAIN row /\ \A q \in DOMAIN row : row'[q].status = row[q].status
        /\ worker' = worker /\ requeued' = requeued /\ effects' = effects
    BY <1>1 DEF Outside
  <2>2. Processing(r)' = Processing(r)
    BY <2>1 DEF Processing
  <2>3. Begun(r)' = Begun(r)
    BY <2>1 DEF Begun
  <2> QED BY <1>0, <2>1, <2>2, <2>3, CountStays
<1>2. ASSUME NEW q \in Requests, Queued(q) PROVE Counts(r)'
  <2>1. /\ DOMAIN row' = DOMAIN row \cup {q} /\ q \notin DOMAIN row
        /\ \A p \in DOMAIN row : row'[p] = row[p]
        /\ row'[q].status = "PENDING"
        /\ worker' = worker /\ requeued' = requeued /\ effects' = effects
    BY <1>2 DEF Queued
  <2>2. Processing(r)' = Processing(r)
    BY <2>1 DEF Processing
  <2>3. Begun(r)' = Begun(r)
    BY <2>1 DEF Begun
  <2> QED BY <1>0, <2>1, <2>2, <2>3, CountStays
<1>3. ASSUME NEW w \in Workers, Locks(w) PROVE Counts(r)'
  <2>1. Processing(r)' = Processing(r)
    BY <1>3, SameProcessing DEF Locks
  <2>2. Begun(r)' = Begun(r)
    BY <1>3 DEF Locks, Begun
  <2> QED BY <1>0, <1>3, <2>1, <2>2, CountStays DEF Locks
<1>4. ASSUME NEW w \in Workers, Claims(w) PROVE Counts(r)'
  <2>1. CASE r = worker[w].request
    <3>1. Processing(r)' = Processing(r) \cup {w}
      <4>1. Processing(worker[w].request)' = Processing(worker[w].request) \cup {w}
        BY <1>4, OneMore DEF Claims
      <4>2. worker'[w].request = worker[w].request
        BY <1>4 DEF Claims
      <4> QED BY <2>1, <4>1, <4>2 DEF Processing
    <3>2. Begun(r) = 0 /\ Begun(r)' = 1
      BY <1>0, <1>4, <2>1 DEF Claims, Begun
    <3>3. /\ IsFiniteSet(Processing(r)')
          /\ \/ Cardinality(Processing(r)') = Cardinality(Processing(r))
             \/ Cardinality(Processing(r)') = Cardinality(Processing(r)) + 1
      <4>1. /\ IsFiniteSet(Processing(r) \cup {w})
            /\ \/ Cardinality(Processing(r) \cup {w}) = Cardinality(Processing(r))
               \/ Cardinality(Processing(r) \cup {w}) = Cardinality(Processing(r)) + 1
        BY <1>c, FS_AddElement
      <4> QED BY <3>1, <4>1, Zenon
    <3>4. effects'[r] = effects[r] /\ requeued'[r] = requeued[r]
      BY <1>4 DEF Claims
    <3> QED BY <1>0, <1>c, <3>2, <3>3, <3>4 DEF Counts
  <2>2. CASE r # worker[w].request
    <3>1. Processing(r)' = Processing(r)
      BY <1>4, <2>2, SameProcessing DEF Claims
    <3>2. Begun(r)' = Begun(r)
      BY <1>4, <2>2 DEF Claims, Begun
    <3> QED BY <1>0, <1>4, <3>1, <3>2, CountStays DEF Claims
  <2> QED BY <2>1, <2>2
<1>5. ASSUME NEW w \in Workers, GoesOn(w) PROVE Counts(r)'
  <2>1. /\ Begun(r)' = Begun(r) /\ requeued'[r] = requeued[r]
        /\ OthersSame(w) /\ worker'[w].pc # "process"
        /\ worker[w].request \in Requests
    BY <1>0, <1>5, RowTyped DEF GoesOn, Begun, Working
  <2>2. CASE r = worker[w].request /\ worker[w].pc = "process"
    <3>1. Processing(r)' = Processing(r) \ {w} /\ w \in Processing(r)
      BY <2>1, <2>2, OneLess DEF Processing
    <3>2. /\ IsFiniteSet(Processing(r)')
          /\ Cardinality(Processing(r)') = Cardinality(Processing(r)) - 1
      BY <1>c, <3>1, FS_RemoveElement
    <3>3. effects'[r] = effects[r] \/ effects'[r] = effects[r] + 1
      BY <1>0, <1>5, <2>1, <2>2, EffectTyped DEF GoesOn
    <3>4. Begun(r) \in Nat
      BY DEF Begun
    <3> QED BY <1>0, <1>c, <2>1, <3>2, <3>3, <3>4 DEF Counts
  <2>3. CASE ~(r = worker[w].request /\ worker[w].pc = "process")
    <3>1. Processing(r)' = Processing(r)
      BY <2>1, <2>3, SameProcessing
    <3>2. effects'[r] = effects[r]
      BY <1>0, <1>5, <2>1, <2>3, EffectTyped DEF GoesOn
    <3> QED BY <1>0, <2>1, <3>1, <3>2, CountStays
  <2> QED BY <2>2, <2>3
<1>6. ASSUME NEW w \in Workers, Finishes(w) PROVE Counts(r)'
  <2>1. Processing(r)' = Processing(r)
    BY <1>6, SameProcessing DEF Finishes
  <2>2. Begun(r)' = Begun(r)
    <3>1. Outcome(w) # "PENDING"
      BY DEF Outcome
    <3>2. CASE r = worker[w].request
      BY <1>6, <3>1, <3>2 DEF Finishes, Begun
    <3>3. CASE r # worker[w].request
      BY <1>6, <3>3 DEF Finishes, Begun
    <3> QED BY <3>2, <3>3
  <2> QED BY <1>0, <1>6, <2>1, <2>2, CountStays DEF Finishes
<1>7. ASSUME NEW w \in Workers, LetsGo(w) PROVE Counts(r)'
  <2>1. /\ Begun(r)' = Begun(r) /\ requeued'[r] = requeued[r] /\ effects'[r] = effects[r]
        /\ OthersSame(w) /\ worker'[w].pc # "process" /\ Begun(r) \in Nat
    BY <1>7 DEF LetsGo, Begun
  <2>2. Processing(r)' = Processing(r) \ {w}
    BY <2>1, OneLess
  <2>3. /\ IsFiniteSet(Processing(r)')
        /\ \/ Cardinality(Processing(r)') = Cardinality(Processing(r))
           \/ Cardinality(Processing(r)') = Cardinality(Processing(r)) - 1
    BY <1>c, <2>2, FS_RemoveElement
  <2> QED BY <1>0, <1>c, <2>1, <2>3 DEF Counts
<1>8. ASSUME NEW w \in Workers, HandsOut(w) PROVE Counts(r)'
  <2>1. Processing(r)' = Processing(r) /\ effects'[r] = effects[r]
    BY <1>8, SameProcessing DEF HandsOut
  <2>2. CASE Begun(r)' = Begun(r) /\ requeued'[r] = requeued[r]
    BY <1>0, <2>1, <2>2, CountStays
  <2>3. CASE Begun(r) = 1 /\ Begun(r)' = 0 /\ requeued'[r] = requeued[r] + 1
    BY <1>0, <1>c, <2>1, <2>3 DEF Counts
  <2> QED BY <1>8, <2>2, <2>3 DEF HandsOut, Begun
<1> QED BY <1>1, <1>2, <1>3, <1>4, <1>5, <1>6, <1>7, <1>8, Zenon DEF Change

LEMMA InitCounted == Init => Counted
<1> SUFFICES ASSUME Init, NEW r \in Requests PROVE Counts(r)
  BY DEF Counted
<1>1. DOMAIN row = {} /\ worker = [w \in Workers |-> Idle]
      /\ effects[r] = 0 /\ requeued[r] = 0
  BY DEF Init
<1>2. Processing(r) = {}
  BY <1>1, RestTyped DEF Processing
<1>3. Begun(r) = 0
  BY <1>1 DEF Begun
<1> QED BY <1>1, <1>2, <1>3, FS_EmptySet DEF Counts

\* Who has acted, or is about to, was handed the command as often: a command that
\* acts twice was handed out twice.
THEOREM ActsOnceHolds == Spec => []ActsOncePerClaim
<1>1. Init => Typed /\ Counted
  BY InitTyped, InitCounted
<1>2. Typed /\ Counted /\ [Next]_vars => (Typed /\ Counted)'
  BY StepTyped, StepChanges, StepCounted
<1>3. Typed /\ Counted => ActsOncePerClaim
  <2> SUFFICES ASSUME Typed, Counted, NEW r \in Requests
               PROVE  effects[r] <= 1 + requeued[r]
    BY DEF ActsOncePerClaim
  <2>1. effects[r] \in Nat /\ requeued[r] \in Nat /\ Counts(r)
    BY ToldTyped DEF Typed, Counted
  <2>2. Cardinality(Processing(r)) \in Nat
    BY <2>1, FS_CardinalityType DEF Counts
  <2> QED BY <2>1, <2>2 DEF Counts, Begun
<1> QED BY <1>1, <1>2, <1>3, PTL DEF Spec

-----------------------------------------------------------------------------
(* One worker, until it is handed out again                                *)

\* A worker at a command that was handed out once finds its row as it left it.
Stage(w) ==
    worker[w].request # None /\ requeued[worker[w].request] = 0 =>
        /\ worker[w].pc \in Working => row[worker[w].request].status = "PROCESSING"
        /\ worker[w].pc = "publish" => row[worker[w].request].status # "PENDING"

Alone(v, w) ==
    v # w /\ worker[v].request = worker[w].request /\ worker[v].request # None
        => requeued[worker[v].request] > 0

Single ==
    /\ \A w \in Workers : Stage(w)
    /\ \A v, w \in Workers : Alone(v, w)

\* A worker that stays where it was keeps its stage unless its row was handed out.
LEMMA StageStays ==
  ASSUME NEW v \in Workers, Stage(v), worker'[v] = worker[v],
         worker[v].request # None =>
             \/ requeued'[worker[v].request] # 0
             \/ /\ requeued[worker[v].request] = 0
                /\ row'[worker[v].request].status = row[worker[v].request].status
  PROVE  Stage(v)'
BY DEF Stage

\* Two workers that stay where they were stay apart.
LEMMA AloneStays ==
  ASSUME NEW u \in Workers, NEW v \in Workers, Alone(u, v),
         worker'[u].request = worker[u].request,
         worker'[v].request = worker[v].request,
         worker[u].request # None =>
             (requeued[worker[u].request] > 0 => requeued'[worker[u].request] > 0)
  PROVE  Alone(u, v)'
BY DEF Alone

\* So do any two when one of them has nothing.
LEMMA AloneWithout ==
  ASSUME NEW u \in Workers, NEW v \in Workers,
         worker'[u].request = None \/ worker'[v].request = None
  PROVE  Alone(u, v)' /\ Alone(v, u)'
BY DEF Alone

LEMMA StepSingle ==
  ASSUME Typed, Single, Change
  PROVE  Single'
<1>0. /\ \A w \in Workers : Stage(w)
      /\ \A v, w \in Workers : Alone(v, w)
      /\ \A w \in Workers : worker[w].request # None =>
             worker[w].request \in DOMAIN row /\ worker[w].request \in Requests
      /\ \A w \in Workers :
             worker[w].request = None <=> worker[w].pc \in {"idle", "down"}
      /\ \A w \in Workers : worker[w].pc \in PC
      /\ requeued \in [Requests -> Nat]
      /\ TypeOK
  <2>1. \A w \in Workers :
             worker[w].request = None <=> worker[w].pc \in {"idle", "down"}
    BY DEF Typed, Held, Fits
  <2> QED BY <2>1, HasCommand, WorkerTyped, ToldTyped DEF Single, Typed
<1>1. CASE Outside
  <2>1. /\ \A q \in DOMAIN row : row'[q].status = row[q].status
        /\ worker' = worker /\ requeued' = requeued
    BY <1>1 DEF Outside
  <2>2. \A v \in Workers : Stage(v)'
    BY <1>0, <2>1, StageStays
  <2>3. \A u, v \in Workers : Alone(u, v)'
    BY <1>0, <2>1, AloneStays
  <2> QED BY <2>2, <2>3, Zenon DEF Single
<1>2. ASSUME NEW q \in Requests, Queued(q) PROVE Single'
  <2>1. /\ \A p \in DOMAIN row : row'[p] = row[p]
        /\ worker' = worker /\ requeued' = requeued
    BY <1>2 DEF Queued
  <2>2. \A v \in Workers : Stage(v)'
    BY <1>0, <2>1, StageStays
  <2>3. \A u, v \in Workers : Alone(u, v)'
    BY <1>0, <2>1, AloneStays
  <2> QED BY <2>2, <2>3, Zenon DEF Single
<1>3. ASSUME NEW w \in Workers, Locks(w) PROVE Single'
  <2> DEFINE r == worker'[w].request
  <2>1. /\ row[r].status = "PENDING"
        /\ \A v \in Workers : ~(worker[v].pc = "claim" /\ worker[v].request = r)
        /\ r \in DOMAIN row /\ r \in Requests
    <3>1. PICK i \in DOMAIN order : r = order[i] /\ Free(order[i])
      BY <1>3, Zenon DEF Locks, Claimable
    <3>2. r \in DOMAIN row
      BY <1>0, <3>1, Zenon DEF TypeOK, ToSet
    <3> QED BY <1>0, <3>1, <3>2, RowTyped, Zenon DEF Free, Waits, Locked
  <2>2. /\ worker'[w].pc = "claim" /\ row' = row /\ requeued' = requeued
        /\ \A v \in Workers : v # w => worker'[v] = worker[v]
    BY <1>3 DEF Locks, OthersSame
  <2>3. ASSUME NEW v \in Workers, v # w, worker[v].request = r
        PROVE  requeued[r] > 0
    <3>1. r # None
      BY <2>1, Atoms
    <3>2. worker[v].pc \in Working \/ worker[v].pc = "publish"
      BY <1>0, <2>1, <2>3, <3>1 DEF PC, Working
    <3>3. Stage(v)
      BY <1>0
    <3>4. requeued[r] # 0
      BY <2>1, <2>3, <3>1, <3>2, <3>3 DEF Stage
    <3>5. requeued[r] \in Nat
      BY <1>0, <2>1
    <3> HIDE DEF r
    <3> QED BY <3>4, <3>5
  <2>4. Stage(w)'
    BY <2>2 DEF Stage, Working
  <2>5. \A v \in Workers : v # w => Stage(v)'
    BY <1>0, <2>2, StageStays
  <2>6. ASSUME NEW u \in Workers, NEW v \in Workers PROVE Alone(u, v)'
    <3>1. CASE u = w /\ v # w
      BY <2>2, <2>3, <3>1 DEF Alone
    <3>2. CASE v = w /\ u # w
      BY <2>2, <2>3, <3>2 DEF Alone
    <3>3. CASE u # w /\ v # w
      BY <1>0, <2>2, <3>3, AloneStays
    <3>4. CASE u = v
      BY <3>4 DEF Alone
    <3> QED BY <3>1, <3>2, <3>3, <3>4
  <2> QED BY <2>4, <2>5, <2>6, Zenon DEF Single
<1>4. ASSUME NEW w \in Workers, Claims(w) \/ Finishes(w) PROVE Single'
  <2>1. /\ \A v \in Workers : worker'[v].request = worker[v].request
        /\ \A v \in Workers : v # w => worker'[v] = worker[v]
        /\ requeued' = requeued
        /\ \A q \in DOMAIN row : q # worker[w].request => row'[q] = row[q]
        /\ worker[w].request # None
    BY <1>0, <1>4 DEF Claims, Finishes, OthersSame
  <2>2. \A u, v \in Workers : Alone(u, v)'
    BY <1>0, <2>1, AloneStays
  <2>3. ASSUME NEW v \in Workers, v # w PROVE Stage(v)'
    <3>1. CASE worker[v].request = worker[w].request
      <4>1. requeued[worker[v].request] > 0
        BY <1>0, <2>1, <2>3, <3>1 DEF Alone
      <4> QED BY <1>0, <2>1, <2>3, <4>1, StageStays
    <3>2. CASE worker[v].request # worker[w].request
      BY <1>0, <2>1, <2>3, <3>2, StageStays
    <3> QED BY <3>1, <3>2
  <2>4. Stage(w)'
    <3>1. CASE Claims(w)
      BY <3>1 DEF Claims, Stage
    <3>2. CASE Finishes(w)
      <4>1. Stage(w) /\ worker[w].pc \in Working /\ Outcome(w) # "PENDING"
        BY <1>0, <3>2 DEF Finishes, Working, Outcome
      <4> QED BY <2>1, <3>2, <4>1 DEF Finishes, Stage, Working
    <3> QED BY <1>4, <3>1, <3>2
  <2> QED BY <2>2, <2>3, <2>4, Zenon DEF Single
<1>5. ASSUME NEW w \in Workers, GoesOn(w) PROVE Single'
  <2>1. /\ \A v \in Workers : worker'[v].request = worker[v].request
        /\ \A v \in Workers : v # w => worker'[v] = worker[v]
        /\ requeued' = requeued /\ row' = row
    BY <1>5 DEF GoesOn, OthersSame
  <2>2. \A u, v \in Workers : Alone(u, v)'
    BY <1>0, <2>1, AloneStays
  <2>3. \A v \in Workers : v # w => Stage(v)'
    BY <1>0, <2>1, StageStays
  <2>4. Stage(w)'
    <3>1. Stage(w) /\ worker[w].pc \in Working
      BY <1>0, <1>5 DEF GoesOn
    <3> QED BY <2>1, <3>1 DEF Stage
  <2> QED BY <2>2, <2>3, <2>4, Zenon DEF Single
<1>6. ASSUME NEW w \in Workers, LetsGo(w) PROVE Single'
  <2>1. /\ \A v \in Workers : v # w => worker'[v] = worker[v]
        /\ worker'[w].request = None
        /\ requeued' = requeued /\ row' = row
    BY <1>6 DEF LetsGo, OthersSame
  <2>2. \A u, v \in Workers : Alone(u, v)'
    BY <1>0, <2>1, AloneStays, AloneWithout
  <2>3. \A v \in Workers : v # w => Stage(v)'
    BY <1>0, <2>1, StageStays
  <2>4. Stage(w)'
    BY <2>1 DEF Stage
  <2> QED BY <2>2, <2>3, <2>4, Zenon DEF Single
<1>7. ASSUME NEW w \in Workers, HandsOut(w) PROVE Single'
  <2>1. /\ \A v \in Workers : v # w => worker'[v] = worker[v]
        /\ worker'[w].request = None
    BY <1>7 DEF HandsOut, OthersSame
  <2>2. \A r \in DOMAIN row :
            \/ row'[r] = row[r] /\ requeued'[r] = requeued[r]
            \/ requeued'[r] = requeued[r] + 1
    BY <1>7 DEF HandsOut
  <2>3. ASSUME NEW v \in Workers, worker[v].request # None
        PROVE  /\ requeued[worker[v].request] > 0 => requeued'[worker[v].request] > 0
               /\ \/ requeued'[worker[v].request] # 0
                  \/ /\ requeued[worker[v].request] = 0
                     /\ row'[worker[v].request].status = row[worker[v].request].status
    <3>1. worker[v].request \in DOMAIN row /\ requeued[worker[v].request] \in Nat
      BY <1>0, <2>3
    <3> QED BY <2>2, <3>1
  <2>4. \A u, v \in Workers : Alone(u, v)'
    BY <1>0, <2>1, <2>3, AloneStays, AloneWithout
  <2>5. \A v \in Workers : v # w => Stage(v)'
    BY <1>0, <2>1, <2>3, StageStays
  <2>6. Stage(w)'
    BY <2>1 DEF Stage
  <2> QED BY <2>4, <2>5, <2>6, Zenon DEF Single
<1> QED BY <1>1, <1>2, <1>3, <1>4, <1>5, <1>6, <1>7, Zenon DEF Change

LEMMA InitSingle == Init => Single
BY RestTyped DEF Init, Single, Stage, Alone

\* Two workers have one command only after it was handed out again.
THEOREM OneWorkerHolds == Spec => []OneWorkerPerCommand
<1>1. Init => Typed /\ Single
  BY InitTyped, InitSingle
<1>2. Typed /\ Single /\ [Next]_vars => (Typed /\ Single)'
  BY StepTyped, StepChanges, StepSingle
<1>3. Single => OneWorkerPerCommand
  BY Zenon DEF Single, Alone, OneWorkerPerCommand
<1> QED BY <1>1, <1>2, <1>3, PTL DEF Spec

-----------------------------------------------------------------------------
(* What is recorded and told                                               *)

Clean(r) == requeued[r] = 0 /\ r \notin hit

Recorded(ok) == IF ok THEN "COMPLETED" ELSE "FAILED"

\* What is told of r is in its row; so is what is about to be told; and a START
\* that acted is on its way to be recorded as done.
ToldTruth(r) ==
    \A ok \in BOOLEAN : <<r, ok>> \in told => row[r].status = Recorded(ok)

TellTruth(r) ==
    \A w \in Workers : worker[w].request = r /\ worker[w].pc = "publish"
        => row[r].status = Outcome(w)

ActedTruth(r) ==
    row[r].kind = "START" /\ effects[r] > 0 =>
        /\ row[r].status \notin {"FAILED", "PENDING"}
        /\ \A w \in Workers : worker[w].request = r =>
               worker[w].pc \in {"finish", "publish"} /\ worker[w].ok

True(r) ==
    r \in DOMAIN row /\ Clean(r) => ToldTruth(r) /\ TellTruth(r) /\ ActedTruth(r)

Truth == \A r \in Requests : True(r)

\* Nothing of r changes.
LEMMA TrueStays ==
  ASSUME NEW r \in Requests, True(r), r \in DOMAIN row,
         Clean(r)' => Clean(r),
         row'[r].status = row[r].status, row'[r].kind = row[r].kind,
         effects'[r] = effects[r],
         \A ok \in BOOLEAN : <<r, ok>> \in told' =>
             <<r, ok>> \in told \/ row[r].status = Recorded(ok),
         \A w \in Workers : worker'[w].request = r => worker'[w] = worker[w]
  PROVE  True(r)'
<1> SUFFICES ASSUME Clean(r) PROVE (ToldTruth(r) /\ TellTruth(r) /\ ActedTruth(r))'
  BY DEF True
<1>1. ToldTruth(r) /\ TellTruth(r) /\ ActedTruth(r)
  BY DEF True
<1>2. ToldTruth(r)'
  BY <1>1 DEF ToldTruth, Recorded
<1>3. TellTruth(r)'
  BY <1>1 DEF TellTruth, Outcome
<1>4. ActedTruth(r)'
  BY <1>1 DEF ActedTruth
<1> QED BY <1>2, <1>3, <1>4

LEMMA StepTruth ==
  ASSUME Typed, Counted, Single, Truth, Change
  PROVE  Truth'
<1> SUFFICES ASSUME NEW r \in Requests PROVE True(r)'
  BY DEF Truth
<1>0. /\ True(r) /\ effects[r] \in Nat /\ requeued[r] \in Nat /\ TypeOK
      /\ \A w \in Workers : worker[w].request # None =>
             worker[w].request \in DOMAIN row /\ worker[w].request \in Requests
      /\ \A w \in Workers :
             worker[w].request = None <=> worker[w].pc \in {"idle", "down"}
      /\ \A w \in Workers : worker[w].pc = "claim" =>
             row[worker[w].request].status = "PENDING"
      /\ \A w \in Workers : Stage(w)
      /\ \A v, w \in Workers : Alone(v, w)
      /\ r # None
  <2>1. \A w \in Workers :
             worker[w].request = None <=> worker[w].pc \in {"idle", "down"}
    BY DEF Typed, Held, Fits
  <2> QED BY <2>1, HasCommand, ToldTyped, Atoms DEF Single, Truth, Typed, Held, Fits
<1>1. CASE Outside
  <2>1. CASE r \in DOMAIN row
    BY <1>0, <1>1, <2>1, TrueStays DEF Outside, Clean
  <2>2. CASE r \notin DOMAIN row
    BY <1>1, <2>2 DEF Outside, True
  <2> QED BY <2>1, <2>2
<1>2. ASSUME NEW q \in Requests, Queued(q) PROVE True(r)'
  <2>1. CASE r = q
    <3> SUFFICES ASSUME Clean(r)
                 PROVE  (ToldTruth(r) /\ TellTruth(r) /\ ActedTruth(r))'
      BY <1>2 DEF True, Queued, Clean
    <3>1. r \notin DOMAIN row /\ told' = told /\ worker' = worker /\ effects' = effects
      BY <1>2, <2>1 DEF Queued
    <3>2. ToldTruth(r)'
      <4>1. ToldOf(told, DOMAIN row)
        BY DEF Typed, Held
      <4>2. \A ok \in BOOLEAN : <<r, ok>> \notin told
        BY <3>1, <4>1 DEF ToldOf
      <4> QED BY <3>1, <4>2 DEF ToldTruth
    <3>3. \A w \in Workers : worker'[w].request # r
      BY <1>0, <3>1
    <3>4. effects'[r] = 0
      <4>1. Counts(r) /\ Begun(r) = 0 /\ requeued[r] = 0
        BY <3>1 DEF Counted, Begun, Clean
      <4>2. Cardinality(Processing(r)) \in Nat
        BY <4>1, FS_CardinalityType DEF Counts
      <4> QED BY <1>0, <3>1, <4>1, <4>2 DEF Counts
    <3> QED BY <3>2, <3>3, <3>4 DEF TellTruth, ActedTruth
  <2>2. CASE r # q /\ r \in DOMAIN row
    BY <1>0, <1>2, <2>2, TrueStays DEF Queued, Clean
  <2>3. CASE r # q /\ r \notin DOMAIN row
    BY <1>2, <2>3 DEF Queued, True
  <2> QED BY <2>1, <2>2, <2>3
<1>3. ASSUME NEW w \in Workers, Locks(w) PROVE True(r)'
  <2>1. CASE worker'[w].request = r
    <3>1. row[r].status = "PENDING" /\ r \in DOMAIN row
      <4>1. PICK i \in DOMAIN order : r = order[i] /\ Free(order[i])
        BY <1>3, <2>1, Zenon DEF Locks, Claimable
      <4> QED BY <1>0, <4>1, Zenon DEF TypeOK, ToSet, Free, Waits
    <3>2. /\ row' = row /\ effects' = effects /\ told' = told
          /\ requeued' = requeued /\ hit' = hit /\ worker'[w].pc = "claim"
          /\ \A v \in Workers : v # w => worker'[v] = worker[v]
      BY <1>3 DEF Locks, OthersSame
    <3> SUFFICES ASSUME Clean(r)
                 PROVE  (ToldTruth(r) /\ TellTruth(r) /\ ActedTruth(r))'
      BY <3>2 DEF True, Clean
    <3>3. ToldTruth(r) /\ TellTruth(r) /\ ActedTruth(r)
      BY <1>0, <3>1 DEF True
    <3>4. ToldTruth(r)'
      BY <3>2, <3>3 DEF ToldTruth
    <3>5. TellTruth(r)'
      BY <3>2, <3>3 DEF TellTruth, Outcome
    <3>6. ActedTruth(r)'
      BY <3>1, <3>2, <3>3 DEF ActedTruth
    <3> QED BY <3>4, <3>5, <3>6
  <2>2. CASE worker'[w].request # r /\ r \in DOMAIN row
    BY <1>0, <1>3, <2>2, TrueStays DEF Locks, OthersSame, Clean
  <2>3. CASE r \notin DOMAIN row
    BY <1>3, <2>3 DEF Locks, True
  <2> QED BY <2>1, <2>2, <2>3
<1>4. ASSUME NEW w \in Workers, Claims(w) PROVE True(r)'
  <2>1. CASE worker[w].request = r
    <3>1. row[r].status = "PENDING" /\ r \in DOMAIN row
      BY <1>0, <1>4, <2>1 DEF Claims
    <3>2. /\ row'[r].status = "PROCESSING" /\ effects' = effects /\ told' = told
          /\ row'[r].kind = row[r].kind
          /\ requeued' = requeued /\ hit' = hit /\ worker'[w].pc = "process"
          /\ \A v \in Workers : v # w => worker'[v] = worker[v]
      BY <1>4, <2>1 DEF Claims, OthersSame
    <3> SUFFICES ASSUME Clean(r)
                 PROVE  (ToldTruth(r) /\ TellTruth(r) /\ ActedTruth(r))'
      BY <3>2 DEF True, Clean
    <3>3. ToldTruth(r) /\ TellTruth(r) /\ ActedTruth(r)
      BY <1>0, <3>1 DEF True
    <3>4. ToldTruth(r)'
      BY <3>1, <3>2, <3>3 DEF ToldTruth, Recorded
    <3>5. TellTruth(r)'
      BY <3>1, <3>2, <3>3 DEF TellTruth, Outcome
    <3>6. ActedTruth(r)'
      BY <3>1, <3>2, <3>3 DEF ActedTruth
    <3> QED BY <3>4, <3>5, <3>6
  <2>2. CASE worker[w].request # r /\ r \in DOMAIN row
    <3>1. row'[r] = row[r]
      BY <1>4, <2>2 DEF Claims
    <3> QED BY <1>0, <1>4, <2>2, <3>1, TrueStays DEF Claims, OthersSame, Clean
  <2>3. CASE r \notin DOMAIN row
    BY <1>4, <2>3 DEF Claims, True
  <2> QED BY <2>1, <2>2, <2>3
<1>5. ASSUME NEW w \in Workers, GoesOn(w) PROVE True(r)'
  <2>0. /\ row' = row /\ told' = told /\ requeued' = requeued /\ hit \subseteq hit'
        /\ worker[w].pc \in Working /\ worker'[w].request = worker[w].request
        /\ \A v \in Workers : v # w => worker'[v] = worker[v]
        /\ worker[w].request # None /\ worker[w].request \in Requests
    BY <1>0, <1>5 DEF GoesOn, OthersSame, Working
  <2>1. CASE worker[w].request = r
    <3> SUFFICES ASSUME r \in DOMAIN row, Clean(r), r \notin hit'
                 PROVE  (ToldTruth(r) /\ TellTruth(r) /\ ActedTruth(r))'
      BY <2>0 DEF True, Clean
    <3>1. ToldTruth(r) /\ TellTruth(r) /\ ActedTruth(r)
      BY <1>0 DEF True
    <3>2. \A v \in Workers : worker[v].request = r => v = w
      BY <1>0, <2>1 DEF Alone, Clean
    <3>3. worker[w].pc # "finish" /\ worker'[w].pc # "publish"
      BY <1>5, <2>1 DEF GoesOn
    <3>4. row[r].status = "PROCESSING"
      BY <1>0, <2>0, <2>1 DEF Stage, Clean
    <3>5. ToldTruth(r)'
      BY <2>0, <3>1 DEF ToldTruth
    <3>6. TellTruth(r)'
      BY <2>0, <3>1, <3>2, <3>3 DEF TellTruth
    <3>7. ActedTruth(r)'
      <4>1. CASE effects' = effects
        <5>1. ~(row[r].kind = "START" /\ effects[r] > 0)
          BY <2>0, <2>1, <3>1, <3>3 DEF ActedTruth, Working
        <5> QED BY <2>0, <4>1, <5>1 DEF ActedTruth
      <4>2. CASE row[r].kind = "START" => worker'[w].pc = "finish" /\ worker'[w].ok
        BY <2>0, <3>2, <3>4, <4>2 DEF ActedTruth
      <4> QED BY <1>5, <2>1, <4>1, <4>2 DEF GoesOn
    <3> QED BY <3>5, <3>6, <3>7
  <2>2. CASE worker[w].request # r /\ r \in DOMAIN row
    <3>1. effects'[r] = effects[r]
      <4>1. CASE effects' = effects
        BY <4>1
      <4>2. CASE Effect(w)
        BY <1>0, <2>0, <2>2, <4>2, EffectTyped
      <4> QED BY <1>5, <4>1, <4>2 DEF GoesOn
    <3>2. Clean(r)' => Clean(r)
      BY <2>0 DEF Clean
    <3>3. \A v \in Workers : worker'[v].request = r => worker'[v] = worker[v]
      BY <2>0, <2>2
    <3> QED BY <1>0, <2>0, <2>2, <3>1, <3>2, <3>3, TrueStays
  <2>3. CASE r \notin DOMAIN row
    BY <2>0, <2>3 DEF True
  <2> QED BY <2>1, <2>2, <2>3
<1>6. ASSUME NEW w \in Workers, Finishes(w) PROVE True(r)'
  <2>0. /\ DOMAIN row' = DOMAIN row /\ told' = told /\ requeued' = requeued /\ hit' = hit
        /\ effects' = effects
        /\ worker[w].pc = "finish" /\ worker'[w].request = worker[w].request
        /\ worker'[w].pc = "publish" /\ worker'[w].ok = worker[w].ok
        /\ \A v \in Workers : v # w => worker'[v] = worker[v]
        /\ worker[w].request # None
    BY <1>0, <1>6 DEF Finishes, OthersSame
  <2>1. CASE worker[w].request = r
    <3> SUFFICES ASSUME r \in DOMAIN row, Clean(r)
                 PROVE  (ToldTruth(r) /\ TellTruth(r) /\ ActedTruth(r))'
      BY <2>0 DEF True, Clean
    <3>1. ToldTruth(r) /\ TellTruth(r) /\ ActedTruth(r)
      BY <1>0 DEF True
    <3>2. \A v \in Workers : worker[v].request = r => v = w
      BY <1>0, <2>1 DEF Alone, Clean
    <3>3. row[r].status = "PROCESSING"
      BY <1>0, <2>0, <2>1 DEF Stage, Clean, Working
    <3>4. row'[r].status = Outcome(w) /\ row'[r].kind = row[r].kind
      BY <1>6, <2>1, <3>3 DEF Finishes
    <3>5. ToldTruth(r)'
      BY <2>0, <3>1, <3>3 DEF ToldTruth, Recorded
    <3>6. TellTruth(r)'
      BY <2>0, <3>2, <3>4 DEF TellTruth, Outcome
    <3>7. ActedTruth(r)'
      <4>1. row[r].kind = "START" /\ effects[r] > 0 => worker[w].ok
        BY <2>1, <3>1 DEF ActedTruth
      <4> QED BY <2>0, <3>2, <3>4, <4>1 DEF ActedTruth, Outcome
    <3> QED BY <3>5, <3>6, <3>7
  <2>2. CASE worker[w].request # r /\ r \in DOMAIN row
    <3>1. row'[r] = row[r]
      BY <1>6, <2>2 DEF Finishes
    <3>2. Clean(r)' => Clean(r)
      BY <2>0 DEF Clean
    <3>3. \A v \in Workers : worker'[v].request = r => worker'[v] = worker[v]
      BY <2>0, <2>2
    <3> QED BY <1>0, <2>0, <2>2, <3>1, <3>2, <3>3, TrueStays
  <2>3. CASE r \notin DOMAIN row
    BY <2>0, <2>3 DEF True
  <2> QED BY <2>1, <2>2, <2>3
<1>7. ASSUME NEW w \in Workers, LetsGo(w) PROVE True(r)'
  <2>0. /\ row' = row /\ requeued' = requeued /\ hit \subseteq hit' /\ effects' = effects
        /\ worker'[w].request = None
        /\ \A v \in Workers : v # w => worker'[v] = worker[v]
    BY <1>7 DEF LetsGo, OthersSame
  <2>1. CASE r \in DOMAIN row
    <3> SUFFICES ASSUME Clean(r) PROVE True(r)'
      BY <2>0 DEF True, Clean
    <3>1. TellTruth(r)
      BY <1>0, <2>1 DEF True
    <3>2. ASSUME NEW ok \in BOOLEAN, <<r, ok>> \in told', <<r, ok>> \notin told
          PROVE  row[r].status = Recorded(ok)
      <4>1. worker[w].pc = "publish" /\ <<r, ok>> = <<worker[w].request, worker[w].ok>>
        BY <1>7, <3>2 DEF LetsGo
      <4>2. worker[w].request = r /\ worker[w].ok = ok
        BY <4>1
      <4> QED BY <3>1, <4>1, <4>2 DEF TellTruth, Outcome, Recorded
    <3>3. \A v \in Workers : worker'[v].request = r => worker'[v] = worker[v]
      BY <1>0, <2>0
    <3> QED BY <1>0, <2>0, <2>1, <3>2, <3>3, TrueStays
  <2>2. CASE r \notin DOMAIN row
    BY <2>0, <2>2 DEF True
  <2> QED BY <2>1, <2>2
<1>8. ASSUME NEW w \in Workers, HandsOut(w) PROVE True(r)'
  <2>0. /\ DOMAIN row' = DOMAIN row /\ told' = told /\ hit' = hit /\ effects' = effects
        /\ worker'[w].request = None
        /\ \A v \in Workers : v # w => worker'[v] = worker[v]
    BY <1>8 DEF HandsOut, OthersSame
  <2>1. CASE r \in DOMAIN row
    <3>1. \/ row'[r] = row[r] /\ requeued'[r] = requeued[r]
          \/ requeued'[r] = requeued[r] + 1
      BY <1>8, <2>1 DEF HandsOut
    <3>2. CASE row'[r] = row[r] /\ requeued'[r] = requeued[r]
      <4>1. Clean(r)' => Clean(r)
        BY <2>0, <3>2 DEF Clean
      <4>2. \A v \in Workers : worker'[v].request = r => worker'[v] = worker[v]
        BY <1>0, <2>0
      <4> QED BY <1>0, <2>0, <2>1, <3>2, <4>1, <4>2, TrueStays
    <3>3. CASE requeued'[r] = requeued[r] + 1
      <4>1. requeued'[r] # 0
        BY <1>0, <3>3
      <4> QED BY <4>1 DEF True, Clean
    <3> QED BY <3>1, <3>2, <3>3
  <2>2. CASE r \notin DOMAIN row
    BY <2>0, <2>2 DEF True
  <2> QED BY <2>1, <2>2
<1> QED BY <1>1, <1>2, <1>3, <1>4, <1>5, <1>6, <1>7, <1>8, Zenon DEF Change

LEMMA InitTruth == Init => Truth
BY DEF Init, Truth, True

\* Everything that is known of commands.
Known == Typed /\ Counted /\ Single /\ Truth

LEMMA InitKnown == Init => Known
BY InitTyped, InitCounted, InitSingle, InitTruth DEF Known

LEMMA StepKnown == Known /\ [Next]_vars => Known'
BY StepTyped, StepChanges, StepCounted, StepSingle, StepTruth DEF Known

\* What the browser is told is what the row records.
THEOREM ToldHolds == Spec => []ToldWhatIsRecorded
<1>1. Known => ToldWhatIsRecorded
  <2>1. Known => \A r \in DOMAIN row : r \in Requests /\ True(r)
    BY RowTyped DEF Known, Typed, Truth
  <2> QED BY <2>1 DEF True, Clean, ToldTruth, Recorded, ToldWhatIsRecorded
<1> QED BY <1>1, InitKnown, StepKnown, PTL DEF Spec

\* A START recorded as failed has started nothing.
THEOREM FailedStartHolds == Spec => []FailedStartIsIdle
<1>1. Known => FailedStartIsIdle
  <2> SUFFICES ASSUME Known, NEW r \in DOMAIN row, row[r].kind = "START",
                      row[r].status = "FAILED", effects[r] > 0,
                      ~(requeued[r] > 0), r \notin hit
               PROVE  FALSE
    BY DEF FailedStartIsIdle
  <2>1. r \in Requests /\ True(r) /\ requeued[r] \in Nat
    BY RowTyped, ToldTyped DEF Known, Typed, Truth
  <2>2. Clean(r)
    BY <2>1 DEF Clean
  <2> QED BY <2>1, <2>2 DEF True, ActedTruth
<1> QED BY <1>1, InitKnown, StepKnown, PTL DEF Spec

\* A change leaves what is recorded.
LEMMA ChangeKeepsResults ==
  ASSUME Typed, Change, NEW r \in DOMAIN row, row[r].status \in Finished
  PROVE  row'[r] = row[r]
<1>0. row[r].status \notin {"PENDING", "PROCESSING"}
  BY DEF Finished
<1>1. CASE Outside
  BY <1>1 DEF Outside
<1>2. ASSUME NEW q \in Requests, Queued(q) PROVE row'[r] = row[r]
  BY <1>2 DEF Queued
<1>3. ASSUME NEW w \in Workers, Locks(w) \/ GoesOn(w) \/ LetsGo(w) PROVE row'[r] = row[r]
  BY <1>3 DEF Locks, GoesOn, LetsGo
<1>4. ASSUME NEW w \in Workers, Claims(w) PROVE row'[r] = row[r]
  <2>1. row[worker[w].request].status = "PENDING"
    BY <1>4 DEF Claims, Typed, Held, Fits
  <2> QED BY <1>0, <1>4, <2>1 DEF Claims
<1>5. ASSUME NEW w \in Workers, Finishes(w) PROVE row'[r] = row[r]
  BY <1>0, <1>5 DEF Finishes
<1>6. ASSUME NEW w \in Workers, HandsOut(w) PROVE row'[r] = row[r]
  BY <1>0, <1>6 DEF HandsOut
<1> QED BY <1>1, <1>2, <1>3, <1>4, <1>5, <1>6, Zenon DEF Change

\* A command once recorded keeps what is recorded of it.
THEOREM ResultHolds == Spec => ResultIsFinal
<1>1. Typed /\ [Next]_vars
      => [\A r \in DOMAIN row : row[r].status \in Finished => row'[r] = row[r]]_vars
  BY StepChanges, ChangeKeepsResults, Zenon
<1> QED BY <1>1, InitTyped, StepTyped, PTL DEF Spec, ResultIsFinal

-----------------------------------------------------------------------------
(* The order of the queue                                                  *)

Exempt(r) == requeued[r] > 0 \/ r \in hit \/ again[r] # "never"

Claimed(r) == \E w \in Workers : worker[w].pc = "claim" /\ worker[w].request = r

\* A pending row no worker claims.  It is free, or was sent a second time.
Left(r) == Waits(r) /\ ~Claimed(r)

\* Nothing that is left stands before what is not, but what was handed out again,
\* rolled back or sent again: a worker locks the first that is free.
Ordered ==
    \A i, j \in DOMAIN order :
        i < j /\ Left(order[i]) /\ ~Left(order[j]) => Exempt(order[i])

\* A step under which rows become left only with an excuse, and stay left.
LEMMA OrderStays ==
  ASSUME TypeOK, Ordered, order' = order,
         \A r \in DOMAIN row : Left(r)' => Left(r) \/ Exempt(r)',
         \A r \in DOMAIN row : Left(r) => Left(r)',
         \A r \in DOMAIN row : Exempt(r) => Exempt(r)'
  PROVE  Ordered'
<1> SUFFICES ASSUME NEW i \in DOMAIN order, NEW j \in DOMAIN order, i < j,
                    Left(order[i])', ~Left(order[j])'
             PROVE  Exempt(order[i])'
  BY DEF Ordered
<1>1. order[i] \in DOMAIN row /\ order[j] \in DOMAIN row
  BY Zenon DEF TypeOK, ToSet
<1>2. CASE Exempt(order[i])'
  BY <1>2
<1>3. CASE Left(order[i])
  BY <1>1, <1>3 DEF Ordered
<1> QED BY <1>1, <1>2, <1>3

\* Whether r is left is told by its row and by who claims it.
LEMMA LeftStays ==
  ASSUME NEW r, NEW w \in Workers, OthersSame(w),
         ~(worker[w].pc = "claim" /\ worker[w].request = r),
         ~(worker'[w].pc = "claim" /\ worker'[w].request = r),
         row[r].status = "PENDING" <=> row'[r].status = "PENDING"
  PROVE  Left(r)' <=> Left(r)
<1>1. \A v \in Workers : v = w \/ worker'[v] = worker[v]
  BY Zenon DEF OthersSame
<1>2. (\E v \in Workers : worker'[v].pc = "claim" /\ worker'[v].request = r)
      <=> \E v \in Workers : worker[v].pc = "claim" /\ worker[v].request = r
  BY <1>1
<1> QED BY <1>2 DEF Left, Waits, Claimed

LEMMA StepOrdered ==
  ASSUME Typed, Ordered, Change
  PROVE  Ordered'
<1>0. /\ TypeOK /\ requeued \in [Requests -> Nat]
      /\ \A r \in DOMAIN row : r \in Requests /\ requeued[r] \in Nat
      /\ \A w \in Workers : worker[w].pc = "claim" =>
             row[worker[w].request].status = "PENDING"
      /\ \A w \in Workers : worker[w].pc \notin {"idle", "down"} =>
             worker[w].request \in DOMAIN row
  BY ToldTyped, RowTyped, HasCommand DEF Typed, Held, Fits
<1>1. CASE Outside
  <2>1. \A r \in DOMAIN row : Left(r)' <=> Left(r)
    BY <1>1 DEF Outside, Left, Waits, Claimed
  <2> QED BY <1>0, <1>1, <2>1, OrderStays DEF Outside, Exempt
<1>2. ASSUME NEW q \in Requests, Queued(q) PROVE Ordered'
  <2>1. /\ order \in Seq(Requests) /\ order' = Append(order, q) /\ q \notin DOMAIN row
        /\ worker' = worker /\ requeued' = requeued /\ hit' = hit /\ again' = again
        /\ \A r \in DOMAIN row : row'[r] = row[r]
        /\ row'[q].status = "PENDING"
    BY <1>0, <1>2 DEF Queued, TypeOK
  <2>2. /\ \A i \in 1..Len(order) : order'[i] = order[i]
        /\ order'[Len(order) + 1] = q /\ Len(order) \in Nat
        /\ DOMAIN order = 1..Len(order) /\ DOMAIN order' = 1..(Len(order) + 1)
    BY <2>1, AppendProperties
  <2>3. \A r \in DOMAIN row : Left(r)' <=> Left(r)
    BY <2>1 DEF Left, Waits, Claimed
  <2>4. Left(q)'
    BY <1>0, <2>1 DEF Left, Waits, Claimed
  <2> SUFFICES ASSUME NEW i \in 1..(Len(order) + 1), NEW j \in 1..(Len(order) + 1), i < j,
                      NEW a, NEW b, a = order'[i], b = order'[j],
                      Left(a)', ~Left(b)'
               PROVE  Exempt(a)'
    BY <2>2 DEF Ordered, Left, Waits, Claimed, Exempt
  <2>5. i \in 1..Len(order)
    BY <2>2
  <2>6. j \in 1..Len(order)
    <3>1. CASE j = Len(order) + 1
      <4>1. b = q
        BY <2>2, <3>1
      <4> QED BY <2>4, <4>1 DEF Left, Waits, Claimed
    <3> QED BY <2>2, <3>1
  <2>7. a = order[i] /\ b = order[j] /\ a \in DOMAIN row /\ b \in DOMAIN row
    BY <1>0, <2>2, <2>5, <2>6, Zenon DEF TypeOK, ToSet
  <2>8. Left(a) /\ ~Left(b)
    BY <2>3, <2>7
  <2>9. Exempt(a)
    BY <2>2, <2>5, <2>6, <2>7, <2>8 DEF Ordered
  <2> QED BY <2>1, <2>9 DEF Exempt
<1>3. ASSUME NEW w \in Workers, Locks(w) PROVE Ordered'
  <2>1. PICK n \in DOMAIN order :
             /\ worker'[w].request = order[n]
             /\ \A k \in 1..(n - 1) : ~Free(order[k])
    BY <1>3, Zenon DEF Locks, Claimable
  <2>2. PICK r \in DOMAIN row : r = order[n]
    BY <1>0, Zenon DEF TypeOK, ToSet
  <2>3. /\ order' = order /\ row' = row /\ requeued' = requeued /\ hit' = hit
        /\ again' = again
        /\ worker[w].pc = "idle" /\ OthersSame(w) /\ worker'[w].pc = "claim"
        /\ worker'[w].request = r
    BY <1>3, <2>1, <2>2 DEF Locks
  <2>4. \A q \in DOMAIN row : q # r => (Left(q)' <=> Left(q))
    BY <2>3, LeftStays
  <2>5. ~Left(r)'
    BY <2>3 DEF Left, Claimed
  <2>6. order \in Seq(Requests) /\ IsInjective(order) /\ ToSet(order) = DOMAIN row
    BY <1>0 DEF TypeOK
  <2> SUFFICES ASSUME NEW i \in DOMAIN order, NEW j \in DOMAIN order, i < j,
                      NEW a, NEW b, a = order[i], b = order[j],
                      Left(a)', ~Left(b)'
               PROVE  Exempt(a)
    BY <2>3 DEF Ordered, Left, Waits, Claimed, Exempt
  <2>7. a \in DOMAIN row /\ b \in DOMAIN row
    BY <2>6, Zenon DEF ToSet
  <2>8. Left(a)
    BY <2>4, <2>5, <2>7
  <2>9. CASE b # r
    <3>1. ~Left(b)
      BY <2>4, <2>7, <2>9
    <3> QED BY <2>8, <3>1 DEF Ordered
  <2>10. CASE b = r
    <3>1. n = j
      BY <2>2, <2>6, <2>10, Zenon DEF IsInjective
    <3>2. i \in 1..(n - 1)
      BY <2>6, <3>1
    <3>3. ~Free(a)
      BY <2>1, <3>2
    <3>4. again[a] = "held"
      BY <2>8, <3>3 DEF Free, Locked, Left, Claimed
    <3> QED BY <3>4 DEF Exempt
  <2> QED BY <2>9, <2>10
<1>4. ASSUME NEW w \in Workers, Claims(w) PROVE Ordered'
  <2>1. /\ order' = order /\ requeued' = requeued /\ hit' = hit /\ again' = again
        /\ worker[w].pc = "claim" /\ OthersSame(w) /\ worker'[w].pc # "claim"
        /\ row'[worker[w].request].status # "PENDING"
        /\ \A r \in DOMAIN row : r # worker[w].request => row'[r] = row[r]
    BY <1>4 DEF Claims
  <2>2. ASSUME NEW r \in DOMAIN row PROVE Left(r)' <=> Left(r)
    <3>1. CASE r = worker[w].request
      BY <2>1, <3>1 DEF Left, Claimed, Waits
    <3>2. CASE r # worker[w].request
      BY <2>1, <3>2, LeftStays
    <3> QED BY <3>1, <3>2
  <2> QED BY <1>0, <2>1, <2>2, OrderStays DEF Exempt
<1>5. ASSUME NEW w \in Workers, GoesOn(w) \/ Finishes(w) PROVE Ordered'
  <2>1. /\ order' = order /\ requeued' = requeued /\ hit \subseteq hit' /\ again' = again
        /\ worker[w].pc # "claim" /\ OthersSame(w) /\ worker'[w].pc # "claim"
        /\ \A r \in DOMAIN row : row[r].status = "PENDING" <=> row'[r].status = "PENDING"
    <3>1. CASE GoesOn(w)
      BY <3>1 DEF GoesOn, Working
    <3>2. CASE Finishes(w)
      <4>1. Outcome(w) # "PENDING"
        BY DEF Outcome
      <4>2. ASSUME NEW r \in DOMAIN row
            PROVE  row[r].status = "PENDING" <=> row'[r].status = "PENDING"
        <5>1. CASE r = worker[w].request
          BY <3>2, <4>1, <5>1 DEF Finishes
        <5>2. CASE r # worker[w].request
          BY <3>2, <5>2 DEF Finishes
        <5> QED BY <5>1, <5>2
      <4> QED BY <3>2, <4>2 DEF Finishes
    <3> QED BY <1>5, <3>1, <3>2
  <2>2. \A r \in DOMAIN row : Left(r)' <=> Left(r)
    BY <2>1, LeftStays
  <2> QED BY <1>0, <2>1, <2>2, OrderStays DEF Exempt
<1>6. ASSUME NEW w \in Workers, LetsGo(w) PROVE Ordered'
  <2>1. /\ order' = order /\ requeued' = requeued /\ hit \subseteq hit' /\ row' = row
        /\ again' = again
        /\ worker[w].pc = "claim" => worker[w].request \in hit'
        /\ OthersSame(w) /\ worker'[w].pc # "claim"
    BY <1>6 DEF LetsGo
  <2>2. ASSUME NEW r \in DOMAIN row
        PROVE  /\ Left(r)' => Left(r) \/ Exempt(r)'
               /\ Left(r) => Left(r)'
    <3>1. CASE worker[w].pc = "claim" /\ worker[w].request = r
      BY <2>1, <3>1 DEF Left, Claimed, Exempt
    <3>2. CASE ~(worker[w].pc = "claim" /\ worker[w].request = r)
      BY <2>1, <3>2, LeftStays
    <3> QED BY <3>1, <3>2
  <2> QED BY <1>0, <2>1, <2>2, OrderStays DEF Exempt
<1>7. ASSUME NEW w \in Workers, HandsOut(w) PROVE Ordered'
  <2>1. /\ order' = order /\ hit' = hit /\ again' = again
        /\ worker[w].pc # "claim" /\ OthersSame(w) /\ worker'[w].pc # "claim"
        /\ \A r \in DOMAIN row :
              \/ row'[r] = row[r] /\ requeued'[r] = requeued[r]
              \/ /\ row[r].status = "PROCESSING" /\ row'[r].status = "PENDING"
                 /\ requeued'[r] = requeued[r] + 1
    BY <1>7 DEF HandsOut
  <2>2. ASSUME NEW r \in DOMAIN row
        PROVE  /\ Left(r)' => Left(r) \/ Exempt(r)'
               /\ Left(r) => Left(r)'
               /\ Exempt(r) => Exempt(r)'
    <3>1. CASE row'[r] = row[r] /\ requeued'[r] = requeued[r]
      <4>1. Left(r)' <=> Left(r)
        BY <2>1, <3>1, LeftStays
      <4> QED BY <2>1, <3>1, <4>1 DEF Exempt
    <3>2. CASE row[r].status = "PROCESSING" /\ requeued'[r] = requeued[r] + 1
      <4>1. requeued'[r] > 0
        BY <1>0, <3>2
      <4> QED BY <3>2, <4>1 DEF Exempt, Left, Waits
    <3> QED BY <2>1, <3>1, <3>2
  <2> QED BY <1>0, <2>1, <2>2, OrderStays
<1> QED BY <1>1, <1>2, <1>3, <1>4, <1>5, <1>6, <1>7, Zenon DEF Change

LEMMA InitOrdered == Init => Ordered
<1> SUFFICES ASSUME Init PROVE Ordered
  OBVIOUS
<1>1. DOMAIN order = {}
  BY EmptySeq DEF Init
<1> QED BY <1>1 DEF Ordered

\* Commands are begun in the order they were queued, but what was handed out
\* again, rolled back or sent again.
THEOREM QueueOrderHolds == Spec => []QueueOrderKept
<1>1. Init => Typed /\ Ordered
  BY InitTyped, InitOrdered
<1>2. Typed /\ Ordered /\ [Next]_vars => (Typed /\ Ordered)'
  BY StepTyped, StepChanges, StepOrdered
<1>3. Ordered => QueueOrderKept
  BY DEF Ordered, QueueOrderKept, Exempt, Free, Locked, Left, Claimed
<1> QED BY <1>1, <1>2, <1>3, PTL DEF Spec

-----------------------------------------------------------------------------
(* What the queue and the engine tell the user are events: they reach the  *)
(* user's pages through EventFeed, whose module is instantiated here with  *)
(* constants and variables of its own.                                     *)

CONSTANTS Browsers, Resuming, Capacity, Limit, MaxEvents, MaxBreaks, MaxOutages
VARIABLES inserted, open, table, listening, notices, stream, channel, lastId,
          seen, breaks, outages, excused

Feed == INSTANCE EventFeed

\* What FeedAssumption says.
FeedBounds ==
    /\ Resuming \subseteq Browsers
    /\ {Capacity, Limit, MaxEvents} \subseteq Nat \ {0}
    /\ {MaxBreaks, MaxOutages} \subseteq Nat

\* The types, with what TypeOK leaves open: each is a function of the browsers.
FeedTyped ==
    /\ Feed!TypeOK
    /\ channel \in [Browsers -> Seq(table)]
    /\ lastId \in [Browsers -> Nat]
    /\ seen \in [Browsers -> SUBSET table] /\ excused \in [Browsers -> SUBSET table]

\* Counting is the same in the module of the events.
LEMMA SameCardinality ==
  ASSUME NEW s
  PROVE  Feed!Cardinality(s) = Cardinality(s)
  BY DEF Feed!Cardinality, Cardinality

\* A sequence over a set is one over a larger set.
LEMMA SeqGrows ==
  ASSUME NEW S, NEW T, S \subseteq T, NEW s \in Seq(S)
  PROVE  s \in Seq(T)
  OBVIOUS

\* What Append and Tail return, element by element.
LEMMA SeqAppend ==
  ASSUME NEW S, NEW s \in Seq(S), NEW x \in S
  PROVE  /\ Append(s, x) \in Seq(S) /\ Len(Append(s, x)) = Len(s) + 1
         /\ \A i \in 1..Len(s) : Append(s, x)[i] = s[i]
         /\ Append(s, x)[Len(s) + 1] = x
  OBVIOUS

\* The first of a sequence and the rest.
LEMMA SeqTail ==
  ASSUME NEW S, NEW s \in Seq(S), s # <<>>
  PROVE  /\ Head(s) \in S /\ Head(s) = s[1]
         /\ Tail(s) \in Seq(S) /\ Len(Tail(s)) = Len(s) - 1 /\ Len(s) \in Nat \ {0}
         /\ \A i \in 1..(Len(s) - 1) : Tail(s)[i] = s[i + 1]
  OBVIOUS

\* A bounded set of numbers that is not empty has a greatest.
LEMMA MaxIsIn ==
  ASSUME NEW ids \in SUBSET Nat, NEW n \in Nat, \A id \in ids : id <= n, ids # {}
  PROVE  Feed!Max(ids) \in ids /\ \A id \in ids : id <= Feed!Max(ids)
<1> DEFINE From == {n - id : id \in ids}
           Less == OpToRel(<, Nat)
<1>1. From # {} /\ From \subseteq Nat
  <2>1. PICK id \in ids : TRUE
    OBVIOUS
  <2>2. n - id \in From
    BY <2>1
  <2>3. \A id2 \in ids : n - id2 \in Nat
    OBVIOUS
  <2> QED BY <2>2, <2>3
<1>2. IsWellFoundedOn(Less, Nat)
  BY NatLessThanWellFounded
<1>3. \A i, j \in Nat : i < j => <<i, j>> \in Less
  BY DEF OpToRel
<1> HIDE DEF Less
<1>4. PICK m \in From : \A k \in From : <<k, m>> \notin Less
  <2> HIDE DEF From
  <2> QED BY <1>1, <1>2, WFMin
<1>5. \A k \in From : m <= k
  <2> HIDE DEF From
  <2>1. \A k \in From : k \in Nat /\ m \in Nat /\ ~(k < m)
    BY <1>1, <1>3, <1>4
  <2> QED BY <2>1
<1>6. PICK top \in ids : m = n - top
  OBVIOUS
<1>7. \A id \in ids : top >= id
  BY <1>5, <1>6
<1> QED
  BY <1>7 DEF Feed!Max

\* The first rows of a result are all its rows up to some id.
LEMMA FirstOfIsInitial ==
  ASSUME NEW ids, IsFiniteSet(ids), ids \subseteq Nat, NEW n \in Nat,
         NEW later \in Feed!FirstOf(ids, n), NEW id \in ids, id < later
  PROVE  id \in Feed!FirstOf(ids, n)
<1> DEFINE Below(e) == {d \in ids : d < e}
<1>1. \A e \in ids : e \in Feed!FirstOf(ids, n) <=> Cardinality(Below(e)) < n
  BY SameCardinality DEF Feed!FirstOf
<1>2. later \in ids
  BY DEF Feed!FirstOf
<1>3. IsFiniteSet(Below(later)) /\ IsFiniteSet(Below(id))
  BY FS_Subset
<1>4. Below(id) \in SUBSET Below(later)
  <2>1. \A d \in ids : d < id => d < later
    BY <1>2
  <2> QED BY <2>1
<1>5. Cardinality(Below(id)) <= Cardinality(Below(later))
  BY <1>3, <1>4, FS_Subset
<1>6. Cardinality(Below(id)) \in Nat /\ Cardinality(Below(later)) \in Nat
  BY <1>3, FS_CardinalityType
<1> HIDE DEF Below
<1>7. Cardinality(Below(id)) < n
  BY <1>1, <1>2, <1>5, <1>6
<1> QED
  BY <1>1, <1>7

\* The ids of the table are finitely many numbers.
LEMMA TableIsNumbers ==
  ASSUME FeedBounds, FeedTyped
  PROVE  /\ table \subseteq Nat /\ IsFiniteSet(table)
         /\ inserted \in Nat /\ open \subseteq Nat
<1>0. MaxEvents \in Nat
  BY DEF FeedBounds
<1>1. table \subseteq 1..inserted /\ inserted \in Nat /\ open \subseteq 1..inserted
  BY <1>0 DEF FeedTyped, Feed!TypeOK
<1>2. IsFiniteSet(1..inserted)
  BY <1>1, FS_Interval
<1>3. IsFiniteSet(table)
  BY <1>1, <1>2, FS_Subset
<1> QED BY <1>1, <1>3

\* What a browser receives is in the table.
LEMMA ReceiveTyped ==
  ASSUME FeedBounds, FeedTyped, table \subseteq Nat, NEW b \in Browsers, NEW ids \in SUBSET table,
         Feed!Receive(b, ids)
  PROVE  /\ seen' = [seen EXCEPT ![b] = @ \cup ids]
         /\ seen' \in [Browsers -> SUBSET table]
         /\ lastId' \in [Browsers -> Nat]
         /\ \A a \in Browsers : lastId'[a] \in seen'[a] \cup {0}
         /\ \A a \in Browsers \ {b} : lastId'[a] = lastId[a] /\ seen'[a] = seen[a]
         /\ lastId'[b] \in ids \cup {lastId[b]}
<1>1. seen' = [seen EXCEPT ![b] = @ \cup ids] /\ seen' \in [Browsers -> SUBSET table]
  BY DEF Feed!Receive, FeedTyped
<1> DEFINE last == IF ids = {} THEN lastId[b] ELSE Feed!Max(ids)
<1>2. last \in ids \cup {lastId[b]}
  <2>1. CASE ids = {}
    BY <2>1
  <2>2. CASE ids # {}
    <3>1. inserted \in Nat /\ table \subseteq 1..inserted
      BY TableIsNumbers DEF FeedTyped, Feed!TypeOK
    <3>2. ids \in SUBSET Nat /\ \A id \in ids : id <= inserted
      BY <3>1
    <3>3. Feed!Max(ids) \in ids
      BY <2>2, <3>1, <3>2, MaxIsIn
    <3> QED BY <2>2, <3>3
  <2> QED BY <2>1, <2>2
<1>3. lastId' = [lastId EXCEPT ![b] = last]
  BY DEF Feed!Receive
<1> HIDE DEF last
<1>4. last \in Nat /\ lastId \in [Browsers -> Nat]
  BY <1>2 DEF FeedTyped
<1>5. lastId' \in [Browsers -> Nat] /\ lastId'[b] = last
      /\ \A a \in Browsers \ {b} : lastId'[a] = lastId[a]
  BY <1>3, <1>4
<1>6. seen'[b] = seen[b] \cup ids /\ \A a \in Browsers \ {b} : seen'[a] = seen[a]
  BY <1>1 DEF FeedTyped
<1>7. \A a \in Browsers : lastId[a] \in seen[a] \cup {0}
  BY DEF FeedTyped, Feed!TypeOK
<1> QED BY <1>1, <1>2, <1>5, <1>6, <1>7

\* What is excused grows.
LEMMA ExcuseTyped ==
  ASSUME FeedTyped, NEW ids \in SUBSET table', NEW bs, table \subseteq table', Feed!Excuse(ids, bs)
  PROVE  /\ excused' \in [Browsers -> SUBSET table']
         /\ \A b \in Browsers : excused'[b] = excused[b] \cup (IF b \in bs THEN ids ELSE {})
  BY DEF Feed!Excuse, FeedTyped

\* The types at the start.
LEMMA FeedInitTyped ==
  ASSUME FeedBounds, Feed!Init
  PROVE  FeedTyped
<1>1. /\ Capacity \in Nat /\ MaxEvents \in Nat /\ MaxBreaks \in Nat /\ MaxOutages \in Nat
  BY DEF FeedBounds
<1>2. <<>> \in Seq(table) /\ Len(<<>>) = 0
  OBVIOUS
<1>3. /\ stream \in [Browsers -> {"closed", "replay", "flush", "live"}]
      /\ channel \in [Browsers -> Seq(table)]
      /\ lastId \in [Browsers -> Nat]
      /\ seen \in [Browsers -> SUBSET table] /\ excused \in [Browsers -> SUBSET table]
  BY <1>2 DEF Feed!Init
<1>4. \A b \in Browsers : channel[b] = <<>> /\ lastId[b] = 0 /\ excused[b] = {} /\ seen[b] = {}
  BY DEF Feed!Init
<1>5. \A b \in Browsers :
           /\ channel[b] \in Seq(table) /\ Len(channel[b]) <= Capacity
           /\ stream[b] = "closed" => channel[b] = <<>>
           /\ lastId[b] \in seen[b] \cup {0}
           /\ seen[b] \subseteq table /\ excused[b] \subseteq table
  <2> SUFFICES ASSUME NEW b \in Browsers
               PROVE  /\ channel[b] \in Seq(table) /\ Len(channel[b]) <= Capacity
                      /\ lastId[b] \in seen[b] \cup {0} /\ channel[b] = <<>>
                      /\ seen[b] \subseteq table /\ excused[b] \subseteq table
    OBVIOUS
  <2>1. channel[b] = <<>> /\ lastId[b] = 0 /\ excused[b] = {} /\ seen[b] = {}
    BY <1>4
  <2>2. Len(channel[b]) = 0 /\ channel[b] \in Seq(table)
    BY <1>2, <2>1
  <2>3. Len(channel[b]) <= Capacity
    BY <1>1, <2>2
  <2> QED BY <2>1, <2>2, <2>3
<1>6. /\ inserted \in 0..MaxEvents
      /\ open \subseteq 1..inserted /\ table \subseteq (1..inserted) \ open
      /\ listening \in BOOLEAN
      /\ notices \in Seq(table) /\ (~listening => notices = <<>>)
      /\ breaks \in 0..MaxBreaks /\ outages \in 0..MaxOutages
  <2>1. inserted = 0 /\ open = {} /\ table = {} /\ listening = FALSE /\ notices = <<>>
        /\ breaks = 0 /\ outages = 0
    BY DEF Feed!Init
  <2>2. 0 \in 0..MaxEvents /\ 0 \in 0..MaxBreaks /\ 0 \in 0..MaxOutages
    BY <1>1
  <2>3. notices \in Seq(table)
    BY <1>2, <2>1
  <2> QED BY <2>1, <2>2, <2>3
<1> QED BY <1>3, <1>5, <1>6 DEF FeedTyped, Feed!TypeOK

\* Rows are inserted and committed.
LEMMA RowsTyped ==
  ASSUME FeedBounds, FeedTyped, Feed!Insert \/ \E id \in Feed!Ids : Feed!Commit(id)
  PROVE  FeedTyped'
<1>1. CASE Feed!Insert
  <2>1. inserted' = inserted + 1 /\ open' = open \cup {inserted'} /\ inserted < MaxEvents
        /\ UNCHANGED <<table, listening, notices, stream, channel, lastId, seen, breaks, outages, excused>>
    BY <1>1 DEF Feed!Insert, Feed!listener, Feed!received
  <2>2. inserted' \in 0..MaxEvents /\ open' \subseteq 1..inserted' /\ table \subseteq (1..inserted') \ open'
    BY <2>1 DEF FeedBounds, FeedTyped, Feed!TypeOK
  <2> QED BY <2>1, <2>2 DEF FeedTyped, Feed!TypeOK
<1>2. ASSUME NEW id \in Feed!Ids, Feed!Commit(id) PROVE FeedTyped'
  <2>1. id \in open /\ open' = open \ {id} /\ table' = table \cup {id}
        /\ notices' = (IF listening THEN Append(notices, id) ELSE notices)
        /\ UNCHANGED <<inserted, listening, stream, channel, lastId, seen, breaks, outages>>
    BY <1>2 DEF Feed!Commit, Feed!received
  <2>2. excused' \in [Browsers -> SUBSET table']
    <3>1. {id} \in SUBSET table' /\ table \subseteq table'
      BY <2>1
    <3>2. Feed!Excuse({id}, Browsers) \/ excused' = excused
      BY <1>2 DEF Feed!Commit
    <3>3. excused \in [Browsers -> SUBSET table']
      BY <3>1 DEF FeedTyped
    <3> QED BY <3>1, <3>2, <3>3, ExcuseTyped
  <2>3. notices' \in Seq(table') /\ (~listening' => notices' = <<>>)
    <3>1. notices \in Seq(table') /\ id \in table'
      BY <2>1, SeqGrows DEF FeedTyped, Feed!TypeOK
    <3>2. Append(notices, id) \in Seq(table')
      BY <3>1, SeqAppend
    <3> QED BY <2>1, <3>1, <3>2 DEF FeedTyped, Feed!TypeOK
  <2>4. channel' \in [Browsers -> Seq(table')]
    <3>1. \A b \in Browsers : channel[b] \in Seq(table')
      BY <2>1, SeqGrows DEF FeedTyped
    <3> QED BY <2>1, <3>1 DEF FeedTyped
  <2>5. open' \subseteq 1..inserted' /\ table' \subseteq (1..inserted') \ open'
    BY <2>1 DEF FeedTyped, Feed!TypeOK
  <2>6. seen' \in [Browsers -> SUBSET table']
    BY <2>1 DEF FeedTyped
  <2> QED BY <2>1, <2>2, <2>3, <2>4, <2>5, <2>6 DEF FeedTyped, Feed!TypeOK
<1> QED BY <1>1, <1>2

\* The listener's steps.
LEMMA ListenerTyped ==
  ASSUME FeedBounds, FeedTyped,
         Feed!Listen \/ Feed!ListenerBreaks \/ Feed!Forward \/ Feed!ForwardFails
  PROVE  FeedTyped'
<1>1. CASE Feed!Listen
  <2>1. listening' = TRUE /\ UNCHANGED <<inserted, open, table, notices, stream, channel,
          lastId, seen, breaks, outages, excused>>
    BY <1>1 DEF Feed!Listen, Feed!rows, Feed!received
  <2> QED BY <2>1 DEF FeedTyped, Feed!TypeOK
<1>2. ASSUME NEW ids \in SUBSET table, NEW bs, Feed!Excuse(ids, bs),
             notices' \in Seq(table'), listening' \in BOOLEAN, ~listening' => notices' = <<>>,
             outages' \in 0..MaxOutages,
             UNCHANGED <<inserted, open, table, stream, lastId, seen, breaks>>,
             channel' \in [Browsers -> Seq(table)],
             \A b \in Browsers : /\ Len(channel'[b]) <= Capacity
                                 /\ stream[b] = "closed" => channel'[b] = <<>>
      PROVE  FeedTyped'
  <2>1. excused' \in [Browsers -> SUBSET table']
    BY <1>2, ExcuseTyped
  <2> QED BY <1>2, <2>1 DEF FeedTyped, Feed!TypeOK
<1>3. \A b \in Browsers : /\ Len(channel[b]) <= Capacity
                          /\ stream[b] = "closed" => channel[b] = <<>>
  BY DEF FeedTyped, Feed!TypeOK
<1>4. notices \in Seq(table) /\ Capacity \in Nat /\ MaxOutages \in Nat
      /\ outages \in 0..MaxOutages
  BY DEF FeedTyped, Feed!TypeOK, FeedBounds
<1>5. CASE Feed!ListenerBreaks
  <2>1. Feed!ToSet(notices) \in SUBSET table
    BY <1>4 DEF Feed!ToSet
  <2>2. /\ listening' = FALSE /\ Feed!Excuse(Feed!ToSet(notices), Browsers)
        /\ outages' \in 0..MaxOutages /\ notices' = <<>>
        /\ UNCHANGED <<inserted, open, table, stream, channel, lastId, seen, breaks>>
    BY <1>4, <1>5 DEF Feed!ListenerBreaks, Feed!rows, Feed!received
  <2>3. notices' \in Seq(table') /\ channel' \in [Browsers -> Seq(table)]
    BY <2>2 DEF FeedTyped
  <2> QED BY <1>2, <1>3, <2>1, <2>2, <2>3
<1>6. CASE notices # <<>> /\ Feed!Forward
  <2>1. Head(notices) \in table /\ Tail(notices) \in Seq(table)
    BY <1>4, <1>6, SeqTail
  <2>2. /\ notices' = Tail(notices)
        /\ channel' = [b \in Browsers |-> IF Feed!Subscribed(b) /\ Feed!HasRoom(b)
                                          THEN Append(channel[b], Head(notices))
                                          ELSE channel[b]]
        /\ Feed!Excuse({Head(notices)}, {b \in Browsers : Feed!Subscribed(b) /\ Len(channel[b]) = Capacity})
        /\ UNCHANGED <<inserted, open, table, listening, stream, lastId, seen, breaks, outages>>
    BY <1>6 DEF Feed!Forward, Feed!rows, Feed!received
  <2>3. listening' \in BOOLEAN /\ listening'
    BY <1>6, <2>2 DEF FeedTyped, Feed!TypeOK
  <2>4. ASSUME NEW b \in Browsers
        PROVE  /\ channel'[b] \in Seq(table) /\ Len(channel'[b]) <= Capacity
               /\ stream[b] = "closed" => channel'[b] = <<>>
    <3>1. CASE Feed!Subscribed(b) /\ Feed!HasRoom(b)
      <4>1. channel[b] \in Seq(table) /\ channel'[b] = Append(channel[b], Head(notices))
        BY <2>2, <3>1 DEF FeedTyped
      <4>2. channel'[b] \in Seq(table) /\ Len(channel'[b]) = Len(channel[b]) + 1
        BY <2>1, <4>1, SeqAppend
      <4> QED BY <1>4, <3>1, <4>1, <4>2 DEF Feed!Subscribed, Feed!HasRoom
    <3>2. CASE ~(Feed!Subscribed(b) /\ Feed!HasRoom(b))
      <4>1. channel'[b] = channel[b]
        BY <2>2, <3>2
      <4> QED BY <1>3, <4>1 DEF FeedTyped
    <3> QED BY <3>1, <3>2
  <2>5. channel' \in [Browsers -> Seq(table)]
    <3> DEFINE c(b) == IF Feed!Subscribed(b) /\ Feed!HasRoom(b)
                       THEN Append(channel[b], Head(notices)) ELSE channel[b]
    <3>1. channel' = [b \in Browsers |-> c(b)]
      BY <2>2
    <3>2. \A b \in Browsers : c(b) \in Seq(table)
      BY <2>4, <3>1
    <3> HIDE DEF c
    <3> QED BY <3>1, <3>2
  <2>6. outages' \in 0..MaxOutages /\ notices' \in Seq(table')
    BY <1>4, <2>1, <2>2
  <2> QED BY <1>2, <2>1, <2>2, <2>3, <2>4, <2>5, <2>6
<1>7. CASE notices # <<>> /\ Feed!ForwardFails
  <2>1. Head(notices) \in table /\ Tail(notices) \in Seq(table)
    BY <1>4, <1>7, SeqTail
  <2>2. /\ notices' = Tail(notices) /\ Feed!Excuse({Head(notices)}, Browsers)
        /\ outages' \in 0..MaxOutages
        /\ UNCHANGED <<inserted, open, table, listening, stream, channel, lastId, seen, breaks>>
    BY <1>4, <1>7 DEF Feed!ForwardFails, Feed!rows, Feed!received
  <2>3. listening' \in BOOLEAN /\ listening'
    BY <1>7, <2>2 DEF FeedTyped, Feed!TypeOK
  <2>4. channel' \in [Browsers -> Seq(table)] /\ notices' \in Seq(table')
    BY <2>1, <2>2 DEF FeedTyped
  <2> QED BY <1>2, <1>3, <2>1, <2>2, <2>3, <2>4
<1> QED BY <1>1, <1>5, <1>6, <1>7 DEF Feed!Forward, Feed!ForwardFails

\* What one of a browser's steps leaves alone.
Elsewhere(b) ==
  /\ UNCHANGED <<inserted, open, table, listening, notices>>
  /\ stream' \in [Browsers -> {"closed", "replay", "flush", "live"}]
  /\ \A a \in Browsers \ {b} :
         /\ stream'[a] = stream[a] /\ channel'[a] = channel[a]
         /\ lastId'[a] = lastId[a] /\ seen'[a] = seen[a]

\* What it may do to the connection, with types.
Connection(b) ==
  /\ channel' \in [Browsers -> Seq(table)] /\ Len(channel'[b]) <= Capacity
  /\ stream'[b] = "closed" => channel'[b] = <<>>
  /\ breaks' \in 0..MaxBreaks /\ outages' \in 0..MaxOutages
  /\ lastId' \in [Browsers -> Nat] /\ seen' \in [Browsers -> SUBSET table]
  /\ lastId'[b] \in seen'[b] \cup {0}
  /\ excused' \in [Browsers -> SUBSET table]

\* A browser's step keeps the types if it keeps those of its connection.
LEMMA ConnectionTyped ==
  ASSUME FeedTyped, NEW b \in Browsers, Elsewhere(b), Connection(b)
  PROVE  FeedTyped'
<1>1. ASSUME NEW a \in Browsers
      PROVE  /\ channel'[a] \in Seq(table') /\ Len(channel'[a]) <= Capacity
             /\ stream'[a] = "closed" => channel'[a] = <<>>
             /\ lastId'[a] \in seen'[a] \cup {0}
             /\ seen'[a] \subseteq table' /\ excused'[a] \subseteq table'
  <2>1. table' = table
    BY DEF Elsewhere
  <2>2. CASE a = b
    BY <2>1, <2>2 DEF Connection
  <2>3. CASE a # b
    BY <2>1, <2>3 DEF Elsewhere, Connection, FeedTyped, Feed!TypeOK
  <2> QED BY <2>2, <2>3
<1> QED BY <1>1 DEF Elsewhere, Connection, FeedTyped, Feed!TypeOK

\* Connecting, flushing, a replay that fails and losing the connection.
LEMMA ConnectTyped ==
  ASSUME FeedBounds, FeedTyped, NEW b \in Browsers,
         Feed!ConnectSocket(b) \/ Feed!ConnectStream(b) \/ Feed!ReplayFails(b)
         \/ Feed!Flush(b) \/ Feed!Disconnect(b)
  PROVE  /\ Elsewhere(b) /\ Connection(b)
         /\ UNCHANGED <<lastId, seen>>
         /\ \A a \in Browsers : excused[a] \subseteq excused'[a]
         /\ channel'[b] \in {channel[b], <<>>}
<1>1. /\ channel \in [Browsers -> Seq(table)] /\ Len(channel[b]) <= Capacity
      /\ stream[b] = "closed" => channel[b] = <<>>
      /\ breaks \in 0..MaxBreaks /\ outages \in 0..MaxOutages
      /\ lastId \in [Browsers -> Nat] /\ seen \in [Browsers -> SUBSET table]
      /\ lastId[b] \in seen[b] \cup {0} /\ excused \in [Browsers -> SUBSET table]
      /\ stream \in [Browsers -> {"closed", "replay", "flush", "live"}]
      /\ MaxBreaks \in Nat /\ MaxOutages \in Nat /\ Capacity \in Nat
  BY DEF FeedTyped, Feed!TypeOK, FeedBounds
<1>2. /\ UNCHANGED <<inserted, open, table, listening, notices, lastId, seen>>
      /\ \E state \in {"closed", "replay", "flush", "live"} :
           /\ stream' = [stream EXCEPT ![b] = state]
           /\ \/ channel' = channel /\ (stream[b] = "closed" \/ state # "closed")
              \/ channel' = [channel EXCEPT ![b] = <<>>]
  BY DEF Feed!ConnectSocket, Feed!ConnectStream, Feed!ReplayFails, Feed!Flush, Feed!Disconnect,
    Feed!rows, Feed!listener, Feed!received
<1>3. excused' \in [Browsers -> SUBSET table] /\ \A a \in Browsers : excused[a] \subseteq excused'[a]
  <2>1. Feed!Missed(b) \in SUBSET table /\ table \in SUBSET table' /\ table' = table
    BY <1>2 DEF Feed!Missed
  <2>2. excused' = excused \/ \E ids \in SUBSET table : Feed!Excuse(ids, {b})
    BY <2>1 DEF Feed!ConnectSocket, Feed!ConnectStream, Feed!ReplayFails, Feed!Flush, Feed!Disconnect
  <2>3. ASSUME NEW ids \in SUBSET table, Feed!Excuse(ids, {b})
        PROVE  excused' \in [Browsers -> SUBSET table] /\ \A a \in Browsers : excused[a] \subseteq excused'[a]
    <3>1. ids \in SUBSET table' /\ table \subseteq table'
      BY <2>1
    <3>2. /\ excused' \in [Browsers -> SUBSET table']
          /\ \A a \in Browsers : excused'[a] = excused[a] \cup (IF a \in {b} THEN ids ELSE {})
      BY <2>3, <3>1, ExcuseTyped
    <3> QED BY <2>1, <3>2
  <2> QED BY <1>1, <2>2, <2>3
<1>4. breaks' \in 0..MaxBreaks /\ outages' \in 0..MaxOutages
  BY <1>1 DEF Feed!ConnectSocket, Feed!ConnectStream, Feed!ReplayFails, Feed!Flush, Feed!Disconnect
<1>5. <<>> \in Seq(table) /\ Len(<<>>) <= Capacity
  BY <1>1
<1>6. /\ channel' \in [Browsers -> Seq(table)] /\ Len(channel'[b]) <= Capacity
      /\ stream'[b] = "closed" => channel'[b] = <<>>
      /\ channel'[b] \in {channel[b], <<>>}
      /\ \A a \in Browsers \ {b} : channel'[a] = channel[a]
  BY <1>1, <1>2, <1>5
<1>7. stream' \in [Browsers -> {"closed", "replay", "flush", "live"}]
      /\ \A a \in Browsers \ {b} : stream'[a] = stream[a]
  BY <1>1, <1>2
<1> QED BY <1>1, <1>2, <1>3, <1>4, <1>6, <1>7 DEF Elsewhere, Connection

\* The rows a replay may send: those missed, the first of them, some or all.
LEMMA ReplayedTyped ==
  ASSUME FeedBounds, FeedTyped, NEW b \in Browsers
  PROVE  /\ Feed!Missed(b) \in SUBSET table
         /\ \A ids \in SUBSET table, n \in Nat : Feed!FirstOf(ids, n) \in SUBSET ids
  BY DEF Feed!Missed, Feed!FirstOf

\* The head of the channel is received.
LEMMA DeliverTyped ==
  ASSUME FeedBounds, FeedTyped, NEW b \in Browsers, Feed!Deliver(b)
  PROVE  /\ Elsewhere(b) /\ Connection(b)
         /\ stream' = stream /\ excused' = excused
         /\ channel[b] \in Seq(table) /\ channel[b] # <<>>
         /\ channel'[b] = Tail(channel[b]) /\ Head(channel[b]) \in table
         /\ lastId'[b] = Head(channel[b]) /\ seen'[b] = seen[b] \cup {Head(channel[b])}
<1>1. /\ stream[b] = "live" /\ channel[b] # <<>>
      /\ Feed!Receive(b, {Head(channel[b])})
      /\ channel' = [channel EXCEPT ![b] = Tail(@)]
      /\ UNCHANGED <<inserted, open, table, listening, notices, stream, breaks, outages, excused>>
  BY DEF Feed!Deliver, Feed!rows, Feed!listener
<1>2. /\ channel \in [Browsers -> Seq(table)] /\ Len(channel[b]) <= Capacity
      /\ breaks \in 0..MaxBreaks /\ outages \in 0..MaxOutages /\ Capacity \in Nat
      /\ excused \in [Browsers -> SUBSET table]
      /\ stream \in [Browsers -> {"closed", "replay", "flush", "live"}]
  BY DEF FeedTyped, Feed!TypeOK, FeedBounds
<1> DEFINE head == Head(channel[b])
<1>3. /\ head \in table /\ Tail(channel[b]) \in Seq(table)
      /\ Len(Tail(channel[b])) = Len(channel[b]) - 1 /\ Len(channel[b]) \in Nat
  BY <1>1, <1>2, SeqTail
<1>4. channel' \in [Browsers -> Seq(table)] /\ channel'[b] = Tail(channel[b])
      /\ \A a \in Browsers \ {b} : channel'[a] = channel[a]
  BY <1>1, <1>2, <1>3
<1>5. head \in Nat
  BY <1>3, TableIsNumbers
<1>6. Feed!Max({head}) = head
  <2>1. {head} \in SUBSET Nat /\ {head} # {} /\ \A id \in {head} : id <= head
    BY <1>5
  <2> HIDE DEF head
  <2> QED BY <1>5, <2>1, MaxIsIn
<1> HIDE DEF head
<1>7. lastId' = [lastId EXCEPT ![b] = head]
  BY <1>1, <1>6 DEF Feed!Receive, head
<1>8. {head} \in SUBSET table /\ table \subseteq Nat /\ Feed!Receive(b, {head})
  BY <1>1, <1>3, TableIsNumbers DEF head
<1>9. /\ seen' = [seen EXCEPT ![b] = @ \cup {head}]
      /\ seen' \in [Browsers -> SUBSET table]
      /\ lastId' \in [Browsers -> Nat]
      /\ \A a \in Browsers : lastId'[a] \in seen'[a] \cup {0}
      /\ \A a \in Browsers \ {b} : lastId'[a] = lastId[a] /\ seen'[a] = seen[a]
  BY <1>8, ReceiveTyped
<1>10. lastId'[b] = head /\ seen'[b] = seen[b] \cup {head}
  BY <1>7, <1>9 DEF FeedTyped
<1>11. Elsewhere(b)
  BY <1>1, <1>2, <1>4, <1>9 DEF Elsewhere
<1>12. Connection(b)
  BY <1>1, <1>2, <1>3, <1>4, <1>9 DEF Connection
<1> QED BY <1>1, <1>2, <1>3, <1>4, <1>10, <1>11, <1>12 DEF head

\* A replay that is sent to the end, and one the connection breaks in.
Replayed(b) == IF lastId[b] = 0 THEN {} ELSE Feed!FirstOf(Feed!Missed(b), Limit)

Completes(b) ==
  /\ stream'[b] = "flush" /\ channel'[b] = channel[b]
  /\ seen'[b] = seen[b] \cup Replayed(b)
  /\ \A id \in Feed!Missed(b) : id \in Replayed(b) \/ id \in excused'[b]
  /\ \A a \in Browsers : excused[a] \subseteq excused'[a]

Breaks(b) ==
  /\ stream'[b] = "closed" /\ channel'[b] = <<>> /\ excused' = excused
  /\ \E n \in Nat :
         /\ seen'[b] = seen[b] \cup Feed!FirstOf(Replayed(b), n)
         /\ lastId'[b] \in Feed!FirstOf(Replayed(b), n) \cup {lastId[b]}

\* A replay is sent to the end or breaks.
LEMMA ReplayTyped ==
  ASSUME FeedBounds, FeedTyped, NEW b \in Browsers, Feed!Replay(b)
  PROVE  /\ Elsewhere(b) /\ Connection(b)
         /\ Completes(b) \/ Breaks(b)
<1> DEFINE ids == Replayed(b)
<1>1. ids \in SUBSET table /\ Feed!Missed(b) \in SUBSET table /\ table \subseteq Nat
      /\ ids \subseteq Feed!Missed(b)
  BY TableIsNumbers DEF Replayed, Feed!Missed, Feed!FirstOf
<1>2. /\ channel \in [Browsers -> Seq(table)] /\ Len(channel[b]) <= Capacity
      /\ breaks \in 0..MaxBreaks /\ outages \in 0..MaxOutages /\ Capacity \in Nat
      /\ MaxBreaks \in Nat /\ excused \in [Browsers -> SUBSET table]
      /\ stream \in [Browsers -> {"closed", "replay", "flush", "live"}]
  BY DEF FeedTyped, Feed!TypeOK, FeedBounds
<1>3. UNCHANGED <<inserted, open, table, listening, notices, outages>>
  BY DEF Feed!Replay, Feed!rows, Feed!listener
<1>4. ASSUME NEW got \in SUBSET table, Feed!Receive(b, got)
      PROVE  /\ seen' \in [Browsers -> SUBSET table] /\ lastId' \in [Browsers -> Nat]
             /\ lastId'[b] \in seen'[b] \cup {0}
             /\ \A a \in Browsers \ {b} : lastId'[a] = lastId[a] /\ seen'[a] = seen[a]
             /\ seen'[b] = seen[b] \cup got /\ lastId'[b] \in got \cup {lastId[b]}
  <2>1. /\ seen' = [seen EXCEPT ![b] = @ \cup got]
        /\ seen' \in [Browsers -> SUBSET table]
        /\ lastId' \in [Browsers -> Nat]
        /\ \A a \in Browsers : lastId'[a] \in seen'[a] \cup {0}
        /\ \A a \in Browsers \ {b} : lastId'[a] = lastId[a] /\ seen'[a] = seen[a]
        /\ lastId'[b] \in got \cup {lastId[b]}
    BY <1>1, <1>4, ReceiveTyped
  <2>2. seen'[b] = seen[b] \cup got
    BY <2>1 DEF FeedTyped
  <2> QED BY <2>1, <2>2
<1>5. CASE /\ Feed!Receive(b, ids) /\ Feed!Excuse(Feed!Missed(b) \ ids, {b})
           /\ stream' = [stream EXCEPT ![b] = "flush"] /\ UNCHANGED <<channel, breaks>>
  <2>1. Feed!Missed(b) \ ids \in SUBSET table' /\ table \subseteq table'
    BY <1>1, <1>3
  <2>2. /\ excused' \in [Browsers -> SUBSET table']
        /\ \A a \in Browsers :
             excused'[a] = excused[a] \cup (IF a \in {b} THEN Feed!Missed(b) \ ids ELSE {})
    BY <1>5, <2>1, ExcuseTyped
  <2> HIDE DEF ids
  <2>3. Elsewhere(b)
    BY <1>1, <1>2, <1>3, <1>4, <1>5 DEF Elsewhere
  <2>4. Connection(b)
    BY <1>1, <1>2, <1>3, <1>4, <1>5, <2>2 DEF Connection
  <2>5. Completes(b)
    BY <1>1, <1>2, <1>4, <1>5, <2>2 DEF Completes, ids
  <2> QED BY <2>3, <2>4, <2>5
<1>6. ASSUME NEW n \in Nat, Feed!Receive(b, Feed!FirstOf(ids, n)),
             stream' = [stream EXCEPT ![b] = "closed"],
             channel' = [channel EXCEPT ![b] = <<>>],
             breaks < MaxBreaks, breaks' = breaks + 1, excused' = excused
      PROVE  Elsewhere(b) /\ Connection(b) /\ Breaks(b)
  <2> DEFINE got == Feed!FirstOf(ids, n)
  <2>1. got \in SUBSET table
    BY <1>1 DEF Feed!FirstOf
  <2>2. Feed!Receive(b, got)
    BY <1>6
  <2> HIDE DEF ids, got
  <2>3. /\ seen' \in [Browsers -> SUBSET table] /\ lastId' \in [Browsers -> Nat]
        /\ lastId'[b] \in seen'[b] \cup {0}
        /\ \A a \in Browsers \ {b} : lastId'[a] = lastId[a] /\ seen'[a] = seen[a]
        /\ seen'[b] = seen[b] \cup got /\ lastId'[b] \in got \cup {lastId[b]}
    BY <1>4, <2>1, <2>2
  <2>4. <<>> \in Seq(table) /\ Len(<<>>) <= Capacity
    BY <1>2
  <2>5. channel' \in [Browsers -> Seq(table)] /\ channel'[b] = <<>>
        /\ \A a \in Browsers \ {b} : channel'[a] = channel[a]
    BY <1>2, <1>6, <2>4
  <2>6. Elsewhere(b)
    BY <1>2, <1>3, <1>6, <2>3, <2>5 DEF Elsewhere
  <2>7. breaks' \in 0..MaxBreaks
    BY <1>2, <1>6
  <2>8. Connection(b)
    BY <1>2, <1>3, <1>6, <2>3, <2>4, <2>5, <2>7 DEF Connection
  <2>9. Breaks(b)
    BY <1>2, <1>6, <2>3, <2>5 DEF Breaks, got, ids
  <2> QED BY <2>6, <2>8, <2>9
<1>7. \/ /\ Feed!Receive(b, ids) /\ Feed!Excuse(Feed!Missed(b) \ ids, {b})
         /\ stream' = [stream EXCEPT ![b] = "flush"] /\ UNCHANGED <<channel, breaks>>
      \/ \E n \in 0..Feed!Cardinality(ids) :
           /\ Feed!Receive(b, Feed!FirstOf(ids, n))
           /\ stream' = [stream EXCEPT ![b] = "closed"]
           /\ channel' = [channel EXCEPT ![b] = <<>>]
           /\ breaks < MaxBreaks /\ breaks' = breaks + 1 /\ excused' = excused
  BY DEF Feed!Replay, Replayed
<1>8. \A n \in 0..Feed!Cardinality(ids) : n \in Nat
  <2>1. IsFiniteSet(ids)
    BY <1>1, TableIsNumbers, FS_Subset
  <2>2. Feed!Cardinality(ids) \in Nat
    BY <2>1, SameCardinality, FS_CardinalityType
  <2> QED BY <2>2
<1> HIDE DEF ids
<1> QED BY <1>5, <1>6, <1>7, <1>8

\* Every step keeps the types.
LEMMA FeedTypedNext ==
  ASSUME FeedBounds, FeedTyped, [Feed!Next]_Feed!vars
  PROVE  FeedTyped'
<1>1. CASE Feed!Insert \/ \E id \in Feed!Ids : Feed!Commit(id)
  BY <1>1, RowsTyped
<1>2. CASE Feed!Listen \/ Feed!ListenerBreaks \/ Feed!Forward \/ Feed!ForwardFails
  BY <1>2, ListenerTyped
<1>3. ASSUME NEW b \in Browsers, Feed!Browser(b) \/ Feed!Disconnect(b) PROVE FeedTyped'
  <2>1. Elsewhere(b) /\ Connection(b)
    BY <1>3, ConnectTyped, ReplayTyped, DeliverTyped DEF Feed!Browser
  <2> QED BY <2>1, ConnectionTyped
<1>4. CASE UNCHANGED Feed!vars
  BY <1>4 DEF Feed!vars, FeedTyped, Feed!TypeOK
<1> QED BY <1>1, <1>2, <1>3, <1>4 DEF Feed!Next

\* What waits in a queue; what is not excused came in the order of the ids, and
\* after all that waits in the queue before.
WaitingIds(s) == {s[i] : i \in 1..Len(s)}
InIdOrder(s, ex) == \A j \in 1..Len(s) : s[j] \notin ex => \A i \in 1..(j - 1) : s[i] < s[j]
Before(s, t, ex) == \A x \in WaitingIds(s), y \in WaitingIds(t) : y \notin ex => x < y

\* What waits is of the set the queue is over.
LEMMA QueueTyped ==
  ASSUME NEW S, NEW s \in Seq(S)
  PROVE  WaitingIds(s) \subseteq S /\ (s = <<>> => WaitingIds(s) = {})
  BY DEF WaitingIds

\* An id is put at the end: when it is not excused it is larger than what waits.
LEMMA QueueAppend ==
  ASSUME NEW S, NEW s \in Seq(S), NEW x \in S, NEW ex, NEW more, ex \subseteq more,
         InIdOrder(s, ex), x \notin more => \A y \in WaitingIds(s) : y < x
  PROVE  WaitingIds(Append(s, x)) = WaitingIds(s) \cup {x} /\ InIdOrder(Append(s, x), more)
<1> DEFINE t == Append(s, x)
<1>1. /\ Len(t) = Len(s) + 1 /\ Len(s) \in Nat
      /\ \A i \in 1..Len(s) : t[i] = s[i]
      /\ t[Len(s) + 1] = x
  BY SeqAppend
<1> HIDE DEF t
<1>2. WaitingIds(t) = WaitingIds(s) \cup {x}
  <2>1. \A i \in 1..Len(t) : i \in 1..Len(s) \/ i = Len(s) + 1
    BY <1>1
  <2>2. WaitingIds(t) \subseteq WaitingIds(s) \cup {x}
    BY <1>1, <2>1 DEF WaitingIds
  <2>3. WaitingIds(s) \subseteq WaitingIds(t) /\ x \in WaitingIds(t)
    BY <1>1 DEF WaitingIds
  <2> QED BY <2>2, <2>3
<1>3. ASSUME NEW j \in 1..Len(t), t[j] \notin more, NEW i \in 1..(j - 1) PROVE t[i] < t[j]
  <2>1. i \in 1..Len(s) /\ t[i] = s[i] /\ s[i] \in WaitingIds(s)
    BY <1>1, <1>3 DEF WaitingIds
  <2>2. CASE j \in 1..Len(s)
    BY <1>1, <1>3, <2>1, <2>2 DEF InIdOrder
  <2>3. CASE j = Len(s) + 1
    BY <1>1, <1>3, <2>1, <2>3
  <2> QED BY <1>1, <2>2, <2>3
<1> QED BY <1>2, <1>3 DEF InIdOrder, t

\* The first is taken: what is left and not excused is larger.
LEMMA QueueTail ==
  ASSUME NEW S, NEW s \in Seq(S), s # <<>>, NEW ex, NEW more, ex \subseteq more, InIdOrder(s, ex)
  PROVE  /\ WaitingIds(s) = WaitingIds(Tail(s)) \cup {Head(s)} /\ InIdOrder(Tail(s), more)
         /\ \A y \in WaitingIds(Tail(s)) : y \notin ex => Head(s) < y
<1> DEFINE t == Tail(s)
<1>1. /\ Head(s) = s[1] /\ Len(t) = Len(s) - 1 /\ Len(s) \in Nat \ {0}
      /\ \A i \in 1..(Len(s) - 1) : t[i] = s[i + 1]
  BY SeqTail
<1> HIDE DEF t
<1>2. WaitingIds(s) = WaitingIds(t) \cup {Head(s)}
  <2>1. ASSUME NEW i \in 1..Len(s) PROVE s[i] \in WaitingIds(t) \cup {Head(s)}
    <3>1. CASE i = 1
      BY <1>1, <3>1
    <3>2. CASE i # 1
      <4>1. i - 1 \in 1..(Len(s) - 1) /\ t[i - 1] = s[(i - 1) + 1] /\ (i - 1) + 1 = i
        BY <1>1, <3>2
      <4> QED BY <1>1, <4>1 DEF WaitingIds
    <3> QED BY <3>1, <3>2
  <2>2. \A i \in 1..Len(t) : i + 1 \in 1..Len(s) /\ t[i] = s[i + 1]
    BY <1>1
  <2>3. WaitingIds(t) \subseteq WaitingIds(s) /\ Head(s) \in WaitingIds(s)
    BY <1>1, <2>2 DEF WaitingIds
  <2> QED BY <2>1, <2>3 DEF WaitingIds
<1>3. ASSUME NEW j \in 1..Len(t), t[j] \notin ex
      PROVE  Head(s) < t[j] /\ \A i \in 1..(j - 1) : t[i] < t[j]
  <2>1. j + 1 \in 1..Len(s) /\ t[j] = s[j + 1] /\ 1 \in 1..((j + 1) - 1)
    BY <1>1
  <2>2. \A i \in 1..((j + 1) - 1) : s[i] < t[j]
    BY <1>3, <2>1 DEF InIdOrder
  <2>3. ASSUME NEW i \in 1..(j - 1) PROVE t[i] < t[j]
    <3>1. i + 1 \in 1..((j + 1) - 1) /\ t[i] = s[i + 1]
      BY <1>1
    <3> QED BY <2>2, <3>1
  <2> QED BY <1>1, <2>1, <2>2, <2>3
<1> QED BY <1>2, <1>3 DEF InIdOrder, WaitingIds, t

\* What waits or is to be replayed for an event stream, in order, and what it has
\* moved past.
Unseen(b) == {id \in table \ seen[b] : id \notin excused[b]}

InOrder(b) ==
  /\ InIdOrder(notices, excused[b]) /\ InIdOrder(channel[b], excused[b])
  /\ Before(channel[b], notices, excused[b])
StillToCome(b) ==
  stream[b] \in {"flush", "live"} => Unseen(b) \subseteq WaitingIds(channel[b]) \cup WaitingIds(notices)
NoGap(b) == \A id \in Unseen(b) : ~(id < lastId[b])

FeedInv == \A b \in Resuming : InOrder(b) /\ StillToCome(b) /\ NoGap(b)

\* A browser nothing happens to but that more is excused.
LEMMA NothingHappens ==
  ASSUME NEW b, InOrder(b), StillToCome(b), NoGap(b),
         UNCHANGED <<table, notices>>, excused[b] \subseteq excused'[b],
         stream'[b] = stream[b], channel'[b] = channel[b], lastId'[b] = lastId[b], seen'[b] = seen[b]
  PROVE  InOrder(b)' /\ StillToCome(b)' /\ NoGap(b)'
<1>1. Unseen(b)' \subseteq Unseen(b)
  BY DEF Unseen
<1> QED BY <1>1 DEF InOrder, StillToCome, NoGap, InIdOrder, Before

\* Facts of an event stream in a typed state.
LEMMA StreamTyped ==
  ASSUME FeedBounds, FeedTyped, NEW b \in Resuming
  PROVE  /\ b \in Browsers /\ table \subseteq Nat
         /\ notices \in Seq(table) /\ channel[b] \in Seq(table)
         /\ WaitingIds(notices) \subseteq table /\ WaitingIds(channel[b]) \subseteq table
         /\ lastId[b] \in Nat /\ lastId[b] \in seen[b] \cup {0} /\ seen[b] \subseteq table
         /\ stream[b] = "closed" => WaitingIds(channel[b]) = {}
         /\ 0 \notin table
<1>1. b \in Browsers
  BY DEF FeedBounds
<1>2. /\ notices \in Seq(table) /\ channel[b] \in Seq(table)
      /\ lastId[b] \in Nat /\ lastId[b] \in seen[b] \cup {0} /\ seen[b] \subseteq table
      /\ stream[b] = "closed" => channel[b] = <<>>
      /\ table \subseteq 1..inserted /\ inserted \in Nat
  BY <1>1, TableIsNumbers DEF FeedTyped, Feed!TypeOK
<1> QED BY <1>1, <1>2, QueueTyped

\* A row that is not excused has the largest id of the table.
LEMMA CommitInv ==
  ASSUME FeedBounds, FeedTyped, FeedInv, NEW n \in Feed!Ids, Feed!Commit(n)
  PROVE  FeedInv'
<1> SUFFICES ASSUME NEW b \in Resuming PROVE InOrder(b)' /\ StillToCome(b)' /\ NoGap(b)'
  BY DEF FeedInv
<1>1. InOrder(b) /\ StillToCome(b) /\ NoGap(b)
  BY DEF FeedInv
<1>2. /\ n \in open /\ table' = table \cup {n}
      /\ notices' = (IF listening THEN Append(notices, n) ELSE notices)
      /\ UNCHANGED <<stream, channel, lastId, seen>>
      /\ IF ~listening \/ \E later \in table : later > n
           THEN Feed!Excuse({n}, Browsers) ELSE UNCHANGED excused
  BY DEF Feed!Commit, Feed!received
<1>3. n \notin table /\ n \in Nat /\ b \in Browsers
  BY <1>2, TableIsNumbers DEF FeedTyped, Feed!TypeOK, FeedBounds
<1>4. /\ excused[b] \subseteq excused'[b]
      /\ n \notin excused'[b] => listening /\ \A id \in table : id < n
  <2>1. CASE ~listening \/ \E later \in table : later > n
    <3>1. {n} \in SUBSET table' /\ table \subseteq table' /\ Feed!Excuse({n}, Browsers)
      BY <1>2, <2>1
    <3>2. excused'[b] = excused[b] \cup (IF b \in Browsers THEN {n} ELSE {})
      BY <1>3, <3>1, ExcuseTyped
    <3> QED BY <1>3, <3>2
  <2>2. CASE ~(~listening \/ \E later \in table : later > n)
    <3>1. \A id \in table : id \in Nat /\ id # n /\ ~(id > n)
      BY <1>3, <2>2, StreamTyped
    <3>2. excused' = excused
      BY <1>2, <2>2
    <3> QED BY <1>3, <2>2, <3>1, <3>2
  <2> QED BY <2>1, <2>2
<1>5. /\ WaitingIds(notices') \in {WaitingIds(notices), WaitingIds(notices) \cup {n}}
      /\ InIdOrder(notices', excused'[b])
      /\ listening => WaitingIds(notices') = WaitingIds(notices) \cup {n}
  <2>1. CASE ~listening
    BY <1>1, <1>2, <1>4, <2>1 DEF InOrder, InIdOrder
  <2>2. CASE listening
    <3>1. notices \in Seq(Nat) /\ WaitingIds(notices) \subseteq table
      BY StreamTyped, SeqGrows
    <3>2. n \notin excused'[b] => \A y \in WaitingIds(notices) : y < n
      BY <1>4, <3>1
    <3>3. PICK more : more = excused'[b]
      OBVIOUS
    <3>4. InIdOrder(notices, excused[b]) /\ excused[b] \subseteq more
          /\ (n \notin more => \A y \in WaitingIds(notices) : y < n)
      BY <1>1, <1>4, <3>2, <3>3 DEF InOrder
    <3>5. WaitingIds(Append(notices, n)) = WaitingIds(notices) \cup {n} /\ InIdOrder(Append(notices, n), more)
      BY <1>3, <3>1, <3>4, QueueAppend
    <3> QED BY <1>2, <2>2, <3>3, <3>5
  <2> QED BY <2>1, <2>2
<1>6. /\ Unseen(b)' \subseteq Unseen(b) \cup {n}
      /\ n \in Unseen(b)' => listening /\ \A id \in table : id < n
  BY <1>2, <1>4 DEF Unseen
<1>7. InOrder(b)'
  <2>1. InIdOrder(channel[b], excused'[b])
    BY <1>1, <1>4 DEF InOrder, InIdOrder
  <2>2. Before(channel[b], notices', excused'[b])
    <3>1. WaitingIds(channel[b]) \subseteq table
      BY StreamTyped
    <3> QED BY <1>1, <1>4, <1>5, <3>1 DEF InOrder, Before
  <2> QED BY <1>2, <1>5, <2>1, <2>2 DEF InOrder
<1>8. StillToCome(b)'
  BY <1>1, <1>2, <1>5, <1>6 DEF StillToCome
<1>9. NoGap(b)'
  <2>1. lastId[b] \in table \cup {0} /\ lastId[b] \in Nat /\ table \subseteq Nat
    BY StreamTyped
  <2>2. n \in Unseen(b)' => ~(n < lastId[b])
    <3>1. n \in Nat /\ ~(n < 0)
      BY <1>3
    <3>2. (\A id \in table : id < n) => (lastId[b] \in table => lastId[b] < n)
      OBVIOUS
    <3> QED BY <1>3, <1>6, <2>1, <3>1, <3>2
  <2> QED BY <1>1, <1>2, <1>6, <2>2 DEF NoGap
<1> QED BY <1>7, <1>8, <1>9

\* The listener breaks, or takes the next notification.
LEMMA ListenerInv ==
  ASSUME FeedBounds, FeedTyped, FeedInv,
         Feed!Listen \/ Feed!ListenerBreaks \/ Feed!Forward \/ Feed!ForwardFails
  PROVE  FeedInv'
<1> SUFFICES ASSUME NEW b \in Resuming PROVE InOrder(b)' /\ StillToCome(b)' /\ NoGap(b)'
  BY DEF FeedInv
<1>1. InOrder(b) /\ StillToCome(b) /\ NoGap(b)
  BY DEF FeedInv
<1>2. UNCHANGED <<table, stream, lastId, seen>>
  BY DEF Feed!Listen, Feed!ListenerBreaks, Feed!Forward, Feed!ForwardFails, Feed!rows, Feed!received
<1>3. b \in Browsers /\ notices \in Seq(table) /\ channel[b] \in Seq(table)
  BY StreamTyped
<1>4. CASE Feed!Listen
  <2>1. UNCHANGED <<notices, channel, excused>>
    BY <1>4 DEF Feed!Listen
  <2> QED BY <1>1, <1>2, <2>1, NothingHappens
<1>5. CASE Feed!ListenerBreaks
  <2>1. channel' = channel /\ notices' = <<>> /\ Feed!Excuse(Feed!ToSet(notices), Browsers)
    BY <1>5 DEF Feed!ListenerBreaks
  <2>2. Feed!ToSet(notices) = WaitingIds(notices) /\ WaitingIds(notices) \subseteq table
    BY <1>3, QueueTyped DEF Feed!ToSet, WaitingIds
  <2>3. excused'[b] = excused[b] \cup (IF b \in Browsers THEN WaitingIds(notices) ELSE {})
    <3>1. WaitingIds(notices) \in SUBSET table' /\ table \subseteq table' /\ Feed!Excuse(WaitingIds(notices), Browsers)
      BY <1>2, <2>1, <2>2
    <3> QED BY <1>3, <3>1, ExcuseTyped
  <2>4. Unseen(b)' \subseteq Unseen(b) \ WaitingIds(notices)
    BY <1>2, <1>3, <2>3 DEF Unseen
  <2>5. WaitingIds(notices') = {} /\ Len(notices') = 0
    BY <2>1 DEF WaitingIds
  <2> QED BY <1>1, <1>2, <1>3, <2>1, <2>3, <2>4, <2>5
        DEF InOrder, StillToCome, NoGap, InIdOrder, Before
<1> DEFINE head == Head(notices)
<1>6. ASSUME notices # <<>>, notices' = Tail(notices), excused[b] \subseteq excused'[b],
             \/ /\ channel'[b] = Append(channel[b], head)
             \/ /\ channel'[b] = channel[b]
                /\ stream[b] = "closed" \/ head \in excused'[b]
      PROVE  InOrder(b)' /\ StillToCome(b)' /\ NoGap(b)'
  <2>0. PICK more : more = excused'[b]
    OBVIOUS
  <2>1. /\ WaitingIds(notices) = WaitingIds(Tail(notices)) \cup {head} /\ InIdOrder(Tail(notices), more)
        /\ \A y \in WaitingIds(Tail(notices)) : y \notin excused[b] => head < y
    <3>1. excused[b] \subseteq more /\ InIdOrder(notices, excused[b])
      BY <1>1, <1>6, <2>0 DEF InOrder
    <3> QED BY <1>3, <1>6, <3>1, QueueTail
  <2>2. Unseen(b)' \subseteq Unseen(b)
    BY <1>2, <1>6 DEF Unseen
  <2>3. NoGap(b)'
    BY <1>1, <1>2, <2>2 DEF NoGap
  <2>4. CASE channel'[b] = Append(channel[b], head)
    <3>1. head \in table
      BY <1>3, <1>6, SeqTail
    <3>2. head \notin more => \A y \in WaitingIds(channel[b]) : y < head
      BY <1>1, <1>6, <2>0, <2>1 DEF InOrder, Before
    <3>3. /\ WaitingIds(Append(channel[b], head)) = WaitingIds(channel[b]) \cup {head}
          /\ InIdOrder(Append(channel[b], head), more)
      <4>1. InIdOrder(channel[b], excused[b]) /\ excused[b] \subseteq more
        BY <1>1, <1>6, <2>0 DEF InOrder
      <4> HIDE DEF head
      <4> QED BY <1>3, <3>1, <3>2, <4>1, QueueAppend
    <3> HIDE DEF head
    <3>4. InOrder(b)'
      <4>1. InIdOrder(channel'[b], excused'[b]) /\ InIdOrder(notices', excused'[b])
        BY <1>6, <2>0, <2>1, <2>4, <3>3
      <4>2. Before(channel'[b], notices', excused'[b])
        BY <1>1, <1>6, <2>0, <2>1, <2>4, <3>3 DEF Before, InOrder
      <4> QED BY <4>1, <4>2 DEF InOrder
    <3>5. StillToCome(b)'
      BY <1>1, <1>2, <1>6, <2>1, <2>2, <2>4, <3>3 DEF StillToCome
    <3> QED BY <2>3, <3>4, <3>5
  <2>5. CASE channel'[b] = channel[b] /\ (stream[b] = "closed" \/ head \in excused'[b])
    <3> HIDE DEF head
    <3>1. InOrder(b)'
      <4>1. InIdOrder(channel'[b], excused'[b]) /\ InIdOrder(notices', excused'[b])
        BY <1>1, <1>6, <2>0, <2>1, <2>5 DEF InOrder, InIdOrder
      <4>2. Before(channel'[b], notices', excused'[b])
        BY <1>1, <1>6, <2>1, <2>5 DEF Before, InOrder
      <4> QED BY <4>1, <4>2 DEF InOrder
    <3>2. StillToCome(b)'
      <4>1. stream[b] # "closed" => head \notin Unseen(b)'
        BY <2>5 DEF Unseen
      <4> QED BY <1>1, <1>2, <1>6, <2>1, <2>2, <2>5, <4>1 DEF StillToCome
    <3> QED BY <2>3, <3>1, <3>2
  <2> QED BY <1>6, <2>4, <2>5
<1>7. ASSUME NEW bs, notices # <<>>, Feed!Excuse({head}, bs)
      PROVE  excused'[b] = excused[b] \cup (IF b \in bs THEN {head} ELSE {})
  <2>1. {head} \in SUBSET table' /\ table \subseteq table'
    BY <1>2, <1>3, <1>7, SeqTail
  <2> QED BY <1>3, <1>7, <2>1, ExcuseTyped
<1>8. CASE Feed!Forward
  <2> DEFINE Full == {a \in Browsers : Feed!Subscribed(a) /\ Len(channel[a]) = Capacity}
  <2>1. /\ notices # <<>> /\ notices' = Tail(notices) /\ Feed!Excuse({head}, Full)
        /\ channel'[b] = IF Feed!Subscribed(b) /\ Feed!HasRoom(b)
                           THEN Append(channel[b], head) ELSE channel[b]
    BY <1>3, <1>8 DEF Feed!Forward
  <2>2. excused'[b] = excused[b] \cup (IF b \in Full THEN {head} ELSE {})
    BY <1>7, <2>1
  <2>3. Feed!Subscribed(b) /\ ~Feed!HasRoom(b) => b \in Full
    <3>1. Len(channel[b]) <= Capacity /\ Len(channel[b]) \in Nat /\ Capacity \in Nat
      BY <1>3 DEF FeedTyped, Feed!TypeOK, FeedBounds
    <3> QED BY <1>3, <3>1 DEF Feed!HasRoom
  <2>4. Feed!Subscribed(b) <=> stream[b] # "closed"
    BY DEF Feed!Subscribed
  <2> HIDE DEF Full, head
  <2> QED BY <1>6, <2>1, <2>2, <2>3, <2>4
<1>9. CASE Feed!ForwardFails
  <2>1. /\ notices # <<>> /\ notices' = Tail(notices) /\ Feed!Excuse({head}, Browsers)
        /\ channel' = channel
    BY <1>9 DEF Feed!ForwardFails
  <2>2. excused'[b] = excused[b] \cup {head}
    BY <1>3, <1>7, <2>1
  <2> HIDE DEF head
  <2> QED BY <1>6, <2>1, <2>2
<1> QED BY <1>4, <1>5, <1>8, <1>9

\* A browser connects, replays, reads, and loses its connection.
LEMMA BrowserInv ==
  ASSUME FeedBounds, FeedTyped, FeedInv, NEW c \in Browsers,
         Feed!Browser(c) \/ Feed!Disconnect(c)
  PROVE  FeedInv'
<1>1. Elsewhere(c) /\ Connection(c) /\ \A a \in Browsers : excused[a] \subseteq excused'[a]
  <2>1. CASE Feed!Replay(c)
    <3>1. Elsewhere(c) /\ Connection(c) /\ (Completes(c) \/ Breaks(c))
      BY <2>1, ReplayTyped
    <3> QED BY <3>1 DEF Completes, Breaks
  <2>2. CASE Feed!Deliver(c)
    BY <2>2, DeliverTyped
  <2> QED BY <2>1, <2>2, ConnectTyped DEF Feed!Browser
<1> SUFFICES ASSUME NEW b \in Resuming PROVE InOrder(b)' /\ StillToCome(b)' /\ NoGap(b)'
  BY DEF FeedInv
<1>2. /\ InOrder(b) /\ StillToCome(b) /\ NoGap(b)
      /\ b \in Browsers /\ UNCHANGED <<table, notices>> /\ excused[b] \subseteq excused'[b]
  BY <1>1, StreamTyped DEF FeedInv, Elsewhere
<1>3. CASE b # c
  <2>1. stream'[b] = stream[b] /\ channel'[b] = channel[b]
        /\ lastId'[b] = lastId[b] /\ seen'[b] = seen[b]
    BY <1>1, <1>2, <1>3 DEF Elsewhere
  <2> QED BY <1>2, <2>1, NothingHappens
<1>4. ASSUME channel'[b] \in {channel[b], <<>>} PROVE InOrder(b)'
  <2>1. CASE channel'[b] = channel[b]
    BY <1>2, <2>1 DEF InOrder, InIdOrder, Before
  <2>2. CASE channel'[b] = <<>>
    <3>1. Len(channel'[b]) = 0 /\ WaitingIds(channel'[b]) = {}
      BY <2>2 DEF WaitingIds
    <3> QED BY <1>2, <3>1 DEF InOrder, InIdOrder, Before
  <2> QED BY <1>4, <2>1, <2>2
<1>5. ASSUME seen'[b] = seen[b] PROVE Unseen(b)' \subseteq Unseen(b)
  BY <1>2, <1>5 DEF Unseen
<1>6. ASSUME Unseen(b)' \subseteq Feed!Missed(b), Feed!Missed(b) \cap Unseen(b)' = {},
             channel'[b] = channel[b]
      PROVE  InOrder(b)' /\ StillToCome(b)' /\ NoGap(b)'
  <2>1. Unseen(b)' = {}
    BY <1>6
  <2> QED BY <1>4, <1>6, <2>1 DEF StillToCome, NoGap
\* What an event stream has not moved past is missed.
<1>7. Unseen(b) \subseteq Feed!Missed(b)
  <2>1. ASSUME NEW id \in Unseen(b) PROVE id > lastId[b]
    <3>1. id \in table /\ id \notin seen[b] /\ id \in Nat /\ id # 0
      BY StreamTyped DEF Unseen
    <3>2. ~(id < lastId[b]) /\ lastId[b] \in Nat /\ lastId[b] \in seen[b] \cup {0}
      BY <1>2, StreamTyped DEF NoGap
    <3>3. id # lastId[b]
      BY <3>1, <3>2
    <3> QED BY <3>1, <3>2, <3>3
  <2> QED BY <2>1 DEF Unseen, Feed!Missed
<1>8. CASE b = c /\ Feed!Deliver(c)
  <2>1. /\ stream[b] = "live" /\ stream' = stream /\ excused' = excused
        /\ channel[b] \in Seq(table) /\ channel[b] # <<>>
        /\ channel'[b] = Tail(channel[b]) /\ Head(channel[b]) \in table
        /\ lastId'[b] = Head(channel[b]) /\ seen'[b] = seen[b] \cup {Head(channel[b])}
    BY <1>8, DeliverTyped DEF Feed!Deliver
  <2> DEFINE head == Head(channel[b])
  <2>2. /\ WaitingIds(channel[b]) = WaitingIds(channel'[b]) \cup {head}
        /\ InIdOrder(channel'[b], excused[b])
        /\ \A y \in WaitingIds(channel'[b]) : y \notin excused[b] => head < y
    <3>1. PICK s, ex : s = channel[b] /\ ex = excused[b]
      OBVIOUS
    <3>2. s \in Seq(table) /\ s # <<>> /\ InIdOrder(s, ex) /\ ex \subseteq ex
      BY <1>2, <2>1, <3>1 DEF InOrder
    <3>3. /\ WaitingIds(s) = WaitingIds(Tail(s)) \cup {Head(s)} /\ InIdOrder(Tail(s), ex)
          /\ \A y \in WaitingIds(Tail(s)) : y \notin ex => Head(s) < y
      BY <3>2, QueueTail
    <3> QED BY <2>1, <3>1, <3>3
  <2>3. Unseen(b)' \subseteq Unseen(b) \ {head}
    BY <1>2, <2>1 DEF Unseen
  <2> HIDE DEF head
  <2>4. InOrder(b)'
    BY <1>2, <2>1, <2>2 DEF InOrder, Before
  <2>5. StillToCome(b)'
    BY <1>2, <2>1, <2>2, <2>3 DEF StillToCome
  <2>6. NoGap(b)'
    <3>1. ASSUME NEW id \in Unseen(b)' PROVE head < id
      <4>1. id \notin excused[b] /\ id \in WaitingIds(channel'[b]) \cup WaitingIds(notices)
        BY <1>2, <2>1, <2>2, <2>3, <3>1 DEF StillToCome, Unseen
      <4>2. CASE id \in WaitingIds(channel'[b])
        BY <2>2, <4>1, <4>2
      <4>3. CASE id \in WaitingIds(notices)
        BY <1>2, <2>2, <4>1, <4>3 DEF InOrder, Before
      <4> QED BY <4>1, <4>2, <4>3
    <3>2. head \in Nat /\ Unseen(b)' \subseteq Nat
      BY <1>2, <2>1, StreamTyped DEF Unseen, head
    <3>3. \A id \in Unseen(b)' : ~(id < head)
      <4>1. \A id \in Nat : head < id => ~(id < head)
        BY <3>2
      <4> QED BY <3>1, <3>2, <4>1
    <3> QED BY <2>1, <3>3 DEF NoGap, head
  <2> QED BY <2>4, <2>5, <2>6
<1>9. CASE b = c /\ Feed!Replay(c) /\ Completes(b)
  <2>1. /\ channel'[b] = channel[b] /\ seen'[b] = seen[b] \cup Replayed(b)
        /\ \A id \in Feed!Missed(b) : id \in Replayed(b) \/ id \in excused'[b]
    BY <1>9 DEF Completes
  <2>2. Unseen(b)' \subseteq Unseen(b)
    BY <1>2, <2>1 DEF Unseen
  <2>3. Feed!Missed(b) \cap Unseen(b)' = {}
    BY <2>1 DEF Unseen
  <2> QED BY <1>6, <1>7, <2>1, <2>2, <2>3
<1>10. CASE b = c /\ Feed!Replay(c) /\ Breaks(b)
  <2> DEFINE got(n) == Feed!FirstOf(Replayed(b), n)
  <2>1. PICK n \in Nat : /\ stream'[b] = "closed" /\ channel'[b] = <<>> /\ excused' = excused
                         /\ seen'[b] = seen[b] \cup got(n)
                         /\ lastId'[b] \in got(n) \cup {lastId[b]}
    BY <1>10 DEF Breaks
  <2>2. Unseen(b)' \subseteq Unseen(b) /\ Unseen(b)' \cap got(n) = {}
    BY <1>2, <2>1 DEF Unseen
  <2>3. ASSUME lastId'[b] \in got(n), NEW id \in Unseen(b)', id < lastId'[b] PROVE FALSE
    <3>1. /\ IsFiniteSet(Feed!Missed(b)) /\ Feed!Missed(b) \subseteq Nat
          /\ Replayed(b) \in SUBSET Feed!Missed(b) /\ IsFiniteSet(Replayed(b))
      <4>1. Feed!Missed(b) \in SUBSET table /\ IsFiniteSet(table) /\ table \subseteq Nat
        BY TableIsNumbers DEF Feed!Missed
      <4>2. Replayed(b) \in SUBSET Feed!Missed(b)
        BY DEF Replayed, Feed!FirstOf
      <4> QED BY <4>1, <4>2, FS_Subset
    <3>2. lastId'[b] \in Replayed(b) /\ lastId[b] # 0
      BY <2>3 DEF Feed!FirstOf, Replayed
    <3>3. id \in Feed!Missed(b) /\ Limit \in Nat
      BY <1>7, <2>2 DEF FeedBounds
    <3>4. id \in Replayed(b)
      <4>1. lastId'[b] \in Feed!FirstOf(Feed!Missed(b), Limit)
        BY <3>2 DEF Replayed
      <4>2. PICK last : last = lastId'[b]
        OBVIOUS
      <4>3. last \in Feed!FirstOf(Feed!Missed(b), Limit) /\ id < last
        BY <2>3, <4>1, <4>2
      <4>4. PICK missed : missed = Feed!Missed(b)
        OBVIOUS
      <4>5. id \in Feed!FirstOf(missed, Limit)
        BY <3>1, <3>3, <4>3, <4>4, FirstOfIsInitial
      <4> QED BY <3>2, <4>4, <4>5 DEF Replayed
    <3>5. id \in got(n)
      <4>1. PICK last, all : last = lastId'[b] /\ all = Replayed(b)
        OBVIOUS
      <4>2. last \in Feed!FirstOf(all, n) /\ id < last /\ id \in all
        BY <2>3, <3>4, <4>1
      <4>3. IsFiniteSet(all) /\ all \subseteq Nat
        BY <3>1, <4>1
      <4>4. id \in Feed!FirstOf(all, n)
        BY <4>2, <4>3, FirstOfIsInitial
      <4> QED BY <4>1, <4>4
    <3> QED BY <2>2, <2>3, <3>5
  <2> HIDE DEF got
  <2>4. NoGap(b)'
    BY <1>2, <2>1, <2>2, <2>3 DEF NoGap
  <2>5. StillToCome(b)'
    BY <2>1 DEF StillToCome
  <2> QED BY <1>4, <2>1, <2>4, <2>5
<1>11. CASE b = c /\ Feed!ReplayFails(c)
  <2>1. channel' = channel /\ seen' = seen /\ Feed!Excuse(Feed!Missed(b), {b})
    BY <1>11 DEF Feed!ReplayFails, Feed!received
  <2>2. Feed!Missed(b) \in SUBSET table' /\ table \subseteq table'
    BY <1>2 DEF Feed!Missed
  <2>3. excused'[b] = excused[b] \cup (IF b \in {b} THEN Feed!Missed(b) ELSE {})
    BY <1>2, <2>1, <2>2, ExcuseTyped
  <2>4. Feed!Missed(b) \cap Unseen(b)' = {}
    BY <2>3 DEF Unseen
  <2> QED BY <1>5, <1>6, <1>7, <2>1, <2>4
<1>12. CASE b = c /\ (\/ Feed!ConnectSocket(c) \/ Feed!ConnectStream(c)
                      \/ Feed!Flush(c) \/ Feed!Disconnect(c))
  <2>1. UNCHANGED <<lastId, seen>> /\ channel'[b] \in {channel[b], <<>>}
    BY <1>12, ConnectTyped
  <2>2. NoGap(b)'
    BY <1>2, <1>5, <2>1 DEF NoGap
  <2>3. \/ stream'[b] \in {"closed", "replay"}
        \/ stream[b] = "flush" /\ channel' = channel
    BY <1>12 DEF FeedTyped, Feed!TypeOK, Feed!ConnectSocket, Feed!ConnectStream, Feed!Flush, Feed!Disconnect
  <2>4. StillToCome(b)'
    BY <1>2, <1>5, <2>1, <2>3 DEF StillToCome
  <2> QED BY <1>4, <2>1, <2>2, <2>4
<1>13. Feed!Replay(c) => Completes(c) \/ Breaks(c)
  BY ReplayTyped
<1> QED BY <1>3, <1>8, <1>9, <1>10, <1>11, <1>12, <1>13 DEF Feed!Browser

\* Every step keeps the invariant.
LEMMA FeedInvNext ==
  ASSUME FeedBounds, FeedTyped, FeedInv, [Feed!Next]_Feed!vars
  PROVE  FeedInv'
<1>1. CASE Feed!Insert
  <2>1. UNCHANGED <<table, notices, stream, channel, lastId, seen, excused>>
    BY <1>1 DEF Feed!Insert, Feed!listener, Feed!received
  <2> QED BY <2>1, NothingHappens DEF FeedInv
<1>2. CASE UNCHANGED Feed!vars
  <2>1. UNCHANGED <<table, notices, stream, channel, lastId, seen, excused>>
    BY <1>2 DEF Feed!vars
  <2> QED BY <2>1, NothingHappens DEF FeedInv
<1> QED BY <1>1, <1>2, CommitInv, ListenerInv, BrowserInv DEF Feed!Next

\* Nothing waits at the start.
LEMMA FeedInvInit ==
  ASSUME FeedBounds, Feed!Init
  PROVE  FeedInv
<1> SUFFICES ASSUME NEW b \in Resuming PROVE InOrder(b) /\ StillToCome(b) /\ NoGap(b)
  BY DEF FeedInv
<1>1. notices = <<>> /\ channel[b] = <<>> /\ table = {}
  BY DEF Feed!Init, FeedBounds
<1>2. Len(notices) = 0 /\ Len(channel[b]) = 0 /\ WaitingIds(notices) = {} /\ WaitingIds(channel[b]) = {}
  BY <1>1 DEF WaitingIds
<1> QED BY <1>1, <1>2 DEF InOrder, InIdOrder, Before, StillToCome, NoGap, Unseen

\* Types of the event feed (trading/events.go, user/trading.go).
THEOREM FeedTypesHold == FeedBounds => (Feed!Spec => []Feed!TypeOK)
<1> SUFFICES ASSUME FeedBounds PROVE Feed!Spec => []Feed!TypeOK
  OBVIOUS
<1>1. Feed!Init => FeedTyped
  BY FeedInitTyped
<1>2. FeedTyped /\ [Feed!Next]_Feed!vars => FeedTyped'
  BY FeedTypedNext
<1>3. FeedTyped => Feed!TypeOK
  BY DEF FeedTyped
<1> QED BY <1>1, <1>2, <1>3, PTL DEF Feed!Spec

\* An event stream that has moved past an event without receiving it has lost it for
\* one of the stated reasons, however connections, listener and workers interleave
\* (user/trading.go tradingEvents subscribes before EventsAfter).
THEOREM GapIsExplainedHolds == FeedBounds => (Feed!Spec => []Feed!GapIsExplained)
<1> SUFFICES ASSUME FeedBounds PROVE Feed!Spec => []Feed!GapIsExplained
  OBVIOUS
<1>1. Feed!Init => FeedTyped /\ FeedInv
  BY FeedInitTyped, FeedInvInit
<1>2. FeedTyped /\ FeedInv /\ [Feed!Next]_Feed!vars => FeedTyped' /\ FeedInv'
  BY FeedTypedNext, FeedInvNext
<1>3. FeedInv => Feed!GapIsExplained
  BY DEF FeedInv, NoGap, Unseen, Feed!GapIsExplained
<1> QED BY <1>1, <1>2, <1>3, PTL DEF Feed!Spec
=============================================================================
