------------------------- MODULE WalletOperationProofs -------------------------
(***************************************************************************)
(* Proofs about WalletOperation, for any number of requests, ids, amounts, *)
(* sessions and rolls: types; a request id is paid once; the ledger tells  *)
(* what the provider did; a shortage of the account was decided on stale   *)
(* data; and that an operation is a SingleTransfer.                        *)
(***************************************************************************)
EXTENDS WalletOperation, TLAPS

-----------------------------------------------------------------------------
(* What a step does to the requests *)

PCs == {"idle", "balance", "fees", "row", "insert"} \cup Working

\* Values the types are made of.
LEMMA Atoms ==
  /\ 0 \in Nat /\ TRUE \in BOOLEAN /\ FALSE \in BOOLEAN /\ None \in RequestIds
  /\ \A id \in Ids : id \in RequestIds
BY DEF RequestIds

\* A request that waits to be served is typed.
LEMMA IdleTyped == Idle \in Handler /\ Idle.pc = "idle"
<1>1. "idle" \in PCs
  BY DEF PCs
<1> QED BY <1>1, Atoms, Zenon DEF Idle, Handler, PCs

\* No START on its way is typed.
LEMMA NoStartTyped == NoStart \in Starter /\ NoStart.pc = "idle"
<1>1. "idle" \in {"idle", "fees", "insert"}
  OBVIOUS
<1> QED BY <1>1, Atoms, Zenon DEF NoStart, Starter

\* No session is typed.
LEMMA NoSessionTyped ==
  /\ NoSession \in Session /\ NoSession.status = "NONE"
  /\ NoSession.visible = 0 /\ NoSession.late = 0
<1>1. "NONE" \in {"NONE", "RUNNING", "RECONCILIATION_REQUIRED"} /\ 0 \in {0, 1}
  OBVIOUS
<1> QED BY <1>1, Atoms, Zenon DEF NoSession, Session

\* A request moves on.
LEMMA GoesTyped ==
  ASSUME TypeOK, NEW h \in Handlers, NEW pc \in PCs, Goes(h, pc)
  PROVE  /\ handler' \in [Handlers -> Handler]
         /\ handler'[h] = [handler[h] EXCEPT !.pc = pc] /\ handler'[h].pc = pc
         /\ \A k \in Handlers : k # h => handler'[k] = handler[k]
<1>1. handler \in [Handlers -> Handler] /\ handler[h] \in Handler
  BY DEF TypeOK
<1>2. [handler[h] EXCEPT !.pc = pc] \in Handler
      /\ [handler[h] EXCEPT !.pc = pc].pc = pc
  BY <1>1, Zenon DEF Handler, PCs
<1>3. handler' = [handler EXCEPT ![h] = [handler[h] EXCEPT !.pc = pc]]
  BY Zenon DEF Goes
<1> QED BY <1>1, <1>2, <1>3, Zenon

\* A request is answered.
LEMMA RepliesTyped ==
  ASSUME TypeOK, NEW h \in Handlers, Replies(h)
  PROVE  /\ handler' \in [Handlers -> Handler]
         /\ handler'[h] = Idle /\ handler'[h].pc = "idle"
         /\ \A k \in Handlers : k # h => handler'[k] = handler[k]
BY IdleTyped, Zenon DEF TypeOK, Replies

\* k goes on as it was, but for what it knows to have happened.
Same(k) ==
  /\ handler'[k].pc = handler[k].pc /\ handler'[k].id = handler[k].id
  /\ handler'[k].balance = handler[k].balance /\ handler'[k].fees = handler[k].fees
  /\ handler'[k].ok = handler[k].ok

\* A change of the account marks the requests under it and does nothing else to
\* them.
LEMMA MeetsTyped ==
  ASSUME NEW hs \in [Handlers -> Handler]
  PROVE  /\ Meets(hs) \in [Handlers -> Handler]
         /\ \A k \in Handlers :
              /\ Meets(hs)[k].pc = hs[k].pc /\ Meets(hs)[k].id = hs[k].id
              /\ Meets(hs)[k].balance = hs[k].balance
              /\ Meets(hs)[k].fees = hs[k].fees
              /\ Meets(hs)[k].ok = hs[k].ok
<1>1. \A k \in Handlers :
        /\ [hs[k] EXCEPT !.met = TRUE] \in Handler
        /\ [hs[k] EXCEPT !.met = TRUE].pc = hs[k].pc
        /\ [hs[k] EXCEPT !.met = TRUE].id = hs[k].id
        /\ [hs[k] EXCEPT !.met = TRUE].balance = hs[k].balance
        /\ [hs[k] EXCEPT !.met = TRUE].fees = hs[k].fees
        /\ [hs[k] EXCEPT !.met = TRUE].ok = hs[k].ok
  <2> SUFFICES ASSUME NEW k \in Handlers
               PROVE  LET r == [hs[k] EXCEPT !.met = TRUE] IN
                      /\ r \in Handler
                      /\ r.pc = hs[k].pc /\ r.id = hs[k].id
                      /\ r.balance = hs[k].balance /\ r.fees = hs[k].fees
                      /\ r.ok = hs[k].ok
    BY Zenon
  <2>1. hs[k] \in Handler
    OBVIOUS
  <2> QED BY <2>1, Atoms, Zenon DEF Handler
<1>2. \A k \in Handlers :
        Meets(hs)[k] = hs[k] \/ Meets(hs)[k] = [hs[k] EXCEPT !.met = TRUE]
  BY Zenon DEF Meets
<1>3. \A k \in Handlers : Meets(hs)[k] \in Handler
  BY <1>1, <1>2, Zenon
<1>4. Meets(hs) = [k \in Handlers |-> Meets(hs)[k]]
  BY Zenon DEF Meets
<1>5. Meets(hs) \in [Handlers -> Handler]
  BY <1>3, <1>4, Zenon
<1> QED BY <1>1, <1>2, <1>5, Zenon

\* A START under the change is marked, and nothing else.
LEMMA MetTyped ==
  ASSUME starter \in Starter
  PROVE  /\ Met \in Starter /\ Met.pc = starter.pc
         /\ Met.balance = starter.balance /\ Met.fees = starter.fees
<1>1. (starter.pc # "idle") \in BOOLEAN
  OBVIOUS
<1> QED BY <1>1, Zenon DEF Met, Starter

\* Steps of trading, of the dispatch and of time leave the requests as they were.
LEMMA TradingLeaves ==
  ASSUME TypeOK, Trading \/ Dispatch \/ Expire \/ UNCHANGED vars
  PROVE  /\ UNCHANGED operation /\ handler' \in [Handlers -> Handler]
         /\ \A k \in Handlers : Same(k)
<1>1. handler \in [Handlers -> Handler]
  BY DEF TypeOK
<1>2. handler' = handler \/ handler' = Meets(handler)
  BY Zenon DEF Trading, Dispatch, Expire, vars, StartBalance, StartFees, StartSession,
    Roll, EndSession, Flush, PayoutMarked, PayoutSent, PayoutAnswered, PayoutRecorded,
    PayoutUnrecorded
<1>3. UNCHANGED operation
  BY Zenon DEF Trading, Dispatch, Expire, vars, StartBalance, StartFees, StartSession,
    Roll, EndSession, Flush, PayoutMarked, PayoutSent, PayoutAnswered, PayoutRecorded,
    PayoutUnrecorded, operation
<1>4. CASE handler' = handler
  BY <1>1, <1>3, <1>4, Zenon DEF Same
<1>5. CASE handler' = Meets(handler)
  BY <1>1, <1>3, <1>5, MeetsTyped, Zenon DEF Same
<1> QED BY <1>2, <1>4, <1>5

\* What stays of a request when it moves to pc.
Moved(h, pc) ==
  /\ handler'[h].pc = pc /\ handler'[h].id = handler[h].id
  /\ handler'[h].balance = handler[h].balance /\ handler'[h].fees = handler[h].fees
  /\ handler'[h].ok = handler[h].ok

OthersSame(h) == \A k \in Handlers : k # h => Same(k)

\* Goes changes the place of a request and nothing else.
LEMMA GoesMoves ==
  ASSUME TypeOK, NEW h \in Handlers, NEW pc \in PCs, Goes(h, pc)
  PROVE  handler' \in [Handlers -> Handler] /\ Moved(h, pc) /\ OthersSame(h)
<1>1. handler[h] \in Handler
  BY DEF TypeOK
<1>2. handler'[h] = [handler[h] EXCEPT !.pc = pc]
  BY GoesTyped
<1>3. Moved(h, pc)
  BY <1>1, <1>2, Zenon DEF Moved, Handler
<1>4. OthersSame(h)
  BY GoesTyped, Zenon DEF OthersSame, Same
<1> QED BY <1>3, <1>4, GoesTyped

\* A new request.
LEMMA ReceiveMoves ==
  ASSUME TypeOK, NEW h \in Handlers, NEW id \in Ids, Receive(h, id)
  PROVE  /\ handler' \in [Handlers -> Handler] /\ OthersSame(h)
         /\ handler'[h].pc = "balance" /\ handler'[h].id = id
         /\ handler'[h].ok = FALSE
<1> DEFINE new == [Idle EXCEPT !.pc = "balance", !.id = id]
<1>2. "balance" \in PCs
  BY DEF PCs
<1>3. new \in Handler /\ new.pc = "balance" /\ new.id = id
      /\ new.ok = Idle.ok
  BY <1>2, IdleTyped, Atoms, Zenon DEF Handler, PCs
<1>6. Idle.ok = FALSE
  BY DEF Idle
<1>4. handler' = [handler EXCEPT ![h] = new]
  BY Zenon DEF Receive
<1> HIDE DEF new
<1>5. handler \in [Handlers -> Handler]
  BY DEF TypeOK
<1> QED BY <1>3, <1>4, <1>5, <1>6, Zenon DEF OthersSame, Same

\* The balance a request reads is a number.
LEMMA KnownTyped == ASSUME TypeOK PROVE Known \in Nat
BY DEF TypeOK, Known

\* A request reads the balance.
LEMMA ReadBalanceMoves ==
  ASSUME TypeOK, NEW h \in Handlers, ReadBalance(h)
  PROVE  /\ handler' \in [Handlers -> Handler] /\ OthersSame(h)
         /\ handler'[h].pc = "fees" /\ handler'[h].id = handler[h].id
         /\ handler'[h].ok = handler[h].ok
<1> DEFINE new == [handler[h] EXCEPT !.pc = "fees", !.balance = Known, !.met = Clearing]
<1>1. handler \in [Handlers -> Handler] /\ handler[h] \in Handler
  BY DEF TypeOK
<1>2. "fees" \in PCs /\ Clearing \in BOOLEAN
  BY DEF PCs, Clearing
<1>3. new \in Handler /\ new.pc = "fees" /\ new.id = handler[h].id
      /\ new.ok = handler[h].ok
  BY <1>1, <1>2, KnownTyped, Zenon DEF Handler, PCs
<1>4. handler' = [handler EXCEPT ![h] = new]
  BY Zenon DEF ReadBalance
<1> HIDE DEF new
<1> QED BY <1>1, <1>3, <1>4, Zenon DEF OthersSame, Same

\* A request goes on with what the fees leave, or is refused.
LEMMA ReadFeesMoves ==
  ASSUME TypeOK, NEW h \in Handlers, ReadFees(h)
  PROVE  /\ handler' \in [Handlers -> Handler] /\ OthersSame(h)
         /\ \/ handler'[h].pc = "idle"
            \/ /\ handler'[h].pc = "row" /\ handler'[h].id = handler[h].id
               /\ handler'[h].ok = handler[h].ok
               /\ handler'[h].fees + Amount <= handler'[h].balance
<1>1. handler \in [Handlers -> Handler] /\ handler[h] \in Handler
  BY DEF TypeOK
<1>2. CASE Replies(h)
  <2>1. OthersSame(h)
    BY <1>2, RepliesTyped, Zenon DEF OthersSame, Same
  <2> QED BY <1>2, <2>1, RepliesTyped
<1>3. CASE ~Replies(h)
  <2> DEFINE new == [handler[h] EXCEPT !.pc = "row", !.fees = fees]
  <2>1. handler' = [handler EXCEPT ![h] = new]
    BY <1>3, Zenon DEF ReadFees
  <2>2. Available(handler[h].balance, fees) >= Amount
    <3>1. Available(handler[h].balance, fees) \in Int /\ Amount \in Nat
      BY <1>1, WalletAssumption DEF Available, Handler, TypeOK
    <3>2. ~(Available(handler[h].balance, fees) < Amount)
      BY <1>3, Zenon DEF ReadFees
    <3> QED BY <3>1, <3>2
  <2>3. fees + Amount <= handler[h].balance
    BY <1>1, <2>2, WalletAssumption DEF Available, Handler, TypeOK
  <2>4. "row" \in PCs /\ fees \in Nat
    BY DEF PCs, TypeOK
  <2>5. new \in Handler /\ new.pc = "row" /\ new.id = handler[h].id
        /\ new.fees = fees
        /\ new.balance = handler[h].balance /\ new.ok = handler[h].ok
    BY <1>1, <2>4, Zenon DEF Handler, PCs
  <2> HIDE DEF new
  <2>6. handler' \in [Handlers -> Handler] /\ handler'[h] = new /\ OthersSame(h)
    BY <1>1, <2>1, <2>5, Zenon DEF OthersSame, Same
  <2> QED BY <2>3, <2>5, <2>6
<1> QED BY <1>2, <1>3

\* What a payment does.
LEMMA PayDoes ==
  ASSUME TypeOK, NEW h \in Handlers, handler[h].id \in Ids, Pay(h)
  PROVE  /\ provider' \in Nat /\ provider' = provider - Amount
         /\ paid' \in [Ids -> Nat]
         /\ paid'[handler[h].id] = paid[handler[h].id] + 1
         /\ \A id \in Ids : id # handler[h].id => paid'[id] = paid[id]
         /\ starter' \in Starter /\ starter'.pc = starter.pc
         /\ starter'.balance = starter.balance /\ starter'.fees = starter.fees
         /\ stale' \in BOOLEAN /\ fees' = fees /\ held' = held /\ payout' = payout
<1>1. provider \in Nat /\ Amount \in Nat /\ paid \in [Ids -> Nat] /\ starter \in Starter
  BY WalletAssumption DEF TypeOK
<1>2. provider' \in Nat /\ provider' = provider - Amount
  BY <1>1 DEF Pay
<1>3. /\ paid' \in [Ids -> Nat]
      /\ paid'[handler[h].id] = paid[handler[h].id] + 1
      /\ \A id \in Ids : id # handler[h].id => paid'[id] = paid[id]
  <2>1. paid[handler[h].id] \in Nat
    BY <1>1
  <2>2. paid' = [paid EXCEPT ![handler[h].id] = paid[handler[h].id] + 1]
    BY DEF Pay
  <2> QED BY <1>1, <2>1, <2>2
<1>4. /\ starter' \in Starter /\ starter'.pc = starter.pc
      /\ starter'.balance = starter.balance /\ starter'.fees = starter.fees
  <2>1. starter' = Met
    BY DEF Pay
  <2> QED BY <1>1, <2>1, MetTyped
<1>5. stale' \in BOOLEAN /\ fees' = fees /\ held' = held /\ payout' = payout
  <2>1. stale' = (stale \/ provider < handler[h].balance \/ Owed > handler[h].fees
                        \/ session.status # "NONE")
    BY Zenon DEF Pay
  <2>2. fees' = fees /\ held' = held /\ payout' = payout
    BY DEF Pay
  <2> QED BY <2>1, <2>2
<1> QED BY <1>2, <1>3, <1>4, <1>5

\* Where a payment leaves the requests: with an answer, without, or refused.
LEMMA SendMoves ==
  ASSUME TypeOK, NEW h \in Handlers, Send(h)
  PROVE  /\ handler' \in [Handlers -> Handler] /\ OthersSame(h)
         /\ handler[h].pc = "send" /\ handler[h].id \in Ids
         /\ handler'[h].id = handler[h].id
         /\ handler'[h].balance = handler[h].balance
         /\ handler'[h].fees = handler[h].fees
         /\ \/ Pay(h) /\ handler'[h].pc = "answer" /\ handler'[h].ok
            \/ /\ Pay(h) /\ handler'[h].pc = "finish" /\ handler'[h].ok = handler[h].ok
               /\ unclear' = unclear \cup {handler[h].id}
            \/ /\ UNCHANGED <<account, starter, paid, stale>>
               /\ handler'[h].pc = "finish" /\ handler'[h].ok = handler[h].ok
<1>1. /\ handler \in [Handlers -> Handler] /\ handler[h] \in Handler
      /\ handler[h].pc = "send" /\ handler[h].id \in Ids
  <2>1. handler[h].pc = "send"
    BY DEF Send
  <2> QED BY <2>1 DEF TypeOK
<1>2. "answer" \in PCs /\ "finish" \in PCs
  BY DEF PCs, Working
<1> DEFINE a == [handler EXCEPT ![h].pc = "answer", ![h].ok = TRUE]
           f == [handler EXCEPT ![h].pc = "finish"]
<1>3. /\ a \in [Handlers -> Handler] /\ a[h].pc = "answer" /\ a[h].ok
      /\ a[h].id = handler[h].id /\ a[h].balance = handler[h].balance
      /\ a[h].fees = handler[h].fees
      /\ \A k \in Handlers : k # h => a[k] = handler[k]
  <2> DEFINE new == [handler[h] EXCEPT !.pc = "answer", !.ok = TRUE]
  <2>1. new \in Handler /\ new.pc = "answer" /\ new.ok
        /\ new.id = handler[h].id /\ new.balance = handler[h].balance
        /\ new.fees = handler[h].fees
    BY <1>1, <1>2, Atoms, Zenon DEF Handler, PCs
  <2>2. a = [handler EXCEPT ![h] = new]
    OBVIOUS
  <2> HIDE DEF new, a
  <2> QED BY <1>1, <2>1, <2>2, Zenon
<1>4. /\ f \in [Handlers -> Handler] /\ f[h].pc = "finish" /\ f[h].ok = handler[h].ok
      /\ f[h].id = handler[h].id /\ f[h].balance = handler[h].balance
      /\ f[h].fees = handler[h].fees
      /\ \A k \in Handlers : k # h => f[k] = handler[k]
  <2> DEFINE new == [handler[h] EXCEPT !.pc = "finish"]
  <2>1. new \in Handler /\ new.pc = "finish" /\ new.ok = handler[h].ok
        /\ new.id = handler[h].id /\ new.balance = handler[h].balance
        /\ new.fees = handler[h].fees
    BY <1>1, <1>2, Zenon DEF Handler, PCs
  <2>2. f = [handler EXCEPT ![h] = new]
    OBVIOUS
  <2> HIDE DEF new, f
  <2> QED BY <1>1, <2>1, <2>2, Zenon
<1> HIDE DEF a, f
<1>5. CASE Pay(h) /\ handler' = Meets(a)
  <2>1. /\ handler' \in [Handlers -> Handler]
        /\ \A k \in Handlers :
             /\ handler'[k].pc = a[k].pc /\ handler'[k].id = a[k].id
             /\ handler'[k].balance = a[k].balance
             /\ handler'[k].fees = a[k].fees
             /\ handler'[k].ok = a[k].ok
    BY <1>3, <1>5, MeetsTyped, Zenon
  <2>2. OthersSame(h)
    <3> SUFFICES ASSUME NEW k \in Handlers, k # h PROVE Same(k)
      BY DEF OthersSame
    <3> QED BY <1>3, <2>1 DEF Same
  <2> QED BY <1>1, <1>3, <1>5, <2>1, <2>2, Zenon
<1>6. CASE Pay(h) /\ handler' = Meets(f) /\ unclear' = unclear \cup {handler[h].id}
  <2>1. /\ handler' \in [Handlers -> Handler]
        /\ \A k \in Handlers :
             /\ handler'[k].pc = f[k].pc /\ handler'[k].id = f[k].id
             /\ handler'[k].balance = f[k].balance
             /\ handler'[k].fees = f[k].fees
             /\ handler'[k].ok = f[k].ok
    BY <1>4, <1>6, MeetsTyped, Zenon
  <2>2. OthersSame(h)
    <3> SUFFICES ASSUME NEW k \in Handlers, k # h PROVE Same(k)
      BY DEF OthersSame
    <3> QED BY <1>4, <2>1 DEF Same
  <2> QED BY <1>1, <1>4, <1>6, <2>1, <2>2, Zenon
<1>7. CASE handler' = f /\ UNCHANGED <<account, starter, paid, stale>>
  BY <1>1, <1>4, <1>7, Zenon DEF OthersSame, Same
<1>8. \/ Pay(h) /\ handler' = Meets(a)
      \/ Pay(h) /\ handler' = Meets(f) /\ unclear' = unclear \cup {handler[h].id}
      \/ handler' = f /\ UNCHANGED <<account, starter, paid, stale>>
  BY Zenon DEF Send, Goes, a, f
<1> QED BY <1>5, <1>6, <1>7, <1>8

\* A request that is left pays once it was sent, or does nothing.
LEMMA LeaveMoves ==
  ASSUME TypeOK, NEW h \in Handlers, Leave(h)
  PROVE  /\ handler' \in [Handlers -> Handler] /\ OthersSame(h)
         /\ handler'[h].pc = "idle"
         /\ \/ /\ Pay(h) /\ handler[h].pc = "send" /\ handler[h].id \in Ids
               /\ unclear' = unclear \cup {handler[h].id}
            \/ UNCHANGED <<account, starter, paid, unclear, stale>>
<1>1. handler \in [Handlers -> Handler]
  BY DEF TypeOK
<1> DEFINE i == [handler EXCEPT ![h] = Idle]
<1>2. /\ i \in [Handlers -> Handler] /\ i[h].pc = "idle"
      /\ \A k \in Handlers : k # h => i[k] = handler[k]
  BY <1>1, IdleTyped, Zenon
<1> HIDE DEF i
<1>3. CASE /\ Pay(h) /\ handler[h].pc = "send" /\ handler' = Meets(i)
           /\ unclear' = unclear \cup {handler[h].id}
  <2>1. handler[h].id \in Ids
    BY <1>3 DEF TypeOK
  <2>2. /\ handler' \in [Handlers -> Handler]
        /\ \A k \in Handlers :
             /\ handler'[k].pc = i[k].pc /\ handler'[k].id = i[k].id
             /\ handler'[k].balance = i[k].balance
             /\ handler'[k].fees = i[k].fees
             /\ handler'[k].ok = i[k].ok
    BY <1>2, <1>3, MeetsTyped, Zenon
  <2>3. OthersSame(h)
    <3> SUFFICES ASSUME NEW k \in Handlers, k # h PROVE Same(k)
      BY DEF OthersSame
    <3> QED BY <1>2, <2>2 DEF Same
  <2> QED BY <1>2, <1>3, <2>1, <2>2, <2>3, Zenon
<1>4. CASE handler' = i /\ UNCHANGED <<account, starter, paid, unclear, stale>>
  BY <1>2, <1>4, Zenon DEF OthersSame, Same
<1>5. \/ /\ Pay(h) /\ handler[h].pc = "send" /\ handler' = Meets(i)
         /\ unclear' = unclear \cup {handler[h].id}
      \/ handler' = i /\ UNCHANGED <<account, starter, paid, unclear, stale>>
  BY Zenon DEF Leave, Replies, i
<1> QED BY <1>3, <1>4, <1>5

\* The row a request records its outcome in, and the others.
LEMMA FinishMoves ==
  ASSUME TypeOK, NEW h \in Handlers, Finish(h)
  PROVE  /\ handler' \in [Handlers -> Handler] /\ OthersSame(h)
         /\ handler'[h].pc = "idle"
         /\ handler[h].pc \in {"finish", "again"} /\ handler[h].id \in DOMAIN row
         /\ DOMAIN row' = DOMAIN row /\ row' \in [DOMAIN row -> Status]
         /\ \A id \in DOMAIN row : id # handler[h].id => row'[id] = row[id]
         /\ row[handler[h].id] # "PROCESSING" =>
              row'[handler[h].id] = row[handler[h].id]
         /\ row[handler[h].id] = "PROCESSING" =>
              row'[handler[h].id] =
                IF handler[h].pc = "again" \/ handler[h].ok THEN "COMPLETED" ELSE "FAILED"
<1> DEFINE id == handler[h].id
           status == CASE handler[h].pc = "again" -> Again(h)
                       [] handler[h].ok -> "COMPLETED"
                       [] OTHER -> "FAILED"
<1>1. handler[h].pc \in {"finish", "again"} /\ id \in DOMAIN row
  <2>1. handler[h].pc \in {"finish", "again"}
    BY DEF Finish
  <2> QED BY <2>1 DEF TypeOK, Working
<1>2. status = IF handler[h].pc = "again" \/ handler[h].ok
               THEN "COMPLETED" ELSE "FAILED"
  BY Zenon DEF Again
<1>3. status \in Status
  BY <1>2 DEF Status
<1>4. row' = [row EXCEPT ![id] = IF row[id] = "PROCESSING" THEN status ELSE row[id]]
  BY Zenon DEF Finish
<1>5. row \in [DOMAIN row -> Status] /\ row[id] \in Status
  BY <1>1 DEF TypeOK
<1> HIDE DEF status, id
<1>6. /\ DOMAIN row' = DOMAIN row /\ row' \in [DOMAIN row -> Status]
      /\ \A i \in DOMAIN row : i # id => row'[i] = row[i]
      /\ row'[id] = IF row[id] = "PROCESSING" THEN status ELSE row[id]
  BY <1>1, <1>3, <1>4, <1>5
<1>7. /\ handler' \in [Handlers -> Handler] /\ OthersSame(h)
      /\ handler'[h].pc = "idle"
  <2>1. Replies(h)
    BY DEF Finish
  <2> QED BY <2>1, RepliesTyped, Zenon DEF OthersSame, Same
<1> QED BY <1>1, <1>2, <1>6, <1>7 DEF id

\* A request that gets its row gets a new one.
LEMMA InsertMoves ==
  ASSUME TypeOK, NEW h \in Handlers, InsertRow(h)
  PROVE  /\ handler' \in [Handlers -> Handler] /\ OthersSame(h)
         /\ handler[h].pc = "insert" /\ handler[h].id \in Ids
         /\ \/ handler'[h].pc = "idle" /\ row' = row
            \/ /\ Moved(h, "send") /\ handler[h].id \notin DOMAIN row
               /\ DOMAIN row' = DOMAIN row \cup {handler[h].id}
               /\ row' \in [DOMAIN row' -> Status]
               /\ row'[handler[h].id] = "PROCESSING"
               /\ \A id \in DOMAIN row : row'[id] = row[id]
<1>1. handler[h].pc = "insert" /\ handler[h].id \in Ids
  <2>1. handler[h].pc = "insert"
    BY DEF InsertRow
  <2> QED BY <2>1 DEF TypeOK
<1>2. CASE Replies(h) /\ row' = row
  BY <1>1, <1>2, RepliesTyped, Zenon DEF OthersSame, Same
<1>3. CASE ~(Replies(h) /\ row' = row)
  <2>1. /\ handler[h].id \notin DOMAIN row /\ Goes(h, "send")
        /\ row' = [id \in DOMAIN row \cup {handler[h].id} |->
                     IF id = handler[h].id THEN "PROCESSING" ELSE row[id]]
    BY <1>3, Zenon DEF InsertRow, Inserted
  <2>2. /\ DOMAIN row' = DOMAIN row \cup {handler[h].id}
        /\ row'[handler[h].id] = "PROCESSING"
        /\ \A id \in DOMAIN row : row'[id] = row[id]
    BY <2>1
  <2>3. row' \in [DOMAIN row' -> Status]
    <3>1. row \in [DOMAIN row -> Status] /\ "PROCESSING" \in Status
      BY DEF TypeOK, Status
    <3> QED BY <2>1, <3>1
  <2>4. "send" \in PCs
    BY DEF PCs, Working
  <2> QED BY <1>1, <2>1, <2>2, <2>3, <2>4, GoesMoves
<1> QED BY <1>2, <1>3

-----------------------------------------------------------------------------
(* Types *)

\* A START that will open a session has something to open it with.
StartCovered ==
  /\ starter.pc = "insert" => starter.balance - starter.fees >= 1
  /\ starter.pc # "idle" => sessions < MaxSessions

Typed == TypeOK /\ StartCovered

\* What TypeOK says of the requests.
HandlersOK ==
  /\ handler \in [Handlers -> Handler]
  /\ \A h \in Handlers :
       /\ handler[h].pc # "idle" => handler[h].id \in Ids
       /\ handler[h].pc \in Working => handler[h].id \in DOMAIN row

RowsOK ==
  /\ DOMAIN row \subseteq Ids /\ row \in [DOMAIN row -> Status]
  /\ paid \in [Ids -> Nat] /\ unclear \subseteq Ids

CountsOK ==
  /\ served \in 0..MaxServed /\ sessions \in 0..MaxSessions
  /\ rolls \in 0..MaxRolls /\ troubles \in 0..MaxTroubles

AccountOK ==
  /\ provider \in Nat /\ fees \in Nat /\ held \in Nat /\ cache \in Nat \cup {None}
  /\ payout \in Payout /\ session \in Session
  /\ session.late = 1 => session.status = "RECONCILIATION_REQUIRED"
  /\ starter \in Starter /\ stale \in BOOLEAN

\* TypeOK by its parts.
LEMMA TypeParts == TypeOK <=> HandlersOK /\ RowsOK /\ CountsOK /\ AccountOK
BY Zenon DEF TypeOK, HandlersOK, RowsOK, CountsOK, AccountOK

\* There is no payout to begin with.
LEMMA NoPayoutTyped ==
  NoPayout \in Payout /\ NoPayout.pc = "idle" /\ NoPayout.amount = 0 /\ NoPayout.moved = 0
<1>1. "idle" \in {"idle", "send", "answer", "record", "review"}
  OBVIOUS
<1> QED BY <1>1, Atoms, Zenon DEF NoPayout, Payout

\* The first state is typed.
LEMMA TypedInit == Init => Typed
<1> SUFFICES ASSUME Init PROVE Typed
  OBVIOUS
<1>1. HandlersOK
  <2>1. "idle" \notin Working
    BY DEF Working
  <2> QED BY <2>1, IdleTyped, Zenon DEF Init, HandlersOK
<1>2. RowsOK
  BY DEF Init, RowsOK
<1>3. CountsOK
  BY WalletAssumption DEF Init, CountsOK
<1>4. AccountOK
  <2>1. provider \in Nat
    BY WalletAssumption DEF Init
  <2>2. fees \in Nat /\ held \in Nat /\ stale \in BOOLEAN /\ cache \in Nat \cup {None}
    BY DEF Init
  <2>3. session \in Session /\ session.late = 0 /\ starter \in Starter
    BY NoSessionTyped, NoStartTyped DEF Init
  <2>4. payout \in Payout
    BY NoPayoutTyped DEF Init
  <2> QED BY <2>1, <2>2, <2>3, <2>4 DEF AccountOK
<1>5. StartCovered
  BY NoStartTyped DEF Init, StartCovered, NoStart
<1> QED BY <1>1, <1>2, <1>3, <1>4, <1>5, TypeParts DEF Typed

\* Counting up to a bound.
LEMMA TroubleTyped == ASSUME TypeOK, Trouble PROVE troubles' \in 0..MaxTroubles
BY WalletAssumption DEF TypeOK, Trouble

\* A request that moves keeps the requests typed if it is typed itself.
LEMMA HandlersKept ==
  ASSUME HandlersOK, NEW h \in Handlers, OthersSame(h),
         handler' \in [Handlers -> Handler],
         DOMAIN row \subseteq DOMAIN row',
         handler'[h].pc # "idle" => handler'[h].id \in Ids,
         handler'[h].pc \in Working => handler'[h].id \in DOMAIN row'
  PROVE  HandlersOK'
BY DEF HandlersOK, OthersSame, Same

\* Steps of trading keep the account typed.
LEMMA TradingTyped ==
  ASSUME Typed, Trading \/ Dispatch \/ Expire \/ UNCHANGED vars
  PROVE  Typed'
<1>0. TypeOK /\ StartCovered /\ HandlersOK /\ RowsOK /\ CountsOK /\ AccountOK
  BY TypeParts DEF Typed
<1>1. HandlersOK'
  BY <1>0, TradingLeaves, Zenon DEF HandlersOK, Same, operation
<1>2. RowsOK'
  BY <1>0, TradingLeaves DEF RowsOK, operation
<1>9. HandlersOK' /\ RowsOK' /\ CountsOK' /\ AccountOK' /\ StartCovered' => Typed'
  BY Zenon DEF HandlersOK, RowsOK, CountsOK, AccountOK, TypeOK, Typed
<1> SUFFICES CountsOK' /\ AccountOK' /\ StartCovered'
  BY <1>1, <1>2, <1>9
<1> USE DEF AccountOK, StartCovered, CountsOK
<1>3. CASE StartBalance
  <2>1. starter' \in Starter /\ starter'.pc = "fees"
    <3>1. Clearing \in BOOLEAN /\ "fees" \in {"idle", "fees", "insert"} /\ Known \in Nat
      BY <1>0, KnownTyped DEF Clearing
    <3> QED BY <1>3, <3>1, Atoms, Zenon DEF StartBalance, Starter
  <2>2. cache' \in Nat
    BY <1>0, <1>3, KnownTyped DEF StartBalance
  <2> QED BY <1>0, <1>3, <2>1, <2>2
        DEF StartBalance, account, counts
<1>4. CASE StartFees
  <2>1. starter' \in Starter /\ StartCovered'
    <3>1. CASE Opens(starter.balance, fees)
      <4> DEFINE new == [starter EXCEPT !.pc = "insert", !.fees = fees]
      <4>1. "insert" \in {"idle", "fees", "insert"}
        OBVIOUS
      <4>2. /\ new \in Starter /\ new.pc = "insert"
            /\ new.balance = starter.balance /\ new.fees = fees
        BY <1>0, <4>1, Zenon DEF Starter
      <4>3. starter' = new
        BY <1>4, <3>1, Zenon DEF StartFees
      <4> HIDE DEF new
      <4>4. starter.balance - fees >= 1
        BY <3>1 DEF Opens
      <4>5. sessions < MaxSessions /\ sessions' = sessions
        BY <1>0, <1>4 DEF StartFees, counts
      <4> QED BY <4>2, <4>3, <4>4, <4>5
    <3>2. CASE ~Opens(starter.balance, fees)
      BY <1>4, <3>2, NoStartTyped DEF StartFees
    <3> QED BY <3>1, <3>2
  <2> QED BY <1>0, <1>4, <2>1
        DEF StartFees, account, counts
<1>5. CASE StartSession
  <2>1. starter.balance - starter.fees \in Nat
    BY <1>0, <1>5 DEF StartSession, Starter
  <2>2. session' \in Session /\ session'.late = 0
    <3>1. /\ "RUNNING" \in {"NONE", "RUNNING", "RECONCILIATION_REQUIRED"}
          /\ 0 \in {0, 1}
      OBVIOUS
    <3> QED BY <1>5, <2>1, <3>1, Zenon DEF StartSession, Session
  <2>3. sessions' \in 0..MaxSessions
    <3>1. sessions \in 0..MaxSessions /\ sessions < MaxSessions /\ MaxSessions \in Nat
      BY <1>0, <1>5, WalletAssumption DEF StartSession
    <3>2. sessions' = sessions + 1
      BY <1>5 DEF StartSession
    <3> QED BY <3>1, <3>2
  <2>4. stale' \in BOOLEAN
    BY <1>0, <1>5 DEF StartSession
  <2>5. starter' \in Starter /\ starter'.pc = "idle"
    BY <1>5, NoStartTyped DEF StartSession
  <2> QED BY <1>0, <1>5, <2>2, <2>3, <2>4, <2>5
        DEF StartSession, account
<1>6. CASE Roll
  <2>1. session.visible \in Nat /\ session.visible - 1 \in Nat /\ provider - 1 \in Nat
    <3>1. session.visible \in Nat /\ provider \in Nat
      BY <1>0 DEF Session
    <3>2. session.visible >= 1 /\ provider >= 1
      BY <1>6 DEF Roll
    <3> QED BY <3>1, <3>2
  <2>2. session.late = 0 /\ session.status = "RUNNING"
    BY <1>0, <1>6 DEF Roll, Session
  <2>3. session' \in Session
        /\ (session'.late = 1 => session'.status = "RECONCILIATION_REQUIRED")
    <3>1. ASSUME NEW v \in Nat, session' = [session EXCEPT !.visible = v]
          PROVE  session' \in Session /\ session'.late = 0
      BY <1>0, <2>2, <3>1, Zenon DEF Session
    <3>2. ASSUME NEW l \in {0, 1},
                 session' = [session EXCEPT !.status = "RECONCILIATION_REQUIRED",
                                            !.late = l]
          PROVE  session' \in Session /\ session'.status = "RECONCILIATION_REQUIRED"
      <4>1. "RECONCILIATION_REQUIRED" \in {"NONE", "RUNNING", "RECONCILIATION_REQUIRED"}
        OBVIOUS
      <4> QED BY <1>0, <3>2, <4>1, Zenon DEF Session
    <3>3. \/ session' = [session EXCEPT !.visible = session.visible - 1]
          \/ session' = [session EXCEPT !.visible = session.visible + 1]
          \/ session' = NoSession
          \/ \E l \in {0, 1} :
               session' = [session EXCEPT !.status = "RECONCILIATION_REQUIRED",
                                          !.late = l]
      BY <1>6, Zenon DEF Roll
    <3>4. session.visible + 1 \in Nat
      BY <2>1
    <3> QED BY <2>1, <3>1, <3>2, <3>3, <3>4, NoSessionTyped
  <2>4. provider' \in Nat /\ held' \in Nat /\ cache' \in Nat \cup {None}
    <3>1. provider' = provider - 1 \/ provider' = provider + 2
      BY <1>6, Zenon DEF Roll
    <3>2. held' = held \/ held' = held + 1 \/ held' = 0
      BY <1>6, Zenon DEF Roll
    <3>3. cache' = cache \/ cache' = None
      BY <1>6, Zenon DEF Roll
    <3> QED BY <1>0, <2>1, <3>1, <3>2, <3>3
  <2>5. rolls' \in 0..MaxRolls /\ troubles' \in 0..MaxTroubles
    <3>1. Trouble \/ troubles' = troubles
      BY <1>6, Zenon DEF Roll
    <3>2. rolls < MaxRolls /\ rolls' = rolls + 1
      BY <1>6 DEF Roll
    <3> QED BY <1>0, <3>1, <3>2, TroubleTyped, WalletAssumption
  <2>6. /\ starter' \in Starter /\ starter'.pc = starter.pc
        /\ starter'.balance = starter.balance /\ starter'.fees = starter.fees
    <3>1. starter' = Met
      BY <1>6 DEF Roll
    <3> QED BY <1>0, <3>1, MetTyped
  <2> QED BY <1>0, <1>6, <2>3, <2>4, <2>5, <2>6 DEF Roll
<1>7. CASE EndSession \/ Flush
  <2>1. /\ starter' \in Starter /\ starter'.pc = starter.pc
        /\ starter'.balance = starter.balance /\ starter'.fees = starter.fees
    <3>1. starter' = Met
      BY <1>7 DEF EndSession, Flush
    <3> QED BY <1>0, <3>1, MetTyped
  <2>2. /\ provider' \in Nat /\ fees' \in Nat /\ held' \in Nat
        /\ cache' \in Nat \cup {None}
    <3>1. session.late \in Nat
      BY <1>0 DEF Session
    <3> QED BY <1>0, <1>7, <3>1 DEF EndSession, Flush
  <2>3. session' = session \/ session' = NoSession
    BY <1>7 DEF EndSession, Flush
  <2> QED BY <1>0, <1>7, <2>1, <2>2, <2>3, NoSessionTyped
        DEF EndSession, Flush, counts
<1>8. CASE Expire \/ UNCHANGED vars
  BY <1>0, <1>8 DEF Expire, vars, account, counts
<1>10. ASSUME NEW pc \in {"idle", "send", "answer", "record", "review"}, To(pc)
       PROVE  payout' \in Payout
  BY <1>0, <1>10, Zenon DEF To, Payout
<1>11. CASE PayoutMarked
  <2>1. payout' \in Payout
    BY <1>0, <1>11, Atoms DEF PayoutMarked, Payout
  <2> QED BY <1>0, <1>11, <2>1 DEF PayoutMarked, counts
<1>12. CASE PayoutSent
  <2>1. payout' \in Payout
    <3>1. ASSUME NEW pc \in {"answer", "review"},
                 payout' = [payout EXCEPT !.pc = pc, !.moved = payout.amount]
          PROVE  payout' \in Payout
      BY <1>0, <3>1 DEF Payout
    <3> QED BY <1>10, <1>12, <3>1, Zenon DEF PayoutSent
  <2>2. provider' \in Nat
    BY <1>0, <1>12 DEF PayoutSent, Payout
  <2>3. troubles' \in 0..MaxTroubles
    <3>1. Trouble \/ troubles' = troubles
      BY <1>12, Zenon DEF PayoutSent
    <3> QED BY <1>0, <3>1, TroubleTyped
  <2>4. /\ starter' \in Starter /\ starter'.pc = starter.pc
        /\ starter'.balance = starter.balance /\ starter'.fees = starter.fees
    <3>1. starter' = Met \/ starter' = starter
      BY <1>12, Zenon DEF PayoutSent
    <3> QED BY <1>0, <3>1, MetTyped
  <2> QED BY <1>0, <1>12, <2>1, <2>2, <2>3, <2>4 DEF PayoutSent, counts
<1>13. CASE PayoutAnswered \/ PayoutUnrecorded
  <2>1. payout' \in Payout
    BY <1>10, <1>13 DEF PayoutAnswered, PayoutUnrecorded
  <2>2. troubles' \in 0..MaxTroubles
    BY <1>0, <1>13, TroubleTyped DEF PayoutAnswered, PayoutUnrecorded
  <2>3. cache' \in Nat \cup {None}
    BY <1>0, <1>13 DEF PayoutAnswered, PayoutUnrecorded
  <2> QED BY <1>0, <1>13, <2>1, <2>2, <2>3
        DEF PayoutAnswered, PayoutUnrecorded, counts
<1>14. CASE PayoutRecorded
  <2>1. payout' \in Payout
    BY <1>14, NoPayoutTyped DEF PayoutRecorded
  <2>2. fees' \in Nat
    BY <1>0, <1>14 DEF PayoutRecorded, Booked, Payout
  <2>3. /\ starter' \in Starter /\ starter'.pc = starter.pc
        /\ starter'.balance = starter.balance /\ starter'.fees = starter.fees
    <3>1. starter' = Met
      BY <1>14 DEF PayoutRecorded
    <3> QED BY <1>0, <3>1, MetTyped
  <2> QED BY <1>0, <1>14, <2>1, <2>2, <2>3 DEF PayoutRecorded, counts
<1> QED
  BY <1>3, <1>4, <1>5, <1>6, <1>7, <1>8, <1>11, <1>12, <1>13, <1>14
  DEF Trading, Dispatch

\* Every step keeps the types.
LEMMA TypedStep == Typed /\ [Next]_vars => Typed'
<1> SUFFICES ASSUME Typed, [Next]_vars PROVE Typed'
  OBVIOUS
<1>0. TypeOK /\ StartCovered /\ HandlersOK /\ RowsOK /\ CountsOK /\ AccountOK
  BY TypeParts DEF Typed
<1>9. HandlersOK' /\ RowsOK' /\ CountsOK' /\ AccountOK' /\ StartCovered' => Typed'
  BY Zenon DEF HandlersOK, RowsOK, CountsOK, AccountOK, TypeOK, Typed
<1>1. CASE Trading \/ Dispatch \/ Expire \/ UNCHANGED vars
  BY <1>1, TradingTyped
<1>2. ASSUME NEW h \in Handlers, NEW id \in Ids, Receive(h, id) PROVE Typed'
  <2>1. HandlersOK'
    <3>1. DOMAIN row' = DOMAIN row /\ "balance" \notin Working
      BY <1>2 DEF Receive, operation, Working
    <3> QED BY <1>0, <1>2, <3>1, ReceiveMoves, HandlersKept
  <2>2. served' \in 0..MaxServed
    BY <1>0, <1>2, WalletAssumption DEF Receive, CountsOK
  <2> QED BY <1>0, <1>2, <1>9, <2>1, <2>2
        DEF Receive, RowsOK, CountsOK, AccountOK, StartCovered, account, operation
<1>3. ASSUME NEW h \in Handlers, ReadBalance(h) PROVE Typed'
  <2>1. HandlersOK'
    <3>1. DOMAIN row' = DOMAIN row /\ "fees" \notin Working /\ handler[h].pc # "idle"
      BY <1>3 DEF ReadBalance, operation, Working
    <3>2. handler'[h].id \in Ids
      BY <1>0, <1>3, <3>1, ReadBalanceMoves DEF HandlersOK
    <3> QED BY <1>0, <1>3, <3>1, <3>2, ReadBalanceMoves, HandlersKept
  <2>2. cache' \in Nat
    BY <1>0, <1>3, KnownTyped DEF ReadBalance
  <2> QED BY <1>0, <1>3, <1>9, <2>1, <2>2
        DEF ReadBalance, RowsOK, CountsOK, AccountOK, StartCovered,
            account, operation, counts
<1>4. ASSUME NEW h \in Handlers, ReadFees(h) PROVE Typed'
  <2>1. HandlersOK'
    <3>1. /\ DOMAIN row' = DOMAIN row /\ "row" \notin Working /\ "idle" \notin Working
          /\ handler[h].pc # "idle"
      BY <1>4 DEF ReadFees, operation, Working
    <3>2. handler[h].id \in Ids
      BY <1>0, <3>1 DEF HandlersOK
    <3> QED BY <1>0, <1>4, <3>1, <3>2, ReadFeesMoves, HandlersKept
  <2> QED BY <1>0, <1>4, <1>9, <2>1
        DEF ReadFees, RowsOK, CountsOK, AccountOK, StartCovered,
            account, operation, counts
<1>5. ASSUME NEW h \in Handlers, SelectRow(h) PROVE Typed'
  <2>1. HandlersOK'
    <3>1. /\ DOMAIN row' = DOMAIN row /\ "insert" \notin Working /\ "insert" \in PCs
          /\ "idle" \notin Working /\ handler[h].pc # "idle"
      BY <1>5 DEF SelectRow, operation, Working, PCs
    <3>2. handler[h].id \in Ids
      BY <1>0, <3>1 DEF HandlersOK
    <3>3. CASE Replies(h)
      <4>1. OthersSame(h)
        BY <1>0, <3>3, RepliesTyped, Zenon DEF OthersSame, Same
      <4> QED BY <1>0, <3>1, <3>3, <4>1, RepliesTyped, HandlersKept
    <3>4. CASE Goes(h, "insert")
      <4>1. Moved(h, "insert") /\ OthersSame(h) /\ handler' \in [Handlers -> Handler]
        BY <1>0, <3>1, <3>4, GoesMoves
      <4> QED BY <1>0, <3>1, <3>2, <4>1, HandlersKept DEF Moved
    <3> QED BY <1>5, <3>3, <3>4 DEF SelectRow
  <2> QED BY <1>0, <1>5, <1>9, <2>1
        DEF SelectRow, RowsOK, CountsOK, AccountOK, StartCovered,
            account, operation, counts
<1>6. ASSUME NEW h \in Handlers, InsertRow(h) PROVE Typed'
  <2>1. HandlersOK'
    <3>1. "idle" \notin Working
      BY DEF Working
    <3>2. DOMAIN row \subseteq DOMAIN row'
      BY <1>0, <1>6, InsertMoves
    <3>3. CASE handler'[h].pc = "idle"
      BY <1>0, <1>6, <3>1, <3>2, <3>3, InsertMoves, HandlersKept
    <3>4. CASE Moved(h, "send") /\ DOMAIN row' = DOMAIN row \cup {handler[h].id}
      <4>1. handler'[h].id \in Ids /\ handler'[h].id \in DOMAIN row'
        BY <1>0, <1>6, <3>4, InsertMoves DEF Moved
      <4> QED BY <1>0, <1>6, <3>2, <4>1, InsertMoves, HandlersKept
    <3> QED BY <1>0, <1>6, <3>3, <3>4, InsertMoves
  <2>2. RowsOK'
    BY <1>0, <1>6, InsertMoves DEF RowsOK, InsertRow
  <2> QED BY <1>0, <1>6, <1>9, <2>1, <2>2
        DEF InsertRow, CountsOK, AccountOK, StartCovered, account, counts
<1>7. ASSUME NEW h \in Handlers, Send(h) PROVE Typed'
  <2>0. /\ row' = row /\ session' = session /\ cache' = cache /\ UNCHANGED counts
        /\ handler[h].pc = "send" /\ handler[h].id \in Ids
    BY <1>0, <1>7, SendMoves DEF Send
  <2>1. HandlersOK'
    <3>1. "send" \in Working /\ handler[h].id \in DOMAIN row
      BY <1>0, <2>0 DEF HandlersOK, Working
    <3> QED BY <1>0, <1>7, <2>0, <3>1, SendMoves, HandlersKept
  <2>2. unclear' = unclear \/ unclear' = unclear \cup {handler[h].id}
    BY <1>7, Zenon DEF Send
  <2>3. troubles' \in 0..MaxTroubles
    <3>1. Trouble \/ troubles' = troubles
      BY <1>7, Zenon DEF Send
    <3> QED BY <1>0, <3>1, TroubleTyped DEF CountsOK
  <2>4. CASE Pay(h)
    BY <1>0, <1>9, <2>0, <2>1, <2>2, <2>3, <2>4, PayDoes
    DEF RowsOK, CountsOK, AccountOK, StartCovered, counts
  <2>5. CASE UNCHANGED <<account, starter, paid, stale>>
    BY <1>0, <1>9, <2>0, <2>1, <2>2, <2>3, <2>5
    DEF RowsOK, CountsOK, AccountOK, StartCovered, counts, account
  <2> QED BY <1>0, <1>7, <2>4, <2>5, SendMoves
<1>8. ASSUME NEW h \in Handlers, Answer(h) PROVE Typed'
  <2>1. HandlersOK'
    <3>1. /\ DOMAIN row' = DOMAIN row /\ "finish" \in PCs /\ "answer" \in Working
          /\ handler[h].pc = "answer" /\ Goes(h, "finish")
      BY <1>8 DEF Answer, operation, Working, PCs
    <3>2. handler[h].id \in Ids /\ handler[h].id \in DOMAIN row
      BY <1>0, <3>1 DEF HandlersOK
    <3>3. Moved(h, "finish") /\ OthersSame(h) /\ handler' \in [Handlers -> Handler]
      BY <1>0, <3>1, GoesMoves
    <3> QED BY <1>0, <3>1, <3>2, <3>3, HandlersKept DEF Moved
  <2> QED BY <1>0, <1>8, <1>9, <2>1
        DEF Answer, Cleared, RowsOK, CountsOK, AccountOK, StartCovered,
            account, operation, counts
<1>10. ASSUME NEW h \in Handlers, Finish(h) PROVE Typed'
  <2>1. HandlersOK'
    <3>1. "idle" \notin Working
      BY DEF Working
    <3> QED BY <1>0, <1>10, <3>1, FinishMoves, HandlersKept
  <2>2. RowsOK'
    BY <1>0, <1>10, FinishMoves DEF RowsOK, Finish
  <2> QED BY <1>0, <1>10, <1>9, <2>1, <2>2
        DEF Finish, CountsOK, AccountOK, StartCovered, account, counts
<1>11. ASSUME NEW h \in Handlers, FinishFails(h) PROVE Typed'
  <2>1. HandlersOK'
    <3>1. /\ DOMAIN row' = DOMAIN row /\ "again" \in PCs /\ "idle" \notin Working
          /\ handler[h].pc \in Working /\ handler[h].pc # "idle"
      BY <1>11 DEF FinishFails, operation, Working, PCs
    <3>2. handler[h].id \in Ids /\ handler[h].id \in DOMAIN row
      BY <1>0, <3>1 DEF HandlersOK
    <3>3. CASE Replies(h)
      <4>1. OthersSame(h)
        BY <1>0, <3>3, RepliesTyped, Zenon DEF OthersSame, Same
      <4> QED BY <1>0, <3>1, <3>3, <4>1, RepliesTyped, HandlersKept
    <3>4. CASE Goes(h, "again")
      <4>1. Moved(h, "again") /\ OthersSame(h) /\ handler' \in [Handlers -> Handler]
        BY <1>0, <3>1, <3>4, GoesMoves
      <4> QED BY <1>0, <3>1, <3>2, <4>1, HandlersKept DEF Moved
    <3> QED BY <1>11, <3>3, <3>4 DEF FinishFails
  <2>2. troubles' \in 0..MaxTroubles
    BY <1>0, <1>11, TroubleTyped DEF FinishFails
  <2> QED BY <1>0, <1>11, <1>9, <2>1, <2>2
        DEF FinishFails, RowsOK, CountsOK, AccountOK, StartCovered,
            account, operation, counts
<1>12. ASSUME NEW h \in Handlers, Leave(h) PROVE Typed'
  <2>0. /\ row' = row /\ session' = session /\ cache' = cache /\ UNCHANGED counts
        /\ troubles' \in 0..MaxTroubles
    BY <1>0, <1>12, TroubleTyped DEF Leave
  <2>1. HandlersOK'
    <3>1. "idle" \notin Working
      BY DEF Working
    <3> QED BY <1>0, <1>12, <2>0, <3>1, LeaveMoves, HandlersKept
  <2>2. CASE Pay(h) /\ handler[h].id \in Ids /\ unclear' = unclear \cup {handler[h].id}
    BY <1>0, <1>9, <2>0, <2>1, <2>2, PayDoes
    DEF RowsOK, CountsOK, AccountOK, StartCovered, counts
  <2>3. CASE UNCHANGED <<account, starter, paid, unclear, stale>>
    BY <1>0, <1>9, <2>0, <2>1, <2>3
    DEF RowsOK, CountsOK, AccountOK, StartCovered, counts, account
  <2> QED BY <1>0, <1>12, <2>2, <2>3, LeaveMoves
<1> QED
  BY <1>1, <1>2, <1>3, <1>4, <1>5, <1>6, <1>7, <1>8, <1>10, <1>11, <1>12, Zenon
  DEF Next, Request

\* The types hold throughout (TypeOK).
THEOREM TypesHold == Spec => []TypeOK
<1>1. Typed => TypeOK
  BY DEF Typed
<1> QED BY <1>1, TypedInit, TypedStep, PTL DEF Spec

-----------------------------------------------------------------------------
(* Payments and their rows *)

\* A request that has a row owns it: it alone works under that id, and the row is
\* open until it is done.
RowOwned ==
  /\ \A h, k \in Handlers :
       /\ handler[h].pc \in Working /\ handler[k].pc \in Working
       /\ handler[h].id = handler[k].id
       => h = k
  /\ \A h \in Handlers :
       handler[h].pc \in Working => row[handler[h].id] = "PROCESSING"

\* What the request knows of its payment.
PaymentKnown ==
  \A h \in Handlers :
    /\ handler[h].pc \in {"balance", "fees", "row", "insert", "send"} => ~handler[h].ok
    /\ handler[h].pc \in {"answer", "again"} => handler[h].ok
    /\ handler[h].pc = "send" => paid[handler[h].id] = 0
    /\ handler[h].pc \in Working /\ handler[h].ok => paid[handler[h].id] = 1
    /\ handler[h].pc = "finish" /\ ~handler[h].ok =>
         paid[handler[h].id] = 0 \/ handler[h].id \in unclear

\* Nothing is paid without a row.
NoRowNoPayment == \A id \in Ids : id \notin DOMAIN row => paid[id] = 0

Payments == RowOwned /\ PaymentKnown /\ NoRowNoPayment /\ PaidOnce /\ StatusIsTrue

\* Nobody has a row, and nothing is paid, to begin with.
LEMMA PaymentsInit == Init => Payments
<1> SUFFICES ASSUME Init PROVE Payments
  OBVIOUS
<1>1. \A h \in Handlers : handler[h].pc = "idle"
  BY IdleTyped DEF Init
<1>2. \A id \in Ids : paid[id] = 0
  BY DEF Init
<1>3. DOMAIN row = {}
  BY DEF Init
<1> QED BY <1>1, <1>2, <1>3
      DEF Payments, RowOwned, PaymentKnown, NoRowNoPayment, PaidOnce, StatusIsTrue,
          Working

\* Steps that leave rows and payments alone, and start nothing, keep them true.
LEMMA Quiet ==
  ASSUME Payments, UNCHANGED operation, NEW h \in Handlers, OthersSame(h),
         handler'[h].pc \notin Working,
         handler'[h].pc # "idle" => ~handler'[h].ok
  PROVE  Payments'
<1>1. UNCHANGED <<row, paid, unclear>>
  BY DEF operation
<1>2. RowOwned'
  BY <1>1 DEF Payments, RowOwned, OthersSame, Same
<1>3. PaymentKnown'
  BY <1>1 DEF Payments, PaymentKnown, OthersSame, Same, Working
<1>4. NoRowNoPayment' /\ PaidOnce' /\ StatusIsTrue'
  BY <1>1 DEF Payments, NoRowNoPayment, PaidOnce, StatusIsTrue
<1> QED BY <1>2, <1>3, <1>4 DEF Payments

\* A request that goes on with its row keeps what it knows.
LEMMA GoesOn ==
  ASSUME TypeOK, Payments, UNCHANGED operation, NEW h \in Handlers, OthersSame(h),
         handler[h].pc \in Working, handler'[h].pc \in {"finish", "again"},
         handler'[h].id = handler[h].id, handler'[h].ok, handler[h].ok
  PROVE  Payments'
<1>1. UNCHANGED <<row, paid, unclear>>
  BY DEF operation
<1>2. RowOwned'
  BY <1>1 DEF Payments, RowOwned, OthersSame, Same
<1>3. PaymentKnown'
  <2>1. paid[handler[h].id] = 1
    BY DEF Payments, PaymentKnown
  <2> QED BY <1>1, <2>1 DEF Payments, PaymentKnown, OthersSame, Same, Working
<1>4. NoRowNoPayment' /\ PaidOnce' /\ StatusIsTrue'
  BY <1>1 DEF Payments, NoRowNoPayment, PaidOnce, StatusIsTrue
<1> QED BY <1>2, <1>3, <1>4 DEF Payments

\* A payment is the first under its id, and its request learns of it or the id is
\* marked.
LEMMA PaidFirst ==
  ASSUME TypeOK, Payments, NEW h \in Handlers, OthersSame(h), Pay(h),
         handler[h].pc = "send", handler[h].id \in Ids, row' = row,
         unclear \subseteq unclear',
         \/ /\ handler'[h].id = handler[h].id /\ handler'[h].pc \in {"answer", "finish"}
            /\ handler'[h].ok \/ (handler'[h].pc = "finish" /\ handler[h].id \in unclear')
         \/ handler'[h].pc = "idle" /\ handler[h].id \in unclear'
  PROVE  Payments'
<1> DEFINE id == handler[h].id
<1>1. /\ paid'[id] = paid[id] + 1 /\ \A i \in Ids : i # id => paid'[i] = paid[i]
  BY PayDoes
<1>2. handler[h].pc \in Working
  BY DEF Working
<1>3. /\ paid[id] = 0 /\ row[id] = "PROCESSING" /\ id \in DOMAIN row
      /\ \A k \in Handlers : k # h /\ handler[k].pc \in Working => handler[k].id # id
  BY <1>2 DEF Payments, PaymentKnown, RowOwned, TypeOK
<1>4. paid'[id] = 1
  BY <1>1, <1>3
<1>5. RowOwned'
  BY <1>2, <1>3 DEF Payments, RowOwned, OthersSame, Same, Working
<1>6. PaymentKnown'
  <2>1. ASSUME NEW k \in Handlers, k # h, handler[k].pc \in Working
        PROVE  handler[k].id \in Ids /\ paid'[handler[k].id] = paid[handler[k].id]
    <3>1. handler[k].id \in DOMAIN row /\ handler[k].id # id
      BY <1>3, <2>1 DEF TypeOK
    <3> QED BY <1>1, <3>1 DEF TypeOK
  <2> SUFFICES ASSUME NEW k \in Handlers
               PROVE  (/\ handler[k].pc \in {"balance", "fees", "row", "insert", "send"}
                            => ~handler[k].ok
                       /\ handler[k].pc \in {"answer", "again"} => handler[k].ok
                       /\ handler[k].pc = "send" => paid[handler[k].id] = 0
                       /\ handler[k].pc \in Working /\ handler[k].ok
                            => paid[handler[k].id] = 1
                       /\ handler[k].pc = "finish" /\ ~handler[k].ok =>
                            paid[handler[k].id] = 0 \/ handler[k].id \in unclear)'
    BY Zenon DEF PaymentKnown
  <2>2. CASE k = h
    BY <1>4, <2>2 DEF Working
  <2>3. CASE k # h
    BY <2>1, <2>3 DEF Payments, PaymentKnown, OthersSame, Same, Working
  <2> QED BY <2>2, <2>3
<1>7. NoRowNoPayment' /\ PaidOnce'
  BY <1>1, <1>3, <1>4 DEF Payments, NoRowNoPayment, PaidOnce
<1>8. StatusIsTrue'
  <2> SUFFICES ASSUME NEW i \in DOMAIN row
               PROVE  /\ row[i] = "COMPLETED" => paid'[i] = 1
                      /\ row[i] = "FAILED" /\ paid'[i] = 1 => i \in unclear'
    BY DEF StatusIsTrue
  <2>1. CASE i = id
    BY <1>3, <2>1
  <2>2. CASE i # id
    BY <1>1, <2>2 DEF Payments, StatusIsTrue, TypeOK
  <2> QED BY <2>1, <2>2
<1> QED BY <1>5, <1>6, <1>7, <1>8 DEF Payments

\* A payment that was refused, or whose request is left, leaves no trace.
LEMMA NotPaid ==
  ASSUME TypeOK, Payments, NEW h \in Handlers, OthersSame(h),
         handler[h].pc = "send", UNCHANGED <<row, paid>>, unclear \subseteq unclear',
         handler'[h].pc = "finish", handler'[h].id = handler[h].id,
         handler'[h].ok = handler[h].ok
  PROVE  Payments'
<1>1. handler[h].pc \in Working
  BY DEF Working
<1>2. paid[handler[h].id] = 0 /\ ~handler[h].ok
  BY DEF Payments, PaymentKnown
<1>3. RowOwned'
  BY <1>1 DEF Payments, RowOwned, OthersSame, Same, Working
<1>4. PaymentKnown'
  BY <1>2 DEF Payments, PaymentKnown, OthersSame, Same, Working
<1>5. NoRowNoPayment' /\ PaidOnce' /\ StatusIsTrue'
  BY DEF Payments, NoRowNoPayment, PaidOnce, StatusIsTrue
<1> QED BY <1>3, <1>4, <1>5 DEF Payments

\* Every step keeps rows and payments in step.
LEMMA PaymentsStep == Typed /\ Payments /\ [Next]_vars => Payments'
<1> SUFFICES ASSUME Typed, Payments, [Next]_vars PROVE Payments'
  OBVIOUS
<1>0. TypeOK /\ HandlersOK
  BY TypeParts DEF Typed
<1>1. CASE Trading \/ Dispatch \/ Expire \/ UNCHANGED vars
  <2>1. UNCHANGED <<row, paid, unclear>> /\ \A k \in Handlers : Same(k)
    BY <1>0, <1>1, TradingLeaves DEF operation
  <2>2. RowOwned' /\ PaymentKnown'
    BY <2>1 DEF Payments, RowOwned, PaymentKnown, Same
  <2>3. NoRowNoPayment' /\ PaidOnce' /\ StatusIsTrue'
    BY <2>1 DEF Payments, NoRowNoPayment, PaidOnce, StatusIsTrue
  <2> QED BY <2>2, <2>3 DEF Payments
<1>2. ASSUME NEW h \in Handlers, NEW id \in Ids, Receive(h, id) PROVE Payments'
  <2>1. UNCHANGED operation /\ "balance" \notin Working
    BY <1>2 DEF Receive, Working
  <2> QED BY <1>0, <1>2, <2>1, ReceiveMoves, Quiet
<1>3. ASSUME NEW h \in Handlers, ReadBalance(h) PROVE Payments'
  <2>1. UNCHANGED operation /\ "fees" \notin Working /\ handler[h].pc = "balance"
    BY <1>3 DEF ReadBalance, Working
  <2>2. ~handler[h].ok
    BY <2>1 DEF Payments, PaymentKnown
  <2> QED BY <1>0, <1>3, <2>1, <2>2, ReadBalanceMoves, Quiet
<1>4. ASSUME NEW h \in Handlers, ReadFees(h) PROVE Payments'
  <2>1. /\ UNCHANGED operation /\ "row" \notin Working /\ "idle" \notin Working
        /\ handler[h].pc = "fees"
    BY <1>4 DEF ReadFees, Working
  <2>2. ~handler[h].ok
    BY <2>1 DEF Payments, PaymentKnown
  <2> QED BY <1>0, <1>4, <2>1, <2>2, ReadFeesMoves, Quiet
<1>5. ASSUME NEW h \in Handlers, SelectRow(h) PROVE Payments'
  <2>1. /\ UNCHANGED operation /\ "insert" \notin Working /\ "idle" \notin Working
        /\ handler[h].pc = "row" /\ "insert" \in PCs
    BY <1>5 DEF SelectRow, Working, PCs
  <2>2. ~handler[h].ok
    BY <2>1 DEF Payments, PaymentKnown
  <2>3. CASE Replies(h)
    <3>1. OthersSame(h) /\ handler'[h].pc = "idle"
      BY <1>0, <2>3, RepliesTyped, Zenon DEF OthersSame, Same
    <3> QED BY <2>1, <3>1, Quiet
  <2>4. CASE Goes(h, "insert")
    BY <1>0, <2>1, <2>2, <2>4, GoesMoves, Quiet DEF Moved
  <2> QED BY <1>5, <2>3, <2>4 DEF SelectRow
<1>6. ASSUME NEW h \in Handlers, InsertRow(h) PROVE Payments'
  <2>1. paid' = paid /\ unclear' = unclear
    BY <1>6 DEF InsertRow
  <2>2. OthersSame(h) /\ handler[h].pc = "insert" /\ handler[h].id \in Ids
    BY <1>0, <1>6, InsertMoves
  <2>3. CASE handler'[h].pc = "idle" /\ row' = row
    <3>1. UNCHANGED operation /\ "idle" \notin Working
      BY <2>1, <2>3 DEF operation, Working
    <3> QED BY <2>2, <2>3, <3>1, Quiet
  <2>4. CASE /\ Moved(h, "send") /\ handler[h].id \notin DOMAIN row
             /\ DOMAIN row' = DOMAIN row \cup {handler[h].id}
             /\ row'[handler[h].id] = "PROCESSING"
             /\ \A id \in DOMAIN row : row'[id] = row[id]
    <3>1. /\ handler'[h].pc = "send" /\ handler'[h].id = handler[h].id
          /\ ~handler'[h].ok
      BY <2>2, <2>4 DEF Moved, Payments, PaymentKnown
    <3>2. paid[handler[h].id] = 0
      BY <2>2, <2>4 DEF Payments, NoRowNoPayment
    <3>3. \A k \in Handlers : handler[k].pc \in Working =>
            handler[k].id \in DOMAIN row /\ handler[k].id # handler[h].id
      BY <1>0, <2>4 DEF HandlersOK
    <3>4. RowOwned'
      BY <2>2, <2>4, <3>1, <3>3 DEF Payments, RowOwned, OthersSame, Same
    <3>5. PaymentKnown'
      BY <2>1, <2>2, <3>1, <3>2 DEF Payments, PaymentKnown, OthersSame, Same
    <3>6. NoRowNoPayment' /\ PaidOnce'
      BY <2>1, <2>4 DEF Payments, NoRowNoPayment, PaidOnce
    <3>7. StatusIsTrue'
      BY <2>1, <2>4 DEF Payments, StatusIsTrue
    <3> QED BY <3>4, <3>5, <3>6, <3>7 DEF Payments
  <2> QED BY <1>0, <1>6, <2>3, <2>4, InsertMoves
<1>7. ASSUME NEW h \in Handlers, Send(h) PROVE Payments'
  <2>1. row' = row /\ unclear \subseteq unclear'
    BY <1>7 DEF Send
  <2> QED BY <1>0, <1>7, <2>1, SendMoves, PaidFirst, NotPaid
<1>8. ASSUME NEW h \in Handlers, Answer(h) PROVE Payments'
  <2>1. /\ UNCHANGED operation /\ handler[h].pc = "answer" /\ "answer" \in Working
        /\ "finish" \in PCs /\ Goes(h, "finish")
    BY <1>8 DEF Answer, Working, PCs
  <2>2. handler[h].ok
    BY <2>1 DEF Payments, PaymentKnown
  <2> QED BY <1>0, <2>1, <2>2, GoesMoves, GoesOn DEF Moved
<1>9. ASSUME NEW h \in Handlers, Finish(h) PROVE Payments'
  <2> DEFINE id == handler[h].id
  <2>1. paid' = paid /\ unclear' = unclear
    BY <1>9 DEF Finish
  <2>2. /\ OthersSame(h) /\ handler'[h].pc = "idle" /\ "idle" \notin Working
        /\ handler[h].pc \in Working /\ id \in DOMAIN row
    BY <1>0, <1>9, FinishMoves DEF Working
  <2>3. /\ row[id] = "PROCESSING"
        /\ \A k \in Handlers : k # h /\ handler[k].pc \in Working => handler[k].id # id
    BY <2>2 DEF Payments, RowOwned
  <2>4. /\ DOMAIN row' = DOMAIN row
        /\ \A i \in DOMAIN row : i # id => row'[i] = row[i]
        /\ row'[id] = IF handler[h].pc = "again" \/ handler[h].ok
                      THEN "COMPLETED" ELSE "FAILED"
    BY <1>0, <1>9, <2>3, FinishMoves
  <2>5. RowOwned'
    <3>1. \A k \in Handlers : handler[k].pc \in Working => handler[k].id \in DOMAIN row
      BY <1>0 DEF HandlersOK
    <3> QED BY <2>2, <2>3, <2>4, <3>1 DEF Payments, RowOwned, OthersSame, Same
  <2>6. PaymentKnown'
    BY <2>1, <2>2 DEF Payments, PaymentKnown, OthersSame, Same, Working
  <2>7. NoRowNoPayment' /\ PaidOnce'
    BY <2>1, <2>4 DEF Payments, NoRowNoPayment, PaidOnce
  <2>8. StatusIsTrue'
    <3>1. handler[h].pc = "again" \/ handler[h].ok => paid[id] = 1
      BY <2>2 DEF Payments, PaymentKnown, Working
    <3>2. ~(handler[h].pc = "again" \/ handler[h].ok) => paid[id] = 0 \/ id \in unclear
      <4>1. handler[h].pc \in {"finish", "again"}
        BY <1>0, <1>9, FinishMoves
      <4> QED BY <4>1 DEF Payments, PaymentKnown
    <3> QED BY <2>1, <2>4, <3>1, <3>2 DEF Payments, StatusIsTrue
  <2> QED BY <2>5, <2>6, <2>7, <2>8 DEF Payments
<1>10. ASSUME NEW h \in Handlers, FinishFails(h) PROVE Payments'
  <2>1. UNCHANGED operation
    BY <1>10 DEF FinishFails
  <2>2. CASE Replies(h)
    <3>1. OthersSame(h) /\ handler'[h].pc = "idle" /\ "idle" \notin Working
      BY <1>0, <2>2, RepliesTyped, Zenon DEF OthersSame, Same, Working
    <3> QED BY <2>1, <3>1, Quiet
  <2>3. CASE ~Replies(h)
    <3>1. /\ Goes(h, "again") /\ handler[h].ok /\ handler[h].pc = "finish"
      BY <1>10, <2>3 DEF FinishFails
    <3>2. "finish" \in Working /\ "again" \in PCs
      BY DEF Working, PCs
    <3> QED BY <1>0, <2>1, <3>1, <3>2, GoesMoves, GoesOn DEF Moved
  <2> QED BY <2>2, <2>3
<1>11. ASSUME NEW h \in Handlers, Leave(h) PROVE Payments'
  <2>1. row' = row
    BY <1>11 DEF Leave
  <2>2. CASE /\ Pay(h) /\ handler[h].pc = "send" /\ handler[h].id \in Ids
             /\ unclear' = unclear \cup {handler[h].id}
    BY <1>0, <1>11, <2>1, <2>2, LeaveMoves, PaidFirst
  <2>3. CASE UNCHANGED <<account, starter, paid, unclear, stale>>
    <3>1. UNCHANGED operation /\ "idle" \notin Working
      BY <2>1, <2>3 DEF operation, Working
    <3> QED BY <1>0, <1>11, <3>1, LeaveMoves, Quiet
  <2> QED BY <1>0, <1>11, <2>2, <2>3, LeaveMoves
<1> QED
  BY <1>1, <1>2, <1>3, <1>4, <1>5, <1>6, <1>7, <1>8, <1>9, <1>10, <1>11, Zenon
  DEF Next, Request

\* A request id moves money at most once, for any number of requests at a time and
\* whatever fails or is left (PaidOnce).
THEOREM PaidOnceHolds == Spec => []PaidOnce
<1>1. Payments => PaidOnce
  BY DEF Payments
<1> QED BY <1>1, TypedInit, TypedStep, PaymentsInit, PaymentsStep, PTL DEF Spec

\* The ledger says what the provider did, but for payments nobody heard of
\* (StatusIsTrue).
THEOREM StatusHolds == Spec => []StatusIsTrue
<1>1. Payments => StatusIsTrue
  BY DEF Payments
<1> QED BY <1>1, TypedInit, TypedStep, PaymentsInit, PaymentsStep, PTL DEF Spec

-----------------------------------------------------------------------------
(* An operation is one single transfer *)

\* The variables of SingleTransfer, and one of its steps or none.
Book == [id \in Ids |-> BookOf(id)]
Due == [id \in Ids |-> IF id \in DOMAIN row THEN Amount ELSE 0]
SingleTransferStep == [SingleTransfers!Next]_<<Book, Due, paid>>

\* A step that changes neither a row nor what was paid is none.
LEMMA RowsSame ==
  ASSUME UNCHANGED <<row, paid>> PROVE SingleTransferStep
  BY DEF SingleTransferStep, Book, Due, BookOf

\* A row that stays as it is means the same.
LEMMA RowStays ==
  ASSUME NEW id \in Ids, id \in DOMAIN row' <=> id \in DOMAIN row,
         id \in DOMAIN row => row'[id] = row[id]
  PROVE  BookOf(id)' = BookOf(id)
<1>1. CASE id \in DOMAIN row
  <2> DEFINE Told(status) == CASE status = "PROCESSING" -> "sent"
                               [] status = "COMPLETED" -> "recorded"
                               [] status = "FAILED" -> "abandoned"
  <2>1. row'[id] = row[id] /\ id \in DOMAIN row'
    BY <1>1
  <2>2. BookOf(id) = Told(row[id])
    BY <1>1 DEF BookOf
  <2>3. BookOf(id)' = Told(row'[id])
    BY <2>1 DEF BookOf
  <2> HIDE DEF Told
  <2> QED BY <2>1, <2>2, <2>3
<1>2. CASE id \notin DOMAIN row
  <2>1. id \notin DOMAIN row'
    BY <1>2
  <2>2. BookOf(id) = "absent" /\ BookOf(id)' = "absent"
    BY <1>2, <2>1 DEF BookOf
  <2> QED BY <2>2
<1> QED BY <1>1, <1>2

\* A row that is inserted as PROCESSING is noted, with its amount, and sent.
LEMMA RowInserted ==
  ASSUME paid' = paid, NEW id \in Ids, id \notin DOMAIN row,
         DOMAIN row' = DOMAIN row \cup {id}, row'[id] = "PROCESSING",
         \A i \in DOMAIN row : row'[i] = row[i]
  PROVE  SingleTransferStep
<1>1. BookOf(id) = "absent" /\ BookOf(id)' = "sent"
  BY DEF BookOf
<1>2. \A i \in Ids \ {id} : BookOf(i)' = BookOf(i)
  BY RowStays
<1>3. [i \in Ids |-> BookOf(i)'] = [i \in Ids |-> IF i \in {id} THEN "sent" ELSE BookOf(i)]
  BY <1>1, <1>2
<1>4. SingleTransfers!Turns({id}, "sent")
  BY <1>3 DEF SingleTransfers!Turns
<1>5. Due' \in [Ids -> Nat] /\ \A i \in Ids \ {id} : Due'[i] = Due[i]
  BY WalletAssumption DEF Due
<1>6. SingleTransfers!Note({id}, "sent")
  BY <1>1, <1>4, <1>5 DEF SingleTransfers!Note, Due
<1> QED BY <1>6 DEF SingleTransferStep, SingleTransfers!Next

\* A row whose request comes to its end is recorded if it was paid, and given up
\* otherwise.
LEMMA RowFinished ==
  ASSUME paid' = paid, NEW id \in Ids, id \in DOMAIN row, row[id] = "PROCESSING",
         DOMAIN row' = DOMAIN row, \A i \in DOMAIN row : i # id => row'[i] = row[i],
         \/ row'[id] = "COMPLETED" /\ paid[id] = 1
         \/ row'[id] = "FAILED"
  PROVE  SingleTransferStep
<1>1. BookOf(id) = "sent"
  BY DEF BookOf
<1>2. \A i \in Ids \ {id} : BookOf(i)' = BookOf(i)
  BY RowStays
<1>3. Due' = Due
  BY DEF Due
<1>4. ASSUME NEW status, BookOf(id)' = status PROVE SingleTransfers!Turns({id}, status)
  <2>1. [i \in Ids |-> BookOf(i)'] = [i \in Ids |-> IF i \in {id} THEN status ELSE BookOf(i)]
    BY <1>2, <1>4
  <2> QED BY <2>1 DEF SingleTransfers!Turns
<1>5. CASE row'[id] = "COMPLETED" /\ paid[id] = 1
  <2>1. SingleTransfers!Turns({id}, "recorded")
    BY <1>4, <1>5 DEF BookOf
  <2>2. SingleTransfers!Record(id)
    BY <1>1, <1>3, <1>5, <2>1 DEF SingleTransfers!Record, Due
  <2> QED BY <2>2 DEF SingleTransferStep, SingleTransfers!Next
<1>6. CASE row'[id] = "FAILED"
  <2>1. SingleTransfers!Turns({id}, "abandoned")
    BY <1>4, <1>6 DEF BookOf
  <2>2. SingleTransfers!GiveUp({id})
    BY <1>1, <1>3, <2>1 DEF SingleTransfers!GiveUp, Due
  <2> QED BY <2>2 DEF SingleTransferStep, SingleTransfers!Next
<1> QED BY <1>5, <1>6

\* A payment under an id whose row is open is its one payment.
LEMMA RowPaid ==
  ASSUME TypeOK, Payments, row' = row, NEW h \in Handlers, handler[h].pc = "send", Pay(h)
  PROVE  SingleTransferStep
<1> DEFINE id == handler[h].id
<1>1. "send" \in Working
  BY DEF Working
<1>2. id \in DOMAIN row /\ id \in Ids
  BY <1>1 DEF TypeOK
<1>3. row[id] = "PROCESSING" /\ paid[id] = 0
  BY <1>1 DEF Payments, RowOwned, PaymentKnown
<1>4. paid \in [Ids -> Nat] /\ paid' \in [Ids -> Nat] /\ paid'[id] = 1
      /\ \A i \in Ids : i # id => paid'[i] = paid[i]
  BY <1>2, <1>3, PayDoes DEF TypeOK
<1> HIDE DEF id
<1>5. paid' = [paid EXCEPT ![id] = 1]
  BY <1>2, <1>4
<1>6. Book' = Book /\ Due' = Due
  BY DEF Book, Due, BookOf
<1>7. BookOf(id) = "sent"
  BY <1>2, <1>3 DEF BookOf
<1>8. SingleTransfers!Pay(id)
  BY <1>2, <1>3, <1>5, <1>6, <1>7 DEF SingleTransfers!Pay, Book, Due
<1> QED BY <1>2, <1>8 DEF SingleTransferStep, SingleTransfers!Next

\* Every step is one of SingleTransfer or none of its business.
LEMMA SingleTransferSteps == Typed /\ Payments /\ [Next]_vars => SingleTransferStep
<1> SUFFICES ASSUME Typed, Payments, [Next]_vars PROVE SingleTransferStep
  OBVIOUS
<1>0. TypeOK
  BY DEF Typed
<1>1. CASE Trading \/ Dispatch \/ Expire \/ UNCHANGED vars
  <2>1. UNCHANGED <<row, paid>>
    BY <1>0, <1>1, TradingLeaves DEF operation
  <2> QED BY <2>1, RowsSame
<1>2. ASSUME NEW h \in Handlers,
             \/ \E id \in Ids : Receive(h, id)
             \/ ReadBalance(h) \/ ReadFees(h) \/ SelectRow(h) \/ Answer(h) \/ FinishFails(h)
      PROVE  SingleTransferStep
  <2>1. UNCHANGED operation
    BY <1>2, Zenon DEF Receive, ReadBalance, ReadFees, SelectRow, Answer, FinishFails
  <2>2. UNCHANGED <<row, paid>>
    BY <2>1 DEF operation
  <2> QED BY <2>2, RowsSame
<1>3. ASSUME NEW h \in Handlers, InsertRow(h) PROVE SingleTransferStep
  <2>1. paid' = paid
    BY <1>3 DEF InsertRow
  <2> QED BY <1>0, <1>3, <2>1, InsertMoves, RowsSame, RowInserted
<1>4. ASSUME NEW h \in Handlers, Send(h) PROVE SingleTransferStep
  <2>1. row' = row /\ handler[h].pc = "send"
    BY <1>4 DEF Send
  <2> QED BY <1>0, <1>4, <2>1, SendMoves, RowsSame, RowPaid
<1>5. ASSUME NEW h \in Handlers, Leave(h) PROVE SingleTransferStep
  <2>1. row' = row
    BY <1>5 DEF Leave
  <2> QED BY <1>0, <1>5, <2>1, LeaveMoves, RowsSame, RowPaid
<1>6. ASSUME NEW h \in Handlers, Finish(h) PROVE SingleTransferStep
  <2> DEFINE id == handler[h].id
  <2>1. paid' = paid
    BY <1>6 DEF Finish
  <2>2. handler[h].pc \in {"finish", "again"} /\ handler[h].pc \in Working
    BY <1>0, <1>6, FinishMoves DEF Working
  <2>3. row[id] = "PROCESSING" /\ id \in DOMAIN row /\ id \in Ids
    BY <1>0, <2>2 DEF Payments, RowOwned, TypeOK
  <2>4. handler[h].pc = "again" \/ handler[h].ok => paid[id] = 1
    BY <2>2 DEF Payments, PaymentKnown
  <2>5. /\ DOMAIN row' = DOMAIN row
        /\ \A i \in DOMAIN row : i # id => row'[i] = row[i]
        /\ row'[id] = IF handler[h].pc = "again" \/ handler[h].ok
                      THEN "COMPLETED" ELSE "FAILED"
    BY <1>0, <1>6, <2>3, FinishMoves
  <2> QED BY <2>1, <2>3, <2>4, <2>5, RowFinished
<1> QED BY <1>1, <1>2, <1>3, <1>4, <1>5, <1>6, Zenon DEF Next, Request

\* Requests sent again or served at a time, browsers that leave and statements that
\* fail move the money of a request id as one single transfer would
\* (walletOperation, BeginWalletOperation, FinishWalletOperation).
THEOREM WalletImplementsSingleTransfer == Spec => ImplementsSingleTransfer
<1>1. Init => SingleTransfers!Init
  <2> SUFFICES ASSUME Init PROVE SingleTransfers!Init
    OBVIOUS
  <2>1. DOMAIN row = {} /\ paid = [id \in Ids |-> 0]
    BY DEF Init
  <2> QED BY <2>1 DEF SingleTransfers!Init, BookOf
<1>2. Typed /\ Payments /\ [Next]_vars => [SingleTransfers!Next]_<<Book, Due, paid>>
  BY SingleTransferSteps DEF SingleTransferStep
<1> QED BY <1>1, <1>2, TypedInit, TypedStep, PaymentsInit, PaymentsStep, PTL
    DEF Spec, ImplementsSingleTransfer, SingleTransfers!Spec, Book, Due

-----------------------------------------------------------------------------
(* What a request has looked at *)

\* A request that may pay had room beside the fees it read.
RoomChecked ==
  \A h \in Handlers : handler[h].pc \in {"row", "insert", "send"} =>
    handler[h].fees + Amount <= handler[h].balance

\* There are no requests to begin with.
LEMMA RoomInit == Init => RoomChecked
BY IdleTyped DEF Init, RoomChecked

\* A step of one request.
LEMMA RoomStays ==
  ASSUME RoomChecked, NEW h \in Handlers, OthersSame(h),
         \/ handler'[h].pc \notin {"row", "insert", "send"}
         \/ handler'[h].fees + Amount <= handler'[h].balance
  PROVE  RoomChecked'
BY DEF RoomChecked, OthersSame, Same

\* Every step keeps what requests have looked at true.
LEMMA RoomStep == Typed /\ RoomChecked /\ [Next]_vars => RoomChecked'
<1> SUFFICES ASSUME Typed, RoomChecked, [Next]_vars PROVE RoomChecked'
  OBVIOUS
<1>0. TypeOK
  BY DEF Typed
<1>1. CASE Trading \/ Dispatch \/ Expire \/ UNCHANGED vars
  <2>1. \A k \in Handlers : Same(k)
    BY <1>0, <1>1, TradingLeaves
  <2> QED BY <2>1 DEF RoomChecked, Same
<1>2. ASSUME NEW h \in Handlers, NEW id \in Ids, Receive(h, id) PROVE RoomChecked'
  BY <1>0, <1>2, ReceiveMoves, RoomStays
<1>3. ASSUME NEW h \in Handlers, ReadBalance(h) PROVE RoomChecked'
  BY <1>0, <1>3, ReadBalanceMoves, RoomStays
<1>4. ASSUME NEW h \in Handlers, ReadFees(h) PROVE RoomChecked'
  BY <1>0, <1>4, ReadFeesMoves, RoomStays
<1>5. ASSUME NEW h \in Handlers,
             SelectRow(h) \/ Answer(h) \/ FinishFails(h) \/ InsertRow(h)
      PROVE  RoomChecked'
  <2>2. \/ Replies(h)
        \/ /\ Goes(h, "insert") \/ Goes(h, "send")
           /\ handler[h].pc \in {"row", "insert"}
        \/ Goes(h, "finish") \/ Goes(h, "again")
    BY <1>5, Zenon DEF SelectRow, Answer, FinishFails, InsertRow
  <2>3. {"insert", "send", "finish", "again"} \subseteq PCs
    BY DEF PCs, Working
  <2>4. CASE Replies(h)
    <3>1. OthersSame(h) /\ handler'[h].pc = "idle"
      BY <1>0, <2>4, RepliesTyped, Zenon DEF OthersSame, Same
    <3> QED BY <3>1, RoomStays
  <2>5. CASE /\ Goes(h, "insert") \/ Goes(h, "send")
             /\ handler[h].pc \in {"row", "insert"}
    <3>1. handler[h].fees + Amount <= handler[h].balance
      BY <2>5 DEF RoomChecked
    <3>2. OthersSame(h) /\ (Moved(h, "insert") \/ Moved(h, "send"))
      BY <1>0, <2>3, <2>5, GoesMoves
    <3> QED BY <3>1, <3>2, RoomStays DEF Moved
  <2>6. CASE Goes(h, "finish") \/ Goes(h, "again")
    <3>1. OthersSame(h) /\ (Moved(h, "finish") \/ Moved(h, "again"))
      BY <1>0, <2>3, <2>6, GoesMoves
    <3> QED BY <3>1, RoomStays DEF Moved
  <2> QED BY <2>2, <2>4, <2>5, <2>6
<1>6. ASSUME NEW h \in Handlers, Send(h) PROVE RoomChecked'
  BY <1>0, <1>6, SendMoves, RoomStays
<1>7. ASSUME NEW h \in Handlers, Finish(h) \/ Leave(h) PROVE RoomChecked'
  <2>1. OthersSame(h) /\ handler'[h].pc = "idle"
    BY <1>0, <1>7, FinishMoves, LeaveMoves
  <2> QED BY <2>1, RoomStays
<1> QED BY <1>1, <1>2, <1>3, <1>4, <1>5, <1>6, <1>7, Zenon DEF Next, Request

-----------------------------------------------------------------------------
(* The payout of the fees *)

\* The books still hold what a payout was made for; what the collector has of it
\* is all of it, or nothing.
PayoutFits ==
  /\ payout.amount <= fees
  /\ payout.moved = 0 \/ payout.moved = payout.amount
  /\ payout.pc \in {"idle", "send"} => payout.moved = 0
  /\ payout.pc \in {"answer", "record"} => payout.moved = payout.amount

\* There is none to begin with.
LEMMA PayoutInit == Init => PayoutFits
BY NoPayoutTyped DEF Init, PayoutFits

\* Fees are taken off the books by the payout alone.
LEMMA PayoutStep == Typed /\ PayoutFits /\ [Next]_vars => PayoutFits'
<1> SUFFICES ASSUME Typed, PayoutFits, [Next]_vars PROVE PayoutFits'
  OBVIOUS
<1>0. /\ TypeOK /\ fees \in Nat /\ held \in Nat /\ session.late \in {0, 1}
      /\ payout \in Payout /\ payout.amount \in Nat /\ payout.moved \in Nat
  BY DEF Typed, TypeOK, Session, Payout
<1>1. ASSUME payout' = payout, fees' \in Nat, fees <= fees' PROVE PayoutFits'
  BY <1>0, <1>1 DEF PayoutFits
<1>2. CASE EndSession \/ Flush
  <2>1. payout' = payout /\ fees' \in Nat /\ fees <= fees'
    BY <1>0, <1>2 DEF EndSession, Flush
  <2> QED BY <1>1, <2>1
<1>3. CASE PayoutMarked
  <2>1. /\ payout'.pc = "send" /\ payout'.amount = fees /\ payout'.moved = 0
        /\ fees' = fees
    BY <1>3 DEF PayoutMarked
  <2> QED BY <1>0, <2>1 DEF PayoutFits
<1>4. CASE PayoutSent
  <2>1. ASSUME To("review") PROVE PayoutFits'
    <3>1. /\ payout'.pc = "review" /\ payout'.amount = payout.amount
          /\ payout'.moved = payout.moved
      BY <1>0, <2>1 DEF To, Payout
    <3>2. fees' = fees
      BY <1>4 DEF PayoutSent
    <3> QED BY <1>0, <3>1, <3>2 DEF PayoutFits
  <2>2. ASSUME NEW pc \in {"answer", "review"},
               payout' = [payout EXCEPT !.pc = pc, !.moved = payout.amount]
        PROVE  PayoutFits'
    <3>1. /\ payout'.pc = pc /\ payout'.amount = payout.amount
          /\ payout'.moved = payout.amount
      BY <1>0, <2>2 DEF Payout
    <3>2. fees' = fees
      BY <1>4 DEF PayoutSent
    <3> QED BY <1>0, <3>1, <3>2 DEF PayoutFits
  <2> QED BY <1>4, <2>1, <2>2, Zenon DEF PayoutSent
<1>5. CASE PayoutAnswered \/ PayoutUnrecorded
  <2>1. /\ (payout'.pc = "record" /\ payout.pc = "answer") \/ payout'.pc = "review"
        /\ payout'.amount = payout.amount /\ payout'.moved = payout.moved
    BY <1>0, <1>5 DEF PayoutAnswered, PayoutUnrecorded, To, Payout
  <2>2. fees' = fees
    BY <1>5 DEF PayoutAnswered, PayoutUnrecorded
  <2> QED BY <1>0, <2>1, <2>2 DEF PayoutFits
<1>6. CASE PayoutRecorded
  <2>1. fees' \in Nat
    BY <1>0, <1>6 DEF PayoutRecorded, Booked
  <2> QED BY <1>6, <2>1, NoPayoutTyped DEF PayoutRecorded, PayoutFits
<1>7. CASE StartBalance \/ StartFees \/ StartSession \/ Roll \/ Expire \/ UNCHANGED vars
  <2>1. payout' = payout /\ fees' = fees
    BY <1>7, Zenon DEF StartBalance, StartFees, StartSession, Roll, Expire, vars, account
  <2> QED BY <1>0, <1>1, <2>1
<1>8. ASSUME NEW h \in Handlers, Request(h) \/ \E id \in Ids : Receive(h, id)
      PROVE  PayoutFits'
  <2>1. payout' = payout /\ fees' = fees
    <3>1. CASE Send(h)
      BY <1>0, <3>1, SendMoves, PayDoes DEF account
    <3>2. CASE Leave(h)
      BY <1>0, <3>2, LeaveMoves, PayDoes DEF account
    <3>3. CASE \/ \E id \in Ids : Receive(h, id)
               \/ ReadBalance(h) \/ ReadFees(h) \/ SelectRow(h) \/ InsertRow(h)
               \/ Answer(h) \/ Finish(h) \/ FinishFails(h)
      BY <3>3, Zenon
      DEF Receive, ReadBalance, ReadFees, SelectRow, InsertRow, Answer, Finish,
          FinishFails, account
    <3> QED BY <1>8, <3>1, <3>2, <3>3 DEF Request
  <2> QED BY <1>0, <1>1, <2>1
<1> QED
  BY <1>2, <1>3, <1>4, <1>5, <1>6, <1>7, <1>8, Zenon DEF Next, Trading, Dispatch

-----------------------------------------------------------------------------
(* The fees in the account *)

\* What the session may yet stake.
Staked == IF session.status = "RUNNING" THEN session.visible ELSE 0

\* As long as nothing was decided on what was no longer true, the account holds the
\* fees the collector does not have and what its session may stake.
Covered == ~stale => Owed + Staked <= provider

\* The account is covered to begin with.
LEMMA CoveredInit == Init => Covered
<1> SUFFICES ASSUME Init PROVE Covered
  OBVIOUS
<1>1. fees = 0 /\ held = 0 /\ session = NoSession /\ provider >= 0 /\ payout = NoPayout
  BY WalletAssumption DEF Init
<1> QED BY <1>1, NoSessionTyped, NoPayoutTyped DEF Covered, Owed, Staked

\* Payments, openings and rolls leave the account covered, or are stale.
LEMMA CoveredStep ==
  Typed /\ RoomChecked /\ PayoutFits /\ Covered /\ [Next]_vars => Covered'
<1> SUFFICES ASSUME Typed, RoomChecked, PayoutFits, Covered, [Next]_vars PROVE Covered'
  OBVIOUS
<1>0. /\ provider \in Nat /\ fees \in Nat /\ held \in Nat /\ stale \in BOOLEAN
      /\ session \in Session /\ session.visible \in Nat /\ session.late \in {0, 1}
      /\ starter \in Starter /\ starter.balance \in Nat /\ starter.fees \in Nat
      /\ payout \in Payout /\ payout.amount \in Nat /\ payout.moved \in Nat
      /\ payout.moved <= fees /\ Owed \in Nat /\ TypeOK
      /\ session.late = 1 => session.status = "RECONCILIATION_REQUIRED"
  BY DEF Typed, TypeOK, Session, Starter, Payout, PayoutFits, Owed
<1>1. ASSUME UNCHANGED <<account, session, stale>> PROVE Covered'
  BY <1>1 DEF account, Covered, Owed, Staked
<1>2. ASSUME NEW h \in Handlers, Pay(h), handler[h].pc = "send",
             handler[h].id \in Ids, session' = session
      PROVE  Covered'
  <2> SUFFICES ASSUME ~stale' PROVE Owed' + Staked' <= provider'
    BY DEF Covered
  <2>1. ~stale /\ ~(provider < handler[h].balance) /\ ~(Owed > handler[h].fees)
        /\ session.status = "NONE"
    BY <1>2 DEF Pay
  <2>2. handler[h].fees + Amount <= handler[h].balance
    BY <1>2 DEF RoomChecked
  <2>3. /\ handler[h].fees \in Nat /\ handler[h].balance \in Nat /\ Amount \in Nat
    BY <1>0, WalletAssumption DEF TypeOK, Handler
  <2>4. provider' = provider - Amount /\ Owed' = Owed /\ Staked' = 0
    BY <1>0, <1>2, <2>1, PayDoes DEF Owed, Staked
  <2> QED BY <1>0, <2>1, <2>2, <2>3, <2>4
<1>3. ASSUME NEW h \in Handlers, Send(h) PROVE Covered'
  BY <1>0, <1>1, <1>2, <1>3, SendMoves DEF Send
<1>4. ASSUME NEW h \in Handlers, Leave(h) PROVE Covered'
  BY <1>0, <1>1, <1>2, <1>4, LeaveMoves DEF Leave
<1>5. CASE StartSession
  <2> SUFFICES ASSUME ~stale' PROVE Owed' + Staked' <= provider'
    BY DEF Covered
  <2>1. ~stale /\ ~(provider < starter.balance) /\ ~(Owed > starter.fees)
    BY <1>5 DEF StartSession
  <2>2. /\ session'.status = "RUNNING" /\ session'.late = 0
        /\ session'.visible = starter.balance - starter.fees
        /\ provider' = provider /\ fees' = fees /\ held' = held /\ payout' = payout
    BY <1>5 DEF StartSession, account
  <2> QED BY <1>0, <2>1, <2>2 DEF Owed, Staked
<1>6. CASE Roll
  <2>1. /\ session.status = "RUNNING" /\ session.visible >= 1 /\ session.late = 0
        /\ stale' = stale /\ fees' = fees /\ payout' = payout
    BY <1>0, <1>6 DEF Roll
  <2>2. CASE /\ provider' = provider - 1 /\ held' = held
             /\ session' = [session EXCEPT !.visible = session.visible - 1]
    <3>1. /\ session'.visible = session.visible - 1 /\ session'.late = 0
          /\ session'.status = "RUNNING"
      BY <1>0, <2>1, <2>2 DEF Session
    <3> QED BY <1>0, <2>1, <2>2, <3>1 DEF Covered, Owed, Staked
  <2>3. CASE /\ provider' = provider + 2 /\ held' = held + 1
             /\ session' = [session EXCEPT !.visible = session.visible + 1]
    <3>1. /\ session'.visible = session.visible + 1 /\ session'.late = 0
          /\ session'.status = "RUNNING"
      BY <1>0, <2>1, <2>3 DEF Session
    <3> QED BY <1>0, <2>1, <2>3, <3>1 DEF Covered, Owed, Staked
  <2>4. ASSUME NEW win \in BOOLEAN, held' \in {0, held},
               provider' = IF win THEN provider + 2 ELSE provider - 1,
               session' = [session EXCEPT !.status = "RECONCILIATION_REQUIRED",
                                          !.late = IF win THEN 1 ELSE 0]
        PROVE  Covered'
    <3>1. /\ session'.status = "RECONCILIATION_REQUIRED"
          /\ session'.late = IF win THEN 1 ELSE 0
      BY <1>0, <2>4 DEF Session
    <3> QED BY <1>0, <2>1, <2>4, <3>1 DEF Covered, Owed, Staked
  <2>6. ASSUME NEW win \in BOOLEAN, held' = held, session' = NoSession,
               provider' = IF win THEN provider + 2 ELSE provider - 1
        PROVE  Covered'
    BY <1>0, <2>1, <2>6, NoSessionTyped DEF Covered, Owed, Staked
  <2>5. \/ /\ provider' = provider - 1 /\ held' = held
           /\ session' = [session EXCEPT !.visible = session.visible - 1]
        \/ /\ provider' = provider + 2 /\ held' = held + 1
           /\ session' = [session EXCEPT !.visible = session.visible + 1]
        \/ \E win \in BOOLEAN :
             /\ held' = held /\ session' = NoSession
             /\ provider' = IF win THEN provider + 2 ELSE provider - 1
        \/ \E win \in BOOLEAN :
             /\ held' \in {0, held}
             /\ provider' = IF win THEN provider + 2 ELSE provider - 1
             /\ session' = [session EXCEPT !.status = "RECONCILIATION_REQUIRED",
                                           !.late = IF win THEN 1 ELSE 0]
    BY <1>6, Zenon DEF Roll
  <2> QED BY <2>2, <2>3, <2>4, <2>5, <2>6
<1>7. CASE EndSession
  <2>1. /\ session'.status = "NONE" /\ session'.late = 0
        /\ fees' = fees + session.late
        /\ provider' = provider /\ held' = held /\ stale' = stale /\ payout' = payout
    BY <1>7, NoSessionTyped DEF EndSession
  <2> QED BY <1>0, <2>1 DEF Covered, Owed, Staked
<1>8. CASE Flush
  BY <1>0, <1>8 DEF Flush, Covered, Owed, Staked
<1>11. ASSUME UNCHANGED <<provider, fees, held, session, stale>>,
              payout'.moved = payout.moved
       PROVE  Covered'
  BY <1>11 DEF Covered, Owed, Staked
<1>12. CASE PayoutMarked
  <2>1. payout'.moved = 0 /\ UNCHANGED <<provider, fees, held, session, stale>>
    BY <1>12 DEF PayoutMarked
  <2>2. payout.moved = 0
    BY <1>12 DEF PayoutMarked, PayoutFits
  <2> QED BY <1>11, <2>1, <2>2
<1>13. CASE PayoutSent
  <2>1. CASE To("review") /\ provider' = provider
    <3>1. payout'.moved = payout.moved
      BY <1>0, <2>1 DEF To, Payout
    <3> QED BY <1>11, <1>13, <2>1, <3>1 DEF PayoutSent
  <2>2. ASSUME NEW pc \in {"answer", "review"},
               payout' = [payout EXCEPT !.pc = pc, !.moved = payout.amount],
               provider' = provider - payout.amount
        PROVE  Covered'
    <3>1. payout'.moved = payout.amount
      BY <1>0, <2>2 DEF Payout
    <3>2. payout.moved = 0
      BY <1>13 DEF PayoutSent, PayoutFits
    <3>3. UNCHANGED <<fees, held, session, stale>>
      BY <1>13 DEF PayoutSent
    <3> QED BY <1>0, <2>2, <3>1, <3>2, <3>3 DEF Covered, Owed, Staked
  <2> QED BY <1>13, <2>1, <2>2, Zenon DEF PayoutSent
<1>14. CASE PayoutAnswered \/ PayoutUnrecorded
  <2>1. payout'.moved = payout.moved
    BY <1>0, <1>14 DEF PayoutAnswered, PayoutUnrecorded, To, Payout
  <2>2. UNCHANGED <<provider, fees, held, session, stale>>
    BY <1>14 DEF PayoutAnswered, PayoutUnrecorded
  <2> QED BY <1>11, <2>1, <2>2
<1>15. CASE PayoutRecorded
  <2>1. payout.moved = payout.amount /\ payout.amount <= fees
    BY <1>15 DEF PayoutRecorded, PayoutFits
  <2>2. payout'.moved = 0 /\ fees' = fees - payout.amount
    BY <1>0, <1>15, <2>1, NoPayoutTyped DEF PayoutRecorded, Booked
  <2>3. UNCHANGED <<provider, held, session, stale>>
    BY <1>15 DEF PayoutRecorded
  <2> QED BY <1>0, <2>1, <2>2, <2>3 DEF Covered, Owed, Staked
<1>9. CASE StartBalance \/ StartFees \/ Expire \/ UNCHANGED vars
  BY <1>1, <1>9 DEF StartBalance, StartFees, Expire, vars, account
<1>10. ASSUME NEW h \in Handlers,
              \/ \E id \in Ids : Receive(h, id)
              \/ ReadBalance(h) \/ ReadFees(h) \/ SelectRow(h) \/ InsertRow(h)
              \/ Answer(h) \/ Finish(h) \/ FinishFails(h)
       PROVE  Covered'
  <2>1. UNCHANGED <<account, session, stale>>
    BY <1>10, Zenon
    DEF Receive, ReadBalance, ReadFees, SelectRow, InsertRow, Answer, Finish,
        FinishFails
  <2> QED BY <1>1, <2>1
<1> QED
  BY <1>3, <1>4, <1>5, <1>6, <1>7, <1>8, <1>9, <1>10, <1>12, <1>13, <1>14, <1>15, Zenon
  DEF Next, Request, Trading, Dispatch

\* The account covers the fees the collector does not have yet, between the steps
\* of their payout and when its answer is lost, unless a payment or a session was
\* decided on what was no longer true, for any amounts and any number of requests
\* and sessions (UncoveredIsStale).
THEOREM UncoveredHolds == Spec => []UncoveredIsStale
<1>1. Typed /\ PayoutFits /\ Covered => UncoveredIsStale
  <2> SUFFICES ASSUME Typed, PayoutFits, Covered, Owed > provider PROVE stale
    BY DEF UncoveredIsStale
  <2>1. provider \in Nat /\ Owed \in Nat /\ Staked \in Nat /\ stale \in BOOLEAN
    BY DEF Typed, TypeOK, Owed, Staked, Session, Payout, PayoutFits
  <2> QED BY <2>1 DEF Covered
<1> QED
  BY <1>1, TypedInit, TypedStep, RoomInit, RoomStep, PayoutInit, PayoutStep,
     CoveredInit, CoveredStep, PTL
  DEF Spec
=============================================================================
