---------------------------- MODULE ProviderClient ----------------------------
(***************************************************************************)
(* The socket of one user to the provider and the balance read over it     *)
(* (pasino/client.go): requests for a balance share a read and a cache of  *)
(* five seconds, a trading session places bets over the same socket, and   *)
(* whoever finds the socket dead drops it and leaves a goroutine to        *)
(* connect again.                                                          *)
(*                                                                         *)
(* A balance is the number of bets the provider has carried out.           *)
(***************************************************************************)
EXTENDS Integers, Sequences, FiniteSets

CONSTANTS
  Readers,      \* requests that call Balance
  Viewer,       \* a page of the admin, which calls Balances
  Bettor,       \* the trading session, which calls PlaceBet
  Login,        \* RefreshFromLogin, which calls DropUserSocket
  Loop,         \* reconnectLoop
  Nobody,
  Attempts,     \* of reconnectLoop, 8 in the code
  MaxSockets,   \* bound: connections made
  MaxEvents     \* bound: balances asked for, bets, logins and broken connections

VARIABLES
  played,     \* at the provider: bets carried out
  sockets,    \* connections, by number; each has its readSocket goroutine
  registered, \* Client.sockets of the user, 0 for none
  connecting, \* who holds the user's connectLock
  flight,     \* who reads for balanceFlight
  known,      \* lastKnown, with what history says of it
  fresh,      \* balanceCache has it, too
  go,         \* the goroutines that call
  tried,      \* attempts of reconnectLoop
  cleared,    \* history: bets carried out when ClearBalanceCache last ran
  made, events

vars == <<played, sockets, registered, connecting, flight, known, fresh, go, tried,
          cleared, made, events>>
bounds == <<made, events>>

Others == {Viewer, Bettor, Login, Loop}
Callers == Readers \cup Others
Sockets == 1..MaxSockets

ASSUME ClientAssumption ==
  /\ Viewer \notin {Bettor, Login, Loop} /\ Bettor \notin {Login, Loop} /\ Login # Loop
  /\ Nobody \notin Others
  /\ Readers \cap (Others \cup {Nobody}) = {}
  /\ Attempts \in Nat \ {0}
  /\ {MaxSockets, MaxEvents} \subseteq Nat

\* id tells the calls apart; an answer carries the id of its request.
Request == [kind : {"balance", "bet"}, id : Nat]
Message == [kind : {"balance", "bet"}, id : Nat, value : Nat]

\* reader: what readSocket does; open: the connection is not closed yet; stopped:
\* the channel stop is closed; broken: the network lost it; mu: who holds it.
Socket ==
  [reader : {"none", "reading", "close", "over"}, open : BOOLEAN, stopped : BOOLEAN,
   broken : BOOLEAN, mu : Callers \cup {Nobody},
   requests : Seq(Request), incoming : Seq(Message)]
NoSocket ==
  [reader |-> "none", open |-> FALSE, stopped |-> FALSE, broken |-> FALSE,
   mu |-> Nobody, requests |-> <<>>, incoming |-> <<>>]
NewSocket == [NoSocket EXCEPT !.reader = "reading", !.open = TRUE]

\* The statement a goroutine comes to next.
PC == {"idle", "follow", "ensure", "dial", "lock", "wait", "drop", "close",
       "store", "ending"}

\* again: the second try of readBalance; mine: the answer is the call's own;
\* since: cleared when the call began; got: the id of the answer to a bet.
Caller ==
  [pc : PC, socket : 0..MaxSockets, id : Nat, again : BOOLEAN, value : Nat,
   ok : BOOLEAN, mine : BOOLEAN, since : Nat, got : Nat]
Idle == [pc |-> "idle", socket |-> 0, id |-> 0, again |-> FALSE, value |-> 0,
         ok |-> FALSE, mine |-> TRUE, since |-> 0, got |-> 0]

\* overtaken: ClearBalanceCache ran while the value was being read; borrowed: it
\* answers another call.
Nothing == [set |-> FALSE, value |-> 0, overtaken |-> FALSE, borrowed |-> FALSE]

Init ==
  /\ played = 0
  /\ sockets = [s \in Sockets |-> NoSocket]
  /\ registered = 0 /\ connecting = Nobody /\ flight = Nobody
  /\ known = Nothing /\ fresh = FALSE
  /\ go = [g \in Callers |-> Idle]
  /\ tried = 0 /\ cleared = 0
  /\ made = 0 /\ events = 0

At(g, pc) == go[g].pc = pc
Goes(g, pc) == go' = [go EXCEPT ![g].pc = pc]
Own(g) == go[g].socket

-----------------------------------------------------------------------------
(* The provider and the network *)

calling == <<registered, connecting, flight, known, fresh, go, tried, cleared>>

\* Requests are carried out in order, also those of a connection that is lost;
\* its answers are lost.
Serve(s) ==
  LET request == Head(sockets[s].requests)
      count == IF request.kind = "bet" THEN played + 1 ELSE played
      message == [kind |-> request.kind, id |-> request.id, value |-> count]
  IN
  /\ sockets[s].requests # <<>>
  /\ played' = count
  /\ sockets' = [sockets EXCEPT ![s].requests = Tail(@), ![s].incoming =
       IF sockets[s].open /\ ~sockets[s].broken THEN Append(@, message) ELSE @]
  /\ UNCHANGED <<calling, bounds>>

Break(s) ==
  /\ sockets[s].open /\ ~sockets[s].broken /\ events < MaxEvents
  /\ events' = events + 1
  /\ sockets' = [sockets EXCEPT ![s].broken = TRUE]
  /\ UNCHANGED <<calling, played, made>>

-----------------------------------------------------------------------------
(* dropSocket and scheduleReconnect *)

\* The user's socket once s is dropped: another one may have taken its place.
Removed(s) == 0                                        \* mutant
Without(s) == IF registered = s THEN 0 ELSE registered

\* Of the requests on their way only a bet still matters.
Bets(requests) == SelectSeq(requests, LAMBDA r : r.kind = "bet")
Stop(s) == [sockets EXCEPT ![s].open = FALSE, ![s].stopped = TRUE,
              ![s].requests = Bets(@)]

\* One loop at a time: the flag goes when its goroutine ends.
Scheduled(callers) ==
  IF callers[Loop].pc = "idle"
    THEN [callers EXCEPT ![Loop] = [Idle EXCEPT !.pc = "ensure"]] ELSE callers
ScheduledTries == IF At(Loop, "idle") THEN 0 ELSE tried

MayTryAgain == tried + 1 < Attempts

\* A call that comes to nothing: readBalance tries once more, reconnectLoop as
\* often as it may; of a bet the outcome is unknown.
Failed(g) ==
  IF g \in Readers
    THEN [go[g] EXCEPT !.pc = IF go[g].again THEN "store" ELSE "ensure",
                       !.again = TRUE, !.socket = 0]
  ELSE IF g = Loop
    THEN [Idle EXCEPT !.pc = IF MayTryAgain THEN "ensure" ELSE "ending"]
  ELSE [Idle EXCEPT !.id = go[g].id]

\* Nobody tries again when the provider rejects the account or the HTTP request
\* is cancelled.
Refused(g) ==
  IF g \in Readers THEN [go[g] EXCEPT !.pc = "store"]
  ELSE IF g = Loop THEN [Idle EXCEPT !.pc = "ending"]
  ELSE Failed(g)

\* A call holds the socket's mutex until it returns.  Nobody waits for what a
\* stopped socket without a holder has received.
Unlocked(all, g, s) ==
  [all EXCEPT ![s].mu = IF @ = g THEN Nobody ELSE @,
              ![s].incoming = IF all[s].stopped /\ all[s].mu \in {g, Nobody}
                                THEN <<>> ELSE @]

Returns(g) ==                                          \* mutant
  /\ At(g, "drop")
  /\ sockets' = Unlocked(sockets, g, Own(g))
  /\ go' = [go EXCEPT ![g] = Failed(g)]
  /\ UNCHANGED <<played, registered, connecting, flight, known, fresh, tried, cleared,
                 bounds>>

Drop(g) ==
  /\ At(g, "drop")
  /\ registered' = Without(Own(g))
  /\ Goes(g, "close")
  /\ UNCHANGED <<played, sockets, connecting, flight, known, fresh, tried, cleared,
                 bounds>>

Close(g) ==
  /\ At(g, "close")
  /\ sockets' = Unlocked(Stop(Own(g)), g, Own(g))
  /\ go' = Scheduled([go EXCEPT ![g] = Failed(g)])
  /\ tried' = ScheduledTries
  /\ UNCHANGED <<played, registered, connecting, flight, known, fresh, cleared,
                 bounds>>

\* readSocket drops a socket that is lost, and again one that was closed.
ReaderDrops(s) ==
  /\ sockets[s].reader = "reading" /\ sockets[s].broken /\ sockets[s].open
  /\ sockets' = [sockets EXCEPT ![s].reader = "close"]
  /\ registered' = Without(s)
  /\ UNCHANGED <<played, connecting, flight, known, fresh, go, tried, cleared, bounds>>

ReaderCloses(s) ==
  /\ \/ sockets[s].reader = "close"
     \/ sockets[s].reader = "reading" /\ ~sockets[s].open
  /\ sockets' = [Stop(s) EXCEPT ![s].reader = "over"]
  /\ go' = Scheduled(go)
  /\ tried' = ScheduledTries
  /\ UNCHANGED <<played, registered, connecting, flight, known, fresh, cleared,
                 bounds>>

-----------------------------------------------------------------------------
(* ensureSocket *)

reading == <<played, flight, known, fresh, cleared, events>>

Live == registered # 0 /\ ~sockets[registered].stopped

\* reconnectLoop has what it wants when there is a socket.
Has(g, s) ==
  [go EXCEPT ![g].socket = s, ![g].pc = IF g = Loop THEN "ending" ELSE "lock"]

\* Whoever gets the connectLock looks again, so that waiting for it is left out.
Ensure(g) ==
  /\ At(g, "ensure")
  /\ IF Live THEN go' = Has(g, registered) /\ UNCHANGED <<registered, connecting>>
     ELSE /\ connecting = Nobody
          /\ connecting' = g
          /\ registered' = 0
          /\ Goes(g, "dial")
  /\ UNCHANGED <<reading, tried, sockets, made>>

\* Until it is registered nobody else sees the connection.
Dial(g) ==
  /\ At(g, "dial")
  /\ connecting' = Nobody
  /\ \/ /\ made < MaxSockets
        /\ made' = made + 1
        /\ sockets' = [sockets EXCEPT ![made'] = NewSocket]
        /\ registered' = made'
        /\ go' = Has(g, made')
        /\ UNCHANGED tried
     \/ /\ go' = [go EXCEPT ![g] = Failed(g)]
        /\ tried' = IF g = Loop THEN tried + 1 ELSE tried
        /\ UNCHANGED <<sockets, registered, made>>
     \/ /\ go' = [go EXCEPT ![g] = Refused(g)]
        /\ UNCHANGED <<sockets, registered, made, tried>>
  /\ UNCHANGED reading

-----------------------------------------------------------------------------
(* A request over the socket: readBalanceOnce, Balances and PlaceBet *)

asking == <<played, registered, connecting, flight, tried, bounds>>
Kind(g) == IF g = Bettor THEN "bet" ELSE "balance"

\* The mutex is taken and the request written; writing to a connection that is
\* lost may still succeed.
Write(g) ==
  LET s == Own(g) IN
  /\ At(g, "lock") /\ sockets[s].mu = Nobody
  /\ \/ /\ sockets[s].open
        /\ sockets' = [sockets EXCEPT ![s].mu = g, ![s].requests =
             Append(@, [kind |-> Kind(g), id |-> go[g].id])]
        /\ Goes(g, "wait")
     \/ /\ ~sockets[s].open \/ sockets[s].broken
        /\ sockets' = [sockets EXCEPT ![s].mu = g]
        /\ Goes(g, "drop")
  /\ UNCHANGED <<asking, known, fresh, cleared>>

\* What PlaceBet leaves of lastKnown.
KeptKnown == known                                     \* mutant
ClearedKnown == Nothing

\* The next message; one of another action is passed over, and by Balances one
\* without an amount.  PlaceBet clears the cache before it returns; Balances keeps
\* the mutex until it has stored.
Receive(g) ==
  LET s == Own(g)
      message == Head(sockets[s].incoming)
      taken == [sockets EXCEPT ![s].incoming = Tail(@)]
  IN
  /\ At(g, "wait") /\ sockets[s].incoming # <<>>
  /\ \/ /\ message.kind # Kind(g) \/ g = Viewer
        /\ sockets' = taken
        /\ UNCHANGED <<go, known, fresh, cleared>>
     \/ /\ message.kind = Kind(g)
        /\ sockets' = IF g = Viewer THEN taken ELSE Unlocked(taken, g, s)
        /\ IF g = Bettor
             THEN /\ go' = [go EXCEPT ![g] = [Idle EXCEPT
                       !.id = go[g].id, !.got = message.id]]
                  /\ known' = ClearedKnown /\ fresh' = FALSE
                  /\ cleared' = message.value
             ELSE /\ go' = [go EXCEPT ![g].pc = "store", ![g].ok = TRUE,
                       ![g].value = message.value,
                       ![g].mine = message.id = go[g].id]
                  /\ UNCHANGED <<known, fresh, cleared>>
  /\ UNCHANGED asking

\* A balance without an amount: readBalanceOnce fails and leaves the socket alone.
ReceiveBlank(r) ==
  LET s == Own(r) IN
  /\ At(r, "wait") /\ sockets[s].incoming # <<>>
  /\ Head(sockets[s].incoming).kind = "balance"
  /\ sockets' = Unlocked([sockets EXCEPT ![s].incoming = Tail(@)], r, s)
  /\ go' = [go EXCEPT ![r] = Failed(r)]
  /\ UNCHANGED <<asking, known, fresh, cleared>>

\* The socket is dead, or does not answer in time.
GivesUp(g) ==
  /\ At(g, "wait")
  /\ Goes(g, "drop")
  /\ UNCHANGED <<asking, sockets, known, fresh, cleared>>

\* The HTTP request is cancelled: the socket stays, with an answer to come.
Cancel(g) ==
  /\ g \in Readers \cup {Viewer} /\ At(g, "wait")
  /\ sockets' = Unlocked(sockets, g, Own(g))
  /\ go' = [go EXCEPT ![g] = Refused(g)]
  /\ UNCHANGED <<asking, known, fresh, cleared>>

-----------------------------------------------------------------------------
(* Balance *)

staying == <<played, sockets, registered, connecting, tried, made>>

\* A value of the cache is the answer at once; a read that is under way is shared.
Ask(r) ==
  /\ At(r, "idle") /\ events < MaxEvents
  /\ events' = events + 1
  /\ IF fresh THEN UNCHANGED <<go, flight>>
     ELSE LET pc == IF flight = Nobody THEN "ensure" ELSE "follow" IN
          /\ go' = [go EXCEPT ![r] =
               [Idle EXCEPT !.pc = pc, !.id = events', !.since = cleared]]
          /\ flight' = IF flight = Nobody THEN r ELSE flight
  /\ UNCHANGED <<staying, known, fresh, cleared>>

LeavesFlight(r) ==
  /\ At(r, "follow")
  /\ go' = [go EXCEPT ![r] = Idle]
  /\ UNCHANGED <<staying, flight, known, fresh, cleared, events>>

\* Those who are answered when a read ends: all who share it, whatever came of it.
WithValue(r) == {f \in Readers : At(f, "follow") /\ go[r].ok}  \* mutant
Followers(r) == {f \in Readers : At(f, "follow")}

Remember(g) ==
  /\ known' = [set |-> TRUE, value |-> go[g].value,
               overtaken |-> go[g].since # cleared, borrowed |-> ~go[g].mine]
  /\ fresh' = TRUE

Store(r) ==
  /\ At(r, "store")
  /\ flight' = Nobody
  /\ go' = [g \in Callers |-> IF g \in Followers(r) \cup {r} THEN Idle ELSE go[g]]
  /\ IF go[r].ok THEN Remember(r) ELSE UNCHANGED <<known, fresh>>
  /\ UNCHANGED <<staying, cleared, events>>

\* Five seconds are over.
Expire ==
  /\ fresh
  /\ fresh' = FALSE
  /\ UNCHANGED <<staying, flight, known, go, cleared, events>>

-----------------------------------------------------------------------------
(* The other callers *)

\* Balances neither looks at the cache nor shares a read.
Look ==
  /\ At(Viewer, "idle") /\ events < MaxEvents
  /\ events' = events + 1
  /\ go' = [go EXCEPT ![Viewer] =
       [Idle EXCEPT !.pc = "ensure", !.id = events', !.since = cleared]]
  /\ UNCHANGED <<staying, flight, known, fresh, cleared>>

StoreSeen ==
  /\ At(Viewer, "store")
  /\ Remember(Viewer)
  /\ sockets' = Unlocked(sockets, Viewer, Own(Viewer))
  /\ go' = [go EXCEPT ![Viewer] = Idle]
  /\ UNCHANGED <<played, registered, connecting, flight, tried, cleared, bounds>>

PlaceBet ==
  /\ At(Bettor, "idle") /\ events < MaxEvents
  /\ events' = events + 1
  /\ go' = [go EXCEPT ![Bettor] = [Idle EXCEPT !.pc = "ensure", !.id = events']]
  /\ UNCHANGED <<played, sockets, registered, connecting, flight, known, fresh,
                 tried, cleared, made>>

\* The new token is for a new socket.
DropUserSocket ==
  /\ At(Login, "idle") /\ events < MaxEvents
  /\ events' = events + 1
  /\ known' = Nothing /\ fresh' = FALSE
  /\ go' = IF registered = 0 THEN go
           ELSE [go EXCEPT ![Login] = [Idle EXCEPT !.pc = "drop", !.socket = registered]]
  /\ UNCHANGED <<played, sockets, registered, connecting, flight, tried, cleared,
                 made>>

LoopEnds ==
  /\ At(Loop, "ending")
  /\ go' = [go EXCEPT ![Loop] = Idle]
  /\ UNCHANGED <<staying, flight, known, fresh, cleared, events>>

-----------------------------------------------------------------------------
Step(g) ==
  \/ Ensure(g) \/ Dial(g) \/ Write(g) \/ Receive(g) \/ GivesUp(g)
  \/ Drop(g) \/ Close(g)

ReaderStep(s) == ReaderDrops(s) \/ ReaderCloses(s)

Next ==
  \/ \E g \in Callers : Step(g)
  \/ \E s \in Sockets : Serve(s) \/ Break(s) \/ ReaderStep(s)
  \/ \E r \in Readers :
       Ask(r) \/ LeavesFlight(r) \/ ReceiveBlank(r) \/ Cancel(r) \/ Store(r)
  \/ Cancel(Viewer) \/ Look \/ StoreSeen
  \/ PlaceBet \/ DropUserSocket \/ LoopEnds \/ Expire

Spec == Init /\ [][Next]_vars

-----------------------------------------------------------------------------
(* Properties *)

\* Type invariant of the model.
TypeOK ==
  /\ played \in Nat /\ cleared \in Nat
  /\ sockets \in [Sockets -> Socket]
  /\ registered \in 0..MaxSockets
  /\ connecting \in Callers \cup {Nobody} /\ flight \in Readers \cup {Nobody}
  /\ known \in [set : BOOLEAN, value : Nat, overtaken : BOOLEAN, borrowed : BOOLEAN]
  /\ fresh \in BOOLEAN
  /\ go \in [Callers -> Caller]
  /\ tried \in 0..Attempts
  /\ made \in 0..MaxSockets /\ events \in 0..MaxEvents

\* A bet is settled by its own update, also when the update of an earlier one comes
\* late (client.go PlaceBet drops the socket, "Bet yang sudah dikirim tetapi timeout
\* tidak boleh meninggalkan bet_update terlambat").
OwnUpdate == go[Bettor].got \in {0, go[Bettor].id}

\* Every connection that is open is the user's socket, or somebody is about to
\* close it: none is left behind when sockets are dropped and made at once
\* (client.go ensureSocket, dropSocket).
NoStraySocket ==
  \A s \in Sockets : sockets[s].open =>
    \/ registered = s
    \/ sockets[s].reader = "close"
    \/ \E g \in Callers : At(g, "close") /\ Own(g) = s

\* A balance kept from before the last bet is one whose read the bet overtook, or
\* the late answer to a request that was cancelled (client.go ClearBalanceCache).
StaleIsExplained ==
  known.set => known.value >= cleared \/ known.overtaken \/ known.borrowed

\* "so a stale value can never survive a mutation" (client.go:337-339).
NoStaleSurvives == known.set => known.value >= cleared

\* Nobody is waited for who is not at work: a shared read has a reader, and a mutex
\* a holder that will release it, however calls fail (client.go Balance,
\* dropSocket, ensureSocket).
NobodyIsLeftWaiting ==
  /\ \A r \in Readers : At(r, "follow") => flight # Nobody
  /\ flight # Nobody => go[flight].pc \notin {"idle", "follow"}
  /\ \A s \in Sockets : sockets[s].mu # Nobody =>
       /\ Own(sockets[s].mu) = s
       /\ go[sockets[s].mu].pc \in
            {"wait", "drop", "close"} \cup IF sockets[s].mu = Viewer THEN {"store"} ELSE {}
  /\ connecting # Nobody => At(connecting, "dial")
=============================================================================
