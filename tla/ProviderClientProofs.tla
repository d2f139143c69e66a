------------------------- MODULE ProviderClientProofs -------------------------
(***************************************************************************)
(* Proofs about ProviderClient, for any number of readers, sockets,        *)
(* attempts and calls: a bet is settled by its own update, no connection   *)
(* is left behind, a balance from before the last bet is explained, and    *)
(* nobody is waited for who is not at work.  Three invariants follow each  *)
(* other: who is at work (Work), whose bet is on its way (Bound), and how  *)
(* old an answer is (Aged).                                                *)
(***************************************************************************)
EXTENDS ProviderClient, TLAPS

-----------------------------------------------------------------------------
(* Who is at work                                                          *)

SocketFields == {"reader", "open", "stopped", "broken", "mu", "requests", "incoming"}

\* What becomes of the requests of a closed connection plays no part.
SocketOK(x) ==
  /\ DOMAIN x = SocketFields
  /\ x.reader \in {"none", "reading", "close", "over"}
  /\ x.open \in BOOLEAN /\ x.stopped \in BOOLEAN
  /\ x.mu \in Callers \cup {Nobody}
  /\ x.incoming \in Seq(Message)
  /\ x.open => x.requests \in Seq(Request)
  /\ x.stopped => ~x.open
  /\ ~x.stopped /\ ~x.open => x.incoming = <<>>

Typed ==
  /\ DOMAIN sockets = Sockets /\ \A s \in Sockets : SocketOK(sockets[s])
  /\ go \in [Callers -> Caller]
  /\ played \in Nat /\ cleared \in Nat /\ events \in Nat /\ made \in Nat
  /\ registered \in 0..MaxSockets
  /\ connecting \in Callers \cup {Nobody} /\ flight \in Readers \cup {Nobody}

\* Where a call is, and what it must have there.
CallerWorks(g) ==
  /\ go[g].pc = "dial" => connecting = g
  /\ go[g].pc \in {"lock", "wait", "drop", "close"} => go[g].socket \in Sockets
  /\ go[g].pc = "follow" => g \in Readers
  /\ g = Viewer /\ go[g].pc = "store" => go[g].socket \in Sockets

\* The statements at which a call has the mutex.
Holding(g) == {"wait", "drop", "close"} \cup IF g = Viewer THEN {"store"} ELSE {}

Held(s) ==
  LET g == sockets[s].mu IN
  g # Nobody => go[g].socket = s /\ go[g].pc \in Holding(g)

\* An open connection is the user's, or will be closed.
Closing(s) ==
  \/ registered = s
  \/ sockets[s].reader = "close"
  \/ \E g \in Callers : go[g].pc = "close" /\ go[g].socket = s

SocketWorks(s) == Held(s) /\ (sockets[s].open => Closing(s))

\* Who dials, and who reads for the others.
CallsWork ==
  /\ connecting # Nobody => go[connecting].pc = "dial" /\ registered = 0
  /\ \A r \in Readers : go[r].pc = "follow" => flight # Nobody
  /\ flight # Nobody => go[flight].pc \notin {"idle", "follow"}

Work ==
  /\ Typed /\ CallsWork
  /\ \A g \in Callers : CallerWorks(g)
  /\ \A s \in Sockets : SocketWorks(s)

-----------------------------------------------------------------------------
(* Values                                                                  *)

\* The names are of different callers.
LEMMA Names ==
  /\ Viewer # Bettor /\ Viewer # Login /\ Viewer # Loop /\ Bettor # Login
  /\ Bettor # Loop /\ Login # Loop
  /\ Viewer \notin Readers /\ Bettor \notin Readers /\ Login \notin Readers
  /\ Loop \notin Readers /\ Nobody \notin Callers
  /\ Viewer \in Callers /\ Bettor \in Callers /\ Login \in Callers /\ Loop \in Callers
  /\ Readers \subseteq Callers
BY ClientAssumption DEF Callers, Others

\* The bounds are numbers, and 0 stands for no socket.
LEMMA Bounds ==
  /\ MaxSockets \in Nat /\ MaxEvents \in Nat
  /\ 0 \notin Sockets /\ Sockets \subseteq 0..MaxSockets /\ Sockets \subseteq Nat
BY ClientAssumption DEF Sockets

\* A caller that does nothing.
LEMMA IdleTyped ==
  /\ Idle \in Caller
  /\ Idle.pc = "idle" /\ Idle.socket = 0 /\ Idle.id = 0 /\ Idle.since = 0
  /\ Idle.ok = FALSE /\ Idle.got = 0
BY Bounds DEF Idle, Caller, PC

\* A caller's statement is set.
LEMMA PcSet ==
  ASSUME NEW c \in Caller, NEW p \in PC, NEW d,
         d = [c EXCEPT !.pc = p]
  PROVE  /\ d \in Caller /\ d.pc = p /\ d.socket = c.socket /\ d.id = c.id
         /\ d.since = c.since /\ d.ok = c.ok /\ d.mine = c.mine /\ d.value = c.value
         /\ d.got = c.got
BY DEF Caller

\* Callers that begin, or end.
LEMMA StartSet ==
  ASSUME NEW p \in PC, NEW d,
         d = [Idle EXCEPT !.pc = p]
  PROVE  /\ d \in Caller /\ d.pc = p /\ d.id = 0 /\ d.since = 0 /\ d.ok = FALSE
         /\ d.got = 0 /\ d.socket = 0
<1>1. 0 \in 0..MaxSockets
  BY Bounds
<1> QED
  BY <1>1 DEF Idle, Caller

LEMMA EndSet ==
  ASSUME NEW i \in Nat, NEW d,
         d = [Idle EXCEPT !.id = i]
  PROVE  /\ d \in Caller /\ d.pc = "idle" /\ d.id = i /\ d.since = 0 /\ d.ok = FALSE
         /\ d.got = 0
<1>1. 0 \in 0..MaxSockets
  BY Bounds
<1> QED
  BY <1>1 DEF Idle, Caller, PC

-----------------------------------------------------------------------------
(* What a step makes of the calls                                          *)

\* dropSocket starts reconnectLoop.
Wakes(h) == h = Loop /\ go[h].pc = "idle" /\ go'[h] = [Idle EXCEPT !.pc = "ensure"]
CallersKeep(G) == \A h \in Callers \ G : go'[h] = go[h] \/ Wakes(h)

LEMMA WokenTyped ==
  ASSUME NEW h, Wakes(h)
  PROVE  /\ h = Loop /\ go[h].pc = "idle" /\ go'[h] \in Caller /\ go'[h].pc = "ensure"
         /\ go'[h].id = 0 /\ go'[h].since = 0 /\ go'[h].ok = FALSE /\ go'[h].got = 0
<1>1. "ensure" \in PC
  BY DEF PC
<1>2. PICK d : d = go'[h]
  OBVIOUS
<1>3. h = Loop /\ go[h].pc = "idle" /\ d = [Idle EXCEPT !.pc = "ensure"]
  BY <1>2 DEF Wakes
<1>4. /\ d \in Caller /\ d.pc = "ensure" /\ d.id = 0 /\ d.since = 0 /\ d.ok = FALSE
      /\ d.got = 0 /\ d.socket = 0
  BY <1>1, <1>3, StartSet
<1> QED
  BY <1>2, <1>3, <1>4

\* One call changes.
LEMMA OneChanges ==
  ASSUME go \in [Callers -> Caller], NEW g \in Callers, NEW c \in Caller,
         go' = [go EXCEPT ![g] = c]
  PROVE  go' \in [Callers -> Caller] /\ go'[g] = c /\ CallersKeep({g})
BY DEF CallersKeep

\* One call changes and reconnectLoop is started.
LEMMA OneChangesAndLoopStarts ==
  ASSUME go \in [Callers -> Caller], NEW g \in Callers, NEW c \in Caller,
         g = Loop => c.pc # "idle",
         go' = Scheduled([go EXCEPT ![g] = c])
  PROVE  go' \in [Callers -> Caller] /\ go'[g] = c /\ CallersKeep({g})
<1> DEFINE mid == [go EXCEPT ![g] = c]
<1>1. mid \in [Callers -> Caller] /\ mid[g] = c /\ \A h \in Callers \ {g} : mid[h] = go[h]
  OBVIOUS
<1>2. Loop \in Callers
  BY Names
<1>3. "ensure" \in PC
  BY DEF PC
<1>4. [Idle EXCEPT !.pc = "ensure"] \in Caller
  BY <1>3, StartSet
<1>5. go' = IF mid[Loop].pc = "idle" THEN [mid EXCEPT ![Loop] = [Idle EXCEPT !.pc = "ensure"]]
                                     ELSE mid
  BY DEF Scheduled
<1> HIDE DEF mid
<1>6. CASE mid[Loop].pc = "idle"
  <2>1. g # Loop
    BY <1>1, <1>6
  <2>2. go' = [mid EXCEPT ![Loop] = [Idle EXCEPT !.pc = "ensure"]]
    BY <1>5, <1>6
  <2>3. go' \in [Callers -> Caller] /\ go'[g] = c
    BY <1>1, <1>2, <1>4, <2>1, <2>2
  <2>4. ASSUME NEW h \in Callers \ {g}
        PROVE  go'[h] = go[h] \/ Wakes(h)
    BY <1>1, <1>2, <1>6, <2>1, <2>2 DEF Wakes
  <2> QED
    BY <2>3, <2>4 DEF CallersKeep
<1>7. CASE mid[Loop].pc # "idle"
  BY <1>1, <1>5, <1>7 DEF CallersKeep
<1> QED
  BY <1>6, <1>7

LEMMA LoopStarts ==
  ASSUME go \in [Callers -> Caller], go' = Scheduled(go)
  PROVE  go' \in [Callers -> Caller] /\ CallersKeep({})
<1>2. Loop \in Callers
  BY Names
<1>3. "ensure" \in PC
  BY DEF PC
<1>4. [Idle EXCEPT !.pc = "ensure"] \in Caller
  BY <1>3, StartSet
<1>5. go' = IF go[Loop].pc = "idle" THEN [go EXCEPT ![Loop] = [Idle EXCEPT !.pc = "ensure"]]
                                    ELSE go
  BY DEF Scheduled
<1>6. go' \in [Callers -> Caller]
  BY <1>2, <1>4, <1>5
<1>7. ASSUME NEW h \in Callers
      PROVE  go'[h] = go[h] \/ Wakes(h)
  BY <1>2, <1>5 DEF Wakes
<1> QED
  BY <1>6, <1>7 DEF CallersKeep

LEMMA NoneChanges ==
  ASSUME UNCHANGED go
  PROVE  CallersKeep({})
BY DEF CallersKeep

\* A call goes to another statement and keeps everything else.
Keeps(g, d) ==
  /\ d.id = go[g].id /\ d.since = go[g].since /\ d.ok = go[g].ok
  /\ d.mine = go[g].mine /\ d.value = go[g].value /\ d.got = go[g].got

LEMMA Goes1 ==
  ASSUME go \in [Callers -> Caller], NEW g \in Callers, NEW p \in PC, Goes(g, p)
  PROVE  /\ go' \in [Callers -> Caller] /\ CallersKeep({g})
         /\ go'[g].pc = p /\ go'[g].socket = go[g].socket /\ Keeps(g, go'[g])
<1> DEFINE c == [go[g] EXCEPT !.pc = p]
<1>1. go[g] \in Caller
  OBVIOUS
<1>2. /\ c \in Caller /\ c.pc = p /\ c.socket = go[g].socket /\ Keeps(g, c)
  BY <1>1, PcSet DEF Keeps
<1>3. go' = [go EXCEPT ![g] = c]
  BY DEF Goes
<1> HIDE DEF c
<1> QED
  BY <1>2, <1>3, OneChanges

LEMMA Has1 ==
  ASSUME go \in [Callers -> Caller], NEW g \in Callers, NEW s \in 0..MaxSockets,
         go' = Has(g, s)
  PROVE  /\ go' \in [Callers -> Caller] /\ CallersKeep({g})
         /\ go'[g].pc = (IF g = Loop THEN "ending" ELSE "lock") /\ go'[g].socket = s
         /\ Keeps(g, go'[g])
<1> DEFINE p == IF g = Loop THEN "ending" ELSE "lock"
<1> DEFINE c == [go[g] EXCEPT !.socket = s, !.pc = p]
<1>1. go[g] \in Caller
  OBVIOUS
<1>0. p \in PC
  BY DEF PC
<1> HIDE DEF p
<1> DEFINE x == go[g]
<1>5. x \in Caller /\ c = [x EXCEPT !.socket = s, !.pc = p]
  BY <1>1
<1> HIDE DEF x, c
<1>6. /\ c \in Caller /\ c.pc = p /\ c.socket = s /\ c.id = x.id
      /\ c.since = x.since /\ c.ok = x.ok /\ c.mine = x.mine /\ c.value = x.value
      /\ c.got = x.got
  BY <1>0, <1>5 DEF Caller
<1>2. /\ c \in Caller /\ c.pc = p /\ c.socket = s /\ Keeps(g, c)
  BY <1>6 DEF Keeps, x
<1> USE DEF c
<1>3. go' = [go EXCEPT ![g] = c]
  BY DEF Has, p
<1> HIDE DEF c
<1>4. /\ go' \in [Callers -> Caller] /\ CallersKeep({g}) /\ go'[g] = c
  BY <1>2, <1>3, OneChanges
<1> QED
  BY <1>2, <1>4 DEF p

\* A call that comes to nothing: it tries again, keeps what it knows or ends.
Settles(g, c) ==
  /\ c \in Caller
  /\ c.pc \in {"idle", "ensure", "ending", "store"}
  /\ g \in Readers => c.pc \in {"ensure", "store"} /\ Keeps(g, c)
  /\ g = Loop => c.pc # "idle"
  /\ g = Viewer => c.pc = "idle"
  /\ g = Bettor => c.id = go[g].id /\ c.got = 0
  /\ g \notin Readers => c.id \in {0, go[g].id} /\ c.since = 0 /\ c.ok = FALSE

LEMMA FailedSettles ==
  ASSUME go \in [Callers -> Caller], NEW g \in Callers
  PROVE  Settles(g, Failed(g))
<1>1. go[g] \in Caller /\ go[g].id \in Nat
  BY DEF Caller
<1>2. {"idle", "ensure", "ending", "store"} \subseteq PC
  BY DEF PC
<1>3. CASE g \in Readers
  <2> DEFINE p == IF go[g].again THEN "store" ELSE "ensure"
  <2>1. p \in {"ensure", "store"} /\ p \in PC
    BY <1>2
  <2>2. Failed(g) = [go[g] EXCEPT !.pc = p, !.again = TRUE, !.socket = 0]
    BY <1>3 DEF Failed
  <2>3. 0 \in 0..MaxSockets
    BY Bounds
  <2> HIDE DEF p
  <2> DEFINE d == Failed(g)
  <2>5. d = [go[g] EXCEPT !.pc = p, !.again = TRUE, !.socket = 0]
    BY <2>2
  <2> HIDE DEF d
  <2> DEFINE x == go[g]
  <2>7. x \in Caller /\ d = [x EXCEPT !.pc = p, !.again = TRUE, !.socket = 0]
    BY <1>1, <2>5
  <2> HIDE DEF x
  <2>6. /\ d \in Caller /\ d.pc = p /\ d.id = x.id
        /\ d.since = x.since /\ d.ok = x.ok /\ d.mine = x.mine
        /\ d.value = x.value /\ d.got = x.got
    BY <2>1, <2>3, <2>7 DEF Caller
  <2> USE DEF d, x
  <2>4. Failed(g) \in Caller /\ Failed(g).pc = p /\ Keeps(g, Failed(g))
    BY <2>6 DEF Keeps
  <2> QED
    BY <1>3, <2>1, <2>4, Names DEF Settles
<1>4. CASE g = Loop
  <2> DEFINE p == IF MayTryAgain THEN "ensure" ELSE "ending"
  <2>1. p \in {"ensure", "ending"} /\ p \in PC
    BY <1>2
  <2>2. Failed(g) = [Idle EXCEPT !.pc = p]
    BY <1>4, Names DEF Failed
  <2> HIDE DEF p
  <2>3. /\ Failed(g) \in Caller /\ Failed(g).pc = p /\ Failed(g).id = 0
        /\ Failed(g).since = 0 /\ Failed(g).ok = FALSE
    BY <2>1, <2>2, StartSet
  <2> QED
    BY <1>4, <2>1, <2>3, Names DEF Settles
<1>5. CASE g \notin Readers /\ g # Loop
  <2>1. \E i \in Nat : i = go[g].id /\ Failed(g) = [Idle EXCEPT !.id = i]
    BY <1>1, <1>5 DEF Failed
  <2>2. PICK i \in Nat : i = go[g].id /\ Failed(g) = [Idle EXCEPT !.id = i]
    BY <2>1
  <2>3. PICK d : d = Failed(g)
    OBVIOUS
  <2>4. d = [Idle EXCEPT !.id = i]
    BY <2>2, <2>3
  <2>5. /\ d \in Caller /\ d.pc = "idle" /\ d.id = i /\ d.since = 0 /\ d.ok = FALSE
        /\ d.got = 0
    BY <2>4, EndSet
  <2> QED
    BY <1>5, <2>2, <2>3, <2>5 DEF Settles
<1> QED
  BY <1>3, <1>4, <1>5

LEMMA RefusedSettles ==
  ASSUME go \in [Callers -> Caller], NEW g \in Callers
  PROVE  Settles(g, Refused(g))
<1>1. go[g] \in Caller
  OBVIOUS
<1>2. {"ending", "store"} \subseteq PC
  BY DEF PC
<1>3. CASE g \in Readers
  <2>1. Refused(g) = [go[g] EXCEPT !.pc = "store"]
    BY <1>3 DEF Refused
  <2>2. Refused(g) \in Caller /\ Refused(g).pc = "store" /\ Keeps(g, Refused(g))
    BY <1>1, <1>2, <2>1, PcSet DEF Keeps
  <2> QED
    BY <1>3, <2>2, Names DEF Settles
<1>4. CASE g = Loop
  <2>1. Refused(g) = [Idle EXCEPT !.pc = "ending"]
    BY <1>4, Names DEF Refused
  <2>2. /\ Refused(g) \in Caller /\ Refused(g).pc = "ending" /\ Refused(g).id = 0
        /\ Refused(g).since = 0 /\ Refused(g).ok = FALSE
    BY <1>2, <2>1, StartSet
  <2> QED
    BY <1>4, <2>2, Names DEF Settles
<1>5. CASE g \notin Readers /\ g # Loop
  BY <1>5, FailedSettles DEF Refused
<1> QED
  BY <1>3, <1>4, <1>5

-----------------------------------------------------------------------------
(* What a step makes of the sockets                                        *)

\* Only s changes.
Touched(s) ==
  DOMAIN sockets' = Sockets /\ \A t \in Sockets \ {s} : sockets'[t] = sockets[t]

\* Nothing new is on its way over s.
Quiet(s) ==
  LET a == sockets[s].incoming
      b == sockets'[s].incoming
  IN
  /\ b = a \/ b = <<>> \/ (a # <<>> /\ b = Tail(a))
  /\ sockets'[s].open => sockets[s].open /\ sockets'[s].requests = sockets[s].requests

\* What s is after a step that does not open it.
Socket1(s, mu, open, reader) ==
  /\ Touched(s) /\ SocketOK(sockets'[s]) /\ Quiet(s)
  /\ sockets'[s].mu = mu /\ sockets'[s].open = open /\ sockets'[s].reader = reader

\* The mutex of s once g has given it back.
Back(g, s) == IF sockets[s].mu = g THEN Nobody ELSE sockets[s].mu

\* One socket has new fields.
LEMMA UnlockedFields ==
  ASSUME NEW all, DOMAIN all = Sockets, NEW s \in Sockets, DOMAIN all[s] = SocketFields,
         NEW g
  PROVE  LET u == Unlocked(all, g, s) IN
         /\ DOMAIN u = Sockets /\ \A t \in Sockets \ {s} : u[t] = all[t]
         /\ DOMAIN u[s] = SocketFields
         /\ u[s].mu = (IF all[s].mu = g THEN Nobody ELSE all[s].mu)
         /\ u[s].incoming = (IF all[s].stopped /\ all[s].mu \in {g, Nobody}
                               THEN <<>> ELSE all[s].incoming)
         /\ u[s].reader = all[s].reader /\ u[s].open = all[s].open
         /\ u[s].stopped = all[s].stopped /\ u[s].requests = all[s].requests
<1> DEFINE x == all[s]
           m == IF x.mu = g THEN Nobody ELSE x.mu
           a == IF x.stopped /\ x.mu \in {g, Nobody} THEN <<>> ELSE x.incoming
           y == [[x EXCEPT !.mu = m] EXCEPT !.incoming = a]
           u == Unlocked(all, g, s)
<1>1. u = [all EXCEPT ![s] = y]
  BY DEF Unlocked
<1>2. /\ DOMAIN u = Sockets /\ \A t \in Sockets \ {s} : u[t] = all[t]
      /\ u[s] = y
  BY <1>1
<1> HIDE DEF m, a
<1>3. /\ DOMAIN y = SocketFields /\ y.mu = m /\ y.incoming = a /\ y.reader = x.reader
      /\ y.open = x.open /\ y.stopped = x.stopped /\ y.requests = x.requests
  BY DEF SocketFields
<1> HIDE DEF u, y
<1>4. /\ DOMAIN u = Sockets /\ (\A t \in Sockets \ {s} : u[t] = all[t])
      /\ DOMAIN u[s] = SocketFields /\ u[s].mu = m /\ u[s].incoming = a
      /\ u[s].reader = all[s].reader /\ u[s].open = all[s].open
      /\ u[s].stopped = all[s].stopped /\ u[s].requests = all[s].requests
  BY <1>2, <1>3
<1> QED
  BY <1>4 DEF u, m, a

LEMMA StopFields ==
  ASSUME Typed, NEW s \in Sockets
  PROVE  LET u == Stop(s) IN
         /\ DOMAIN u = Sockets /\ \A t \in Sockets \ {s} : u[t] = sockets[t]
         /\ DOMAIN u[s] = SocketFields
         /\ u[s].open = FALSE /\ u[s].stopped = TRUE /\ u[s].reader = sockets[s].reader
         /\ u[s].mu = sockets[s].mu /\ u[s].incoming = sockets[s].incoming
<1> DEFINE x == sockets[s]
           q == Bets(x.requests)
           y == [[[x EXCEPT !.open = FALSE] EXCEPT !.stopped = TRUE] EXCEPT !.requests = q]
           u == Stop(s)
<1>0. DOMAIN sockets = Sockets /\ DOMAIN x = SocketFields
  BY DEF Typed, SocketOK
<1> HIDE DEF q
<1>1. u = [sockets EXCEPT ![s] = y]
  BY <1>0 DEF Stop, q
<1>2. /\ DOMAIN u = Sockets /\ (\A t \in Sockets \ {s} : u[t] = sockets[t]) /\ u[s] = y
  BY <1>0, <1>1
<1>3. /\ DOMAIN y = SocketFields /\ y.open = FALSE /\ y.stopped = TRUE
      /\ y.reader = x.reader /\ y.mu = x.mu /\ y.incoming = x.incoming
  BY <1>0 DEF SocketFields
<1> HIDE DEF u, y
<1>4. /\ DOMAIN u = Sockets /\ (\A t \in Sockets \ {s} : u[t] = sockets[t])
      /\ DOMAIN u[s] = SocketFields
      /\ u[s].open = FALSE /\ u[s].stopped = TRUE /\ u[s].reader = sockets[s].reader
      /\ u[s].mu = sockets[s].mu /\ u[s].incoming = sockets[s].incoming
  BY <1>2, <1>3
<1> QED
  BY <1>4 DEF u

\* A call gives the mutex back.
LEMMA UnlockedSocket ==
  ASSUME Typed, NEW s \in Sockets, NEW g \in Callers, sockets' = Unlocked(sockets, g, s)
  PROVE  Socket1(s, Back(g, s), sockets[s].open, sockets[s].reader)
<1>1. DOMAIN sockets = Sockets /\ SocketOK(sockets[s])
  BY DEF Typed
<1>2. /\ DOMAIN sockets' = Sockets /\ \A t \in Sockets \ {s} : sockets'[t] = sockets[t]
      /\ DOMAIN sockets'[s] = SocketFields
      /\ sockets'[s].mu = Back(g, s)
      /\ sockets'[s].incoming = (IF sockets[s].stopped /\ sockets[s].mu \in {g, Nobody}
                                   THEN <<>> ELSE sockets[s].incoming)
      /\ sockets'[s].reader = sockets[s].reader /\ sockets'[s].open = sockets[s].open
      /\ sockets'[s].stopped = sockets[s].stopped
      /\ sockets'[s].requests = sockets[s].requests
  BY <1>1, UnlockedFields DEF Back, SocketOK
<1>3. SocketOK(sockets'[s])
  BY <1>1, <1>2 DEF SocketOK, Back
<1> QED
  BY <1>2, <1>3 DEF Socket1, Touched, Quiet

\* A call closes the connection and gives the mutex back.
LEMMA ClosedSocket ==
  ASSUME Typed, NEW s \in Sockets, NEW g \in Callers,
         sockets' = Unlocked(Stop(s), g, s)
  PROVE  /\ Socket1(s, Back(g, s), FALSE, sockets[s].reader)
         /\ sockets[s].mu \in {g, Nobody} => sockets'[s].incoming = <<>>
<1> DEFINE all == Stop(s)
<1>1. DOMAIN sockets = Sockets /\ SocketOK(sockets[s])
  BY DEF Typed
<1>2. /\ DOMAIN all = Sockets /\ \A t \in Sockets \ {s} : all[t] = sockets[t]
      /\ DOMAIN all[s] = SocketFields
      /\ all[s].open = FALSE /\ all[s].stopped = TRUE /\ all[s].reader = sockets[s].reader
      /\ all[s].mu = sockets[s].mu /\ all[s].incoming = sockets[s].incoming
  BY StopFields
<1>3. sockets' = Unlocked(all, g, s)
  OBVIOUS
<1> HIDE DEF all
<1>4. /\ DOMAIN sockets' = Sockets /\ \A t \in Sockets \ {s} : sockets'[t] = all[t]
      /\ DOMAIN sockets'[s] = SocketFields
      /\ sockets'[s].mu = (IF all[s].mu = g THEN Nobody ELSE all[s].mu)
      /\ sockets'[s].incoming = (IF all[s].stopped /\ all[s].mu \in {g, Nobody}
                                   THEN <<>> ELSE all[s].incoming)
      /\ sockets'[s].reader = all[s].reader /\ sockets'[s].open = all[s].open
      /\ sockets'[s].stopped = all[s].stopped
  BY <1>2, <1>3, UnlockedFields
<1>6. sockets'[s].incoming \in Seq(Message)
  <2>1. <<>> \in Seq(Message) /\ sockets[s].incoming \in Seq(Message)
    BY <1>1 DEF SocketOK
  <2> QED
    BY <1>2, <1>4, <2>1
<1>5. SocketOK(sockets'[s])
  BY <1>1, <1>2, <1>4, <1>6 DEF SocketOK
<1> QED
  BY <1>2, <1>4, <1>5 DEF Socket1, Touched, Quiet, Back

\* The next message is read.
LEMMA TakenFields ==
  ASSUME Typed, NEW s \in Sockets, sockets[s].incoming # <<>>
  PROVE  LET u == [sockets EXCEPT ![s].incoming = Tail(@)] IN
         /\ DOMAIN u = Sockets /\ \A t \in Sockets \ {s} : u[t] = sockets[t]
         /\ DOMAIN u[s] = SocketFields
         /\ u[s].open = sockets[s].open /\ u[s].stopped = sockets[s].stopped
         /\ u[s].reader = sockets[s].reader /\ u[s].requests = sockets[s].requests
         /\ u[s].mu = sockets[s].mu
         /\ u[s].incoming = Tail(sockets[s].incoming) /\ u[s].incoming \in Seq(Message)
<1>1. DOMAIN sockets = Sockets /\ DOMAIN sockets[s] = SocketFields
  BY DEF Typed, SocketOK
<1>2. sockets[s].incoming \in Seq(Message)
  BY DEF Typed, SocketOK
<1>3. Tail(sockets[s].incoming) \in Seq(Message)
  BY <1>2
<1> QED
  BY <1>1, <1>3 DEF SocketFields

LEMMA TakenSocket ==
  ASSUME Typed, NEW s \in Sockets, sockets[s].incoming # <<>>,
         sockets' = [sockets EXCEPT ![s].incoming = Tail(@)]
  PROVE  /\ Socket1(s, sockets[s].mu, sockets[s].open, sockets[s].reader)
         /\ sockets'[s].incoming = Tail(sockets[s].incoming)
<1>1. /\ DOMAIN sockets' = Sockets /\ \A t \in Sockets \ {s} : sockets'[t] = sockets[t]
      /\ DOMAIN sockets'[s] = SocketFields
      /\ sockets'[s].open = sockets[s].open /\ sockets'[s].stopped = sockets[s].stopped
      /\ sockets'[s].reader = sockets[s].reader
      /\ sockets'[s].requests = sockets[s].requests
      /\ sockets'[s].mu = sockets[s].mu
      /\ sockets'[s].incoming = Tail(sockets[s].incoming)
      /\ sockets'[s].incoming \in Seq(Message)
  BY TakenFields
<1>2. SocketOK(sockets[s])
  BY DEF Typed
<1>3. SocketOK(sockets'[s])
  BY <1>1, <1>2 DEF SocketOK
<1> QED
  BY <1>1, <1>3 DEF Socket1, Touched, Quiet

LEMMA ReceivedSocket ==
  ASSUME Typed, NEW s \in Sockets, NEW g \in Callers, sockets[s].incoming # <<>>,
         sockets' = Unlocked([sockets EXCEPT ![s].incoming = Tail(@)], g, s)
  PROVE  /\ Socket1(s, Back(g, s), sockets[s].open, sockets[s].reader)
         /\ sockets'[s].incoming \in {<<>>, Tail(sockets[s].incoming)}
         /\ sockets[s].stopped /\ sockets[s].mu \in {g, Nobody} => sockets'[s].incoming = <<>>
<1> DEFINE all == [sockets EXCEPT ![s].incoming = Tail(@)]
<1>1. SocketOK(sockets[s])
  BY DEF Typed
<1>2. /\ DOMAIN all = Sockets /\ \A t \in Sockets \ {s} : all[t] = sockets[t]
      /\ DOMAIN all[s] = SocketFields
      /\ all[s].open = sockets[s].open /\ all[s].stopped = sockets[s].stopped
      /\ all[s].reader = sockets[s].reader /\ all[s].requests = sockets[s].requests
      /\ all[s].mu = sockets[s].mu
      /\ all[s].incoming = Tail(sockets[s].incoming) /\ all[s].incoming \in Seq(Message)
  BY TakenFields
<1>3. sockets' = Unlocked(all, g, s)
  OBVIOUS
<1> HIDE DEF all
<1>4. /\ DOMAIN sockets' = Sockets /\ \A t \in Sockets \ {s} : sockets'[t] = all[t]
      /\ DOMAIN sockets'[s] = SocketFields
      /\ sockets'[s].mu = (IF all[s].mu = g THEN Nobody ELSE all[s].mu)
      /\ sockets'[s].incoming = (IF all[s].stopped /\ all[s].mu \in {g, Nobody}
                                   THEN <<>> ELSE all[s].incoming)
      /\ sockets'[s].reader = all[s].reader /\ sockets'[s].open = all[s].open
      /\ sockets'[s].stopped = all[s].stopped /\ sockets'[s].requests = all[s].requests
  <2>1. DOMAIN all = Sockets /\ DOMAIN all[s] = SocketFields
    BY <1>2
  <2> DEFINE u == Unlocked(all, g, s)
  <2>2. /\ DOMAIN u = Sockets /\ \A t \in Sockets \ {s} : u[t] = all[t]
        /\ DOMAIN u[s] = SocketFields
        /\ u[s].mu = (IF all[s].mu = g THEN Nobody ELSE all[s].mu)
        /\ u[s].incoming = (IF all[s].stopped /\ all[s].mu \in {g, Nobody}
                              THEN <<>> ELSE all[s].incoming)
        /\ u[s].reader = all[s].reader /\ u[s].open = all[s].open
        /\ u[s].stopped = all[s].stopped /\ u[s].requests = all[s].requests
    BY <2>1, UnlockedFields
  <2>3. sockets' = u
    BY <1>3
  <2> HIDE DEF u
  <2> QED
    BY <2>2, <2>3
<1>5. sockets'[s].incoming \in Seq(Message)
  <2>1. <<>> \in Seq(Message)
    OBVIOUS
  <2> QED
    BY <1>2, <1>4, <2>1
<1>6. SocketOK(sockets'[s])
  BY <1>1, <1>2, <1>4, <1>5 DEF SocketOK
<1> QED
  BY <1>2, <1>4, <1>6 DEF Socket1, Touched, Quiet, Back

\* The network loses the connection.
LEMMA BrokenSocket ==
  ASSUME Typed, NEW s \in Sockets, sockets' = [sockets EXCEPT ![s].broken = TRUE]
  PROVE  Socket1(s, sockets[s].mu, sockets[s].open, sockets[s].reader)
<1>1. DOMAIN sockets = Sockets /\ SocketOK(sockets[s])
  BY DEF Typed
<1>2. /\ DOMAIN sockets' = Sockets /\ \A t \in Sockets \ {s} : sockets'[t] = sockets[t]
      /\ DOMAIN sockets'[s] = SocketFields
      /\ sockets'[s].open = sockets[s].open /\ sockets'[s].stopped = sockets[s].stopped
      /\ sockets'[s].reader = sockets[s].reader
      /\ sockets'[s].requests = sockets[s].requests
      /\ sockets'[s].mu = sockets[s].mu /\ sockets'[s].incoming = sockets[s].incoming
  BY <1>1 DEF SocketOK, SocketFields
<1>3. SocketOK(sockets'[s])
  BY <1>1, <1>2 DEF SocketOK
<1> QED
  BY <1>2, <1>3 DEF Socket1, Touched, Quiet

\* readSocket goes on.
LEMMA ReaderSocket ==
  ASSUME Typed, NEW s \in Sockets, sockets' = [sockets EXCEPT ![s].reader = "close"]
  PROVE  Socket1(s, sockets[s].mu, sockets[s].open, "close")
<1>1. DOMAIN sockets = Sockets /\ SocketOK(sockets[s])
  BY DEF Typed
<1>2. /\ DOMAIN sockets' = Sockets /\ \A t \in Sockets \ {s} : sockets'[t] = sockets[t]
      /\ DOMAIN sockets'[s] = SocketFields
      /\ sockets'[s].open = sockets[s].open /\ sockets'[s].stopped = sockets[s].stopped
      /\ sockets'[s].reader = "close"
      /\ sockets'[s].requests = sockets[s].requests
      /\ sockets'[s].mu = sockets[s].mu /\ sockets'[s].incoming = sockets[s].incoming
  BY <1>1 DEF SocketOK, SocketFields
<1>3. SocketOK(sockets'[s])
  BY <1>1, <1>2 DEF SocketOK
<1> QED
  BY <1>2, <1>3 DEF Socket1, Touched, Quiet

LEMMA OverSocket ==
  ASSUME Typed, NEW s \in Sockets, sockets' = [Stop(s) EXCEPT ![s].reader = "over"]
  PROVE  Socket1(s, sockets[s].mu, FALSE, "over")
<1> DEFINE all == Stop(s)
<1>1. SocketOK(sockets[s])
  BY DEF Typed
<1>2. /\ DOMAIN all = Sockets /\ \A t \in Sockets \ {s} : all[t] = sockets[t]
      /\ DOMAIN all[s] = SocketFields
      /\ all[s].open = FALSE /\ all[s].stopped = TRUE /\ all[s].reader = sockets[s].reader
      /\ all[s].mu = sockets[s].mu /\ all[s].incoming = sockets[s].incoming
  BY StopFields
<1>3. sockets' = [all EXCEPT ![s].reader = "over"]
  OBVIOUS
<1> HIDE DEF all
<1>4. /\ DOMAIN sockets' = Sockets /\ \A t \in Sockets \ {s} : sockets'[t] = all[t]
      /\ DOMAIN sockets'[s] = SocketFields /\ sockets'[s].reader = "over"
      /\ sockets'[s].open = all[s].open /\ sockets'[s].stopped = all[s].stopped
      /\ sockets'[s].mu = all[s].mu /\ sockets'[s].incoming = all[s].incoming
  BY <1>2, <1>3 DEF SocketFields
<1>5. SocketOK(sockets'[s])
  BY <1>1, <1>2, <1>4 DEF SocketOK
<1> QED
  BY <1>2, <1>4, <1>5 DEF Socket1, Touched, Quiet

\* A call takes the mutex.
LEMMA LockedSocket ==
  ASSUME Typed, NEW s \in Sockets, NEW g \in Callers,
         sockets' = [sockets EXCEPT ![s].mu = g]
  PROVE  Socket1(s, g, sockets[s].open, sockets[s].reader)
<1>1. DOMAIN sockets = Sockets /\ SocketOK(sockets[s])
  BY DEF Typed
<1>2. /\ DOMAIN sockets' = Sockets /\ \A t \in Sockets \ {s} : sockets'[t] = sockets[t]
      /\ DOMAIN sockets'[s] = SocketFields
      /\ sockets'[s].open = sockets[s].open /\ sockets'[s].stopped = sockets[s].stopped
      /\ sockets'[s].reader = sockets[s].reader
      /\ sockets'[s].requests = sockets[s].requests
      /\ sockets'[s].mu = g /\ sockets'[s].incoming = sockets[s].incoming
  BY <1>1 DEF SocketOK, SocketFields
<1>3. SocketOK(sockets'[s])
  BY <1>1, <1>2 DEF SocketOK
<1> QED
  BY <1>2, <1>3 DEF Socket1, Touched, Quiet

\* A call takes the mutex and writes its request.
LEMMA WrittenSocket ==
  ASSUME Typed, NEW s \in Sockets, NEW g \in Callers, sockets[s].open, NEW r \in Request,
         sockets' = [sockets EXCEPT ![s].mu = g, ![s].requests = Append(@, r)]
  PROVE  /\ Touched(s) /\ SocketOK(sockets'[s])
         /\ sockets'[s].mu = g /\ sockets'[s].open = TRUE
         /\ sockets'[s].reader = sockets[s].reader
         /\ sockets'[s].incoming = sockets[s].incoming
         /\ sockets'[s].requests = Append(sockets[s].requests, r)
<1> DEFINE x == sockets[s]
           q == Append(x.requests, r)
           y == [[x EXCEPT !.mu = g] EXCEPT !.requests = q]
<1>1. DOMAIN sockets = Sockets /\ SocketOK(x)
  BY DEF Typed
<1>2. sockets' = [sockets EXCEPT ![s] = y]
  BY <1>1 DEF SocketOK, SocketFields
<1>3. q \in Seq(Request)
  BY <1>1 DEF SocketOK
<1>4. DOMAIN sockets' = Sockets /\ (\A t \in Sockets \ {s} : sockets'[t] = sockets[t])
      /\ sockets'[s] = y
  BY <1>1, <1>2
<1> HIDE DEF q
<1>5. /\ DOMAIN y = SocketFields /\ y.mu = g /\ y.requests = q /\ y.reader = x.reader
      /\ y.open = x.open /\ y.stopped = x.stopped /\ y.incoming = x.incoming
  BY <1>1 DEF SocketOK, SocketFields
<1> HIDE DEF y
<1>6. SocketOK(y)
  BY <1>1, <1>3, <1>5 DEF SocketOK
<1> QED
  BY <1>1, <1>4, <1>5, <1>6 DEF Touched, q, SocketOK

\* The provider takes the next request; what it answers may arrive.
LEMMA ServedSocket ==
  ASSUME Typed, NEW s \in Sockets, sockets[s].requests # <<>>, NEW m,
         sockets[s].open => m \in Message,
         sockets' = [sockets EXCEPT ![s].requests = Tail(@), ![s].incoming =
           IF sockets[s].open /\ ~sockets[s].broken THEN Append(@, m) ELSE @]
  PROVE  /\ Touched(s) /\ SocketOK(sockets'[s])
         /\ sockets'[s].mu = sockets[s].mu /\ sockets'[s].open = sockets[s].open
         /\ sockets'[s].reader = sockets[s].reader
         /\ sockets'[s].requests = Tail(sockets[s].requests)
         /\ \/ sockets'[s].incoming = sockets[s].incoming
            \/ (sockets[s].open /\ sockets'[s].incoming = Append(sockets[s].incoming, m))
<1> DEFINE x == sockets[s]
           q == Tail(x.requests)
           a == IF x.open /\ ~x.broken THEN Append(x.incoming, m) ELSE x.incoming
           y == [[x EXCEPT !.requests = q] EXCEPT !.incoming = a]
<1>1. DOMAIN sockets = Sockets /\ SocketOK(x)
  BY DEF Typed
<1>2. sockets' = [sockets EXCEPT ![s] = y]
  BY <1>1 DEF SocketOK, SocketFields
<1>3. a \in Seq(Message) /\ (x.open => q \in Seq(Request))
  BY <1>1 DEF SocketOK
<1>4. DOMAIN sockets' = Sockets /\ (\A t \in Sockets \ {s} : sockets'[t] = sockets[t])
      /\ sockets'[s] = y
  BY <1>1, <1>2
<1>7. /\ (a = x.incoming \/ (x.open /\ a = Append(x.incoming, m)))
      /\ (~x.open => a = x.incoming)
  BY <1>1 DEF SocketOK
<1> HIDE DEF q, a
<1>5. /\ DOMAIN y = SocketFields /\ y.mu = x.mu /\ y.requests = q /\ y.reader = x.reader
      /\ y.open = x.open /\ y.stopped = x.stopped /\ y.incoming = a
  BY <1>1 DEF SocketOK, SocketFields
<1> HIDE DEF y
<1>6. SocketOK(y)
  BY <1>1, <1>3, <1>5, <1>7 DEF SocketOK
<1> QED
  BY <1>1, <1>4, <1>5, <1>6, <1>7 DEF Touched, q, SocketOK

\* A new connection.
LEMMA MadeSocket ==
  ASSUME Typed, NEW s \in Sockets, sockets' = [sockets EXCEPT ![s] = NewSocket]
  PROVE  /\ Touched(s) /\ SocketOK(sockets'[s])
         /\ sockets'[s].mu = Nobody /\ sockets'[s].open = TRUE
         /\ sockets'[s].incoming = <<>> /\ sockets'[s].requests = <<>>
<1>1. DOMAIN sockets = Sockets
  BY DEF Typed
<1>2. sockets'[s] = NewSocket
  BY <1>1
<1>3. /\ DOMAIN NewSocket = SocketFields /\ NewSocket.reader = "reading"
      /\ NewSocket.open = TRUE /\ NewSocket.stopped = FALSE /\ NewSocket.mu = Nobody
      /\ NewSocket.requests = <<>> /\ NewSocket.incoming = <<>>
  BY DEF NewSocket, NoSocket, SocketFields
<1>5. NewSocket.incoming \in Seq(Message) /\ NewSocket.requests \in Seq(Request)
  BY <1>3
<1> HIDE DEF NewSocket
<1>4. SocketOK(NewSocket)
  BY <1>3, <1>5 DEF SocketOK
<1> QED
  BY <1>1, <1>2, <1>3, <1>4 DEF Touched

-----------------------------------------------------------------------------
(* What a step leaves of Work                                              *)

\* The variables that are not sockets or callers keep their types.
LEMMA TypedNext ==
  ASSUME DOMAIN sockets' = Sockets, \A s \in Sockets : SocketOK(sockets'[s]),
         go' \in [Callers -> Caller], played' \in Nat, cleared' \in Nat, events' \in Nat,
         made' \in Nat, registered' \in 0..MaxSockets,
         connecting' \in Callers \cup {Nobody}, flight' \in Readers \cup {Nobody}
  PROVE  Typed'
BY DEF Typed, SocketOK

\* Calls that do nothing, or of which only reconnectLoop starts.
LEMMA CallersRest ==
  ASSUME Work, NEW G, CallersKeep(G),
         connecting' = connecting \/ \A h \in Callers \ G : go[h].pc # "dial"
  PROVE  \A h \in Callers \ G : CallerWorks(h)'
<1> SUFFICES ASSUME NEW h \in Callers \ G
             PROVE  CallerWorks(h)'
  OBVIOUS
<1>1. CallerWorks(h)
  BY DEF Work
<1>2. CASE go'[h] = go[h]
  BY <1>1, <1>2 DEF CallerWorks
<1>3. CASE Wakes(h)
  <2>1. go'[h].pc = "ensure"
    BY <1>3, WokenTyped
  <2> QED
    BY <2>1 DEF CallerWorks
<1> QED
  BY <1>2, <1>3 DEF CallersKeep

LEMMA CallerRests ==
  ASSUME Work, NEW g \in Callers, CallersKeep({g}), CallerWorks(g)',
         connecting' = connecting \/ \A h \in Callers \ {g} : go[h].pc # "dial"
  PROVE  \A h \in Callers : CallerWorks(h)'
BY CallersRest

\* Whoever else dials goes on dialing, and whoever else reads goes on reading.
Steady(h) ==
  /\ go[h].pc = "dial" => go'[h].pc = "dial"
  /\ h \in Readers /\ go'[h].pc = "follow" => go[h].pc = "follow"
  /\ h \in Readers /\ go[h].pc \notin {"idle", "follow"}
       => go'[h].pc \notin {"idle", "follow"}

LEMMA OthersSteady ==
  ASSUME NEW G, CallersKeep(G)
  PROVE  \A h \in Callers \ G : Steady(h)
<1> SUFFICES ASSUME NEW h \in Callers \ G
             PROVE  Steady(h)
  OBVIOUS
<1>1. go'[h] = go[h] \/ Wakes(h)
  BY DEF CallersKeep
<1> QED
  BY <1>1, WokenTyped DEF Steady

LEMMA CallsRest ==
  ASSUME Work, NEW G, CallersKeep(G), \A h \in Callers \cap G : Steady(h),
         UNCHANGED <<connecting, flight>>, registered' \in {registered, 0}
  PROVE  CallsWork'
<1>1. \A h \in Callers : Steady(h)
  BY OthersSteady
<1>2. CallsWork /\ connecting \in Callers \cup {Nobody} /\ flight \in Readers \cup {Nobody}
  BY DEF Work, Typed
<1>3. connecting # Nobody => go'[connecting].pc = "dial" /\ registered' = 0
  BY <1>1, <1>2 DEF CallsWork, Steady
<1>4. \A r \in Readers : go'[r].pc = "follow" => flight # Nobody
  BY <1>1, <1>2, Names DEF CallsWork, Steady
<1>5. flight # Nobody => go'[flight].pc \notin {"idle", "follow"}
  BY <1>1, <1>2, Names DEF CallsWork, Steady
<1> QED
  BY <1>3, <1>4, <1>5 DEF CallsWork

\* A mutex of which neither is the holder one of those that act, nor the next one.
LEMMA HeldRests ==
  ASSUME Work, NEW G, CallersKeep(G), NEW s \in Sockets,
         sockets'[s].mu \in {sockets[s].mu, Nobody}, sockets'[s].mu \notin G
  PROVE  Held(s)'
<1> DEFINE h == sockets'[s].mu
<1> SUFFICES ASSUME h # Nobody
             PROVE  go'[h].socket = s /\ go'[h].pc \in Holding(h)
  BY DEF Held, Holding
<1>1. h = sockets[s].mu /\ Held(s) /\ h \in Callers \cup {Nobody}
  BY DEF Work, SocketWorks, Typed, SocketOK
<1>2. go[h].socket = s /\ go[h].pc \in Holding(h)
  BY <1>1 DEF Held
<1>3. go[h].pc # "idle"
  BY <1>2 DEF Holding
<1>4. go'[h] = go[h]
  <2>1. ~Wakes(h)
    BY <1>3 DEF Wakes
  <2> QED
    BY <1>1, <2>1 DEF CallersKeep
<1> QED
  BY <1>2, <1>4

\* A connection that was open before, which nobody lets go of.
LEMMA ClosingRests ==
  ASSUME Work, NEW G, CallersKeep(G), NEW s \in Sockets,
         sockets[s].open,
         registered = s => registered' = s,
         sockets[s].reader = "close" => sockets'[s].reader = "close",
         \A g \in Callers \cap G : go[g].pc = "close" => go[g].socket # s
  PROVE  Closing(s)'
<1>1. Closing(s)
  BY DEF Work, SocketWorks
<1>2. ASSUME NEW h \in Callers, go[h].pc = "close", go[h].socket = s
      PROVE  go'[h].pc = "close" /\ go'[h].socket = s
  <2>1. ~Wakes(h)
    BY <1>2 DEF Wakes
  <2>2. h \notin G
    BY <1>2
  <2> QED
    BY <1>2, <2>1, <2>2 DEF CallersKeep
<1> QED
  BY <1>1, <1>2 DEF Closing

\* A step of g that leaves the sockets, and what g holds, alone.
LEMMA SocketsRest ==
  ASSUME Work, NEW G, CallersKeep(G), UNCHANGED <<sockets, registered>>,
         \A g \in Callers \cap G : go[g].pc \notin {"wait", "drop", "close"}
           /\ ~(g = Viewer /\ go[g].pc = "store")
  PROVE  \A s \in Sockets : SocketWorks(s)'
<1> SUFFICES ASSUME NEW s \in Sockets
             PROVE  SocketWorks(s)'
  OBVIOUS
<1>1. sockets[s].mu \notin G \/ sockets[s].mu = Nobody
  BY DEF Work, SocketWorks, Held, Holding, Typed, SocketOK
<1>2. Held(s)'
  <2>1. CASE sockets[s].mu = Nobody
    BY <2>1 DEF Held
  <2>2. CASE sockets[s].mu \notin G
    BY <2>2, HeldRests
  <2> QED
    BY <1>1, <2>1, <2>2
<1>3. ASSUME sockets'[s].open
      PROVE  Closing(s)'
  BY <1>3, ClosingRests
<1> QED
  BY <1>2, <1>3 DEF SocketWorks

\* The sockets but the one the step is about.
LEMMA OtherSocketsRest ==
  ASSUME Work, NEW G, CallersKeep(G), NEW s, Touched(s),
         \A t \in Sockets \ {s} : registered = t => registered' = t,
         \A g \in Callers \cap G :
            go[g].socket = s \/ go[g].pc \notin {"wait", "drop", "close", "store"}
  PROVE  \A t \in Sockets \ {s} : SocketWorks(t)'
<1> SUFFICES ASSUME NEW t \in Sockets \ {s}
             PROVE  SocketWorks(t)'
  OBVIOUS
<1>0. sockets'[t] = sockets[t]
  BY DEF Touched
<1>1. sockets[t].mu \notin G \/ sockets[t].mu = Nobody
  BY DEF Work, SocketWorks, Held, Holding, Typed, SocketOK
<1>2. Held(t)'
  <2>1. CASE sockets[t].mu = Nobody
    BY <1>0, <2>1 DEF Held
  <2>2. CASE sockets[t].mu \notin G
    BY <1>0, <2>2, HeldRests
  <2> QED
    BY <1>1, <2>1, <2>2
<1>3. ASSUME sockets'[t].open
      PROVE  Closing(t)'
  BY <1>0, <1>3, ClosingRests
<1> QED
  BY <1>2, <1>3 DEF SocketWorks

LEMMA TouchedTyped ==
  ASSUME Typed, NEW s \in Sockets, Touched(s), SocketOK(sockets'[s])
  PROVE  DOMAIN sockets' = Sockets /\ \A t \in Sockets : SocketOK(sockets'[t])
BY DEF Touched, Typed

\* A step of the socket's own goroutine, the provider or the network.
LEMMA SocketStep ==
  ASSUME Work, NEW s \in Sockets, Touched(s), SocketOK(sockets'[s]),
         go' \in [Callers -> Caller], CallersKeep({}),
         sockets'[s].mu = sockets[s].mu, sockets'[s].open => sockets[s].open,
         registered' \in 0..MaxSockets, registered' \in {registered, 0},
         \A t \in Sockets \ {s} : registered = t => registered' = t,
         sockets'[s].open => sockets'[s].reader = "close" \/
           (registered' = registered /\ sockets'[s].reader = sockets[s].reader),
         UNCHANGED <<connecting, flight, made, cleared>>,
         played' \in Nat, events' \in Nat
  PROVE  Work'
<1>1. Typed'
  BY TouchedTyped, TypedNext DEF Work, Typed
<1>2. CallsWork'
  BY CallsRest
<1>3. \A h \in Callers : CallerWorks(h)'
  BY CallersRest
<1>4. \A t \in Sockets \ {s} : SocketWorks(t)'
  BY OtherSocketsRest
<1>5. Held(s)'
  BY HeldRests
<1>6. ASSUME sockets'[s].open
      PROVE  Closing(s)'
  <2>1. CASE sockets'[s].reader = "close"
    BY <2>1 DEF Closing
  <2>2. CASE registered' = registered /\ sockets'[s].reader = sockets[s].reader
    BY <1>6, <2>2, ClosingRests
  <2> QED
    BY <1>6, <2>1, <2>2
<1> QED
  BY <1>1, <1>2, <1>3, <1>4, <1>5, <1>6 DEF Work, SocketWorks

LEMMA ServeWorks ==
  ASSUME Work, NEW s \in Sockets, Serve(s)
  PROVE  Work'
<1> DEFINE request == Head(sockets[s].requests)
           count == IF request.kind = "bet" THEN played + 1 ELSE played
           message == [kind |-> request.kind, id |-> request.id, value |-> count]
<1>1. Typed /\ SocketOK(sockets[s]) /\ played \in Nat
  BY DEF Work, Typed
<1>2. /\ sockets[s].requests # <<>>
      /\ played' = count
      /\ sockets' = [sockets EXCEPT ![s].requests = Tail(@), ![s].incoming =
           IF sockets[s].open /\ ~sockets[s].broken THEN Append(@, message) ELSE @]
      /\ UNCHANGED <<registered, connecting, flight, go, cleared, made, events>>
  BY DEF Serve, calling, bounds
<1>3. count \in Nat
  BY <1>1
<1> HIDE DEF count
<1>4. sockets[s].open => message \in Message
  <2>1. sockets[s].open => request \in Request
    BY <1>1, <1>2 DEF SocketOK
  <2> QED
    BY <1>3, <2>1 DEF Request, Message
<1> HIDE DEF message
<1>5. /\ Touched(s) /\ SocketOK(sockets'[s])
      /\ sockets'[s].mu = sockets[s].mu /\ sockets'[s].open = sockets[s].open
      /\ sockets'[s].reader = sockets[s].reader
  BY <1>1, <1>2, <1>4, ServedSocket
<1>6. go' \in [Callers -> Caller] /\ CallersKeep({}) /\ events' \in Nat
      /\ registered' \in 0..MaxSockets
  BY <1>1, <1>2, NoneChanges DEF Typed
<1> QED
  BY <1>2, <1>3, <1>5, <1>6, SocketStep

LEMMA BreakWorks ==
  ASSUME Work, NEW s \in Sockets, Break(s)
  PROVE  Work'
<1>1. Typed /\ events \in Nat
  BY DEF Work, Typed
<1>2. /\ sockets' = [sockets EXCEPT ![s].broken = TRUE] /\ events' = events + 1
      /\ UNCHANGED <<registered, connecting, flight, go, cleared, played, made>>
  BY DEF Break, calling
<1>3. Socket1(s, sockets[s].mu, sockets[s].open, sockets[s].reader)
  BY <1>1, <1>2, BrokenSocket
<1>4. go' \in [Callers -> Caller] /\ CallersKeep({}) /\ events' \in Nat /\ played' \in Nat
      /\ registered' \in 0..MaxSockets
  BY <1>1, <1>2, NoneChanges DEF Typed
<1> QED
  BY <1>2, <1>3, <1>4, SocketStep DEF Socket1

LEMMA ReaderDropsWorks ==
  ASSUME Work, NEW s \in Sockets, ReaderDrops(s)
  PROVE  Work'
<1>1. Typed
  BY DEF Work
<1>2. /\ sockets' = [sockets EXCEPT ![s].reader = "close"]
      /\ registered' = (IF registered = s THEN 0 ELSE registered)
      /\ UNCHANGED <<connecting, flight, go, cleared, played, made, events>>
  BY DEF ReaderDrops, bounds, Without
<1>3. Socket1(s, sockets[s].mu, sockets[s].open, "close")
  BY <1>1, <1>2, ReaderSocket
<1>4. go' \in [Callers -> Caller] /\ CallersKeep({}) /\ events' \in Nat /\ played' \in Nat
      /\ registered' \in 0..MaxSockets /\ registered' \in {registered, 0}
  BY <1>1, <1>2, NoneChanges, Bounds DEF Typed
<1>5. \A t \in Sockets \ {s} : registered = t => registered' = t
  BY <1>2
<1> QED
  BY <1>2, <1>3, <1>4, <1>5, SocketStep DEF Socket1

LEMMA ReaderClosesWorks ==
  ASSUME Work, NEW s \in Sockets, ReaderCloses(s)
  PROVE  Work'
<1>1. Typed
  BY DEF Work
<1>2. /\ sockets' = [Stop(s) EXCEPT ![s].reader = "over"] /\ go' = Scheduled(go)
      /\ UNCHANGED <<registered, connecting, flight, cleared, played, made, events>>
  BY DEF ReaderCloses, bounds
<1>3. Socket1(s, sockets[s].mu, FALSE, "over")
  BY <1>1, <1>2, OverSocket
<1>4. go' \in [Callers -> Caller] /\ CallersKeep({})
  BY <1>1, <1>2, LoopStarts DEF Typed
<1>5. events' \in Nat /\ played' \in Nat /\ registered' \in 0..MaxSockets
  BY <1>1, <1>2 DEF Typed
<1> QED
  BY <1>2, <1>3, <1>4, <1>5, SocketStep DEF Socket1

-----------------------------------------------------------------------------
(* The calls, one action each                                              *)

\* A call goes on with the socket it has.
LEMMA HolderMoves ==
  ASSUME Work, NEW g \in Callers, CallersKeep({g}), UNCHANGED sockets,
         go'[g].socket = go[g].socket, go'[g].pc \in Holding(g), go[g].pc # "close",
         registered' = registered \/
           (go'[g].pc = "close" /\ registered' = Without(go[g].socket))
  PROVE  \A s \in Sockets : SocketWorks(s)'
<1> SUFFICES ASSUME NEW s \in Sockets
             PROVE  SocketWorks(s)'
  OBVIOUS
<1>1. Held(s)'
  <2>1. CASE sockets[s].mu = g
    <3>1. Held(s) /\ g # Nobody
      BY Names DEF Work, SocketWorks
    <3>2. go[g].socket = s
      BY <2>1, <3>1 DEF Held
    <3> QED
      BY <2>1, <3>2 DEF Held, Holding
  <2>2. CASE sockets[s].mu # g
    BY <2>2, HeldRests
  <2> QED
    BY <2>1, <2>2
<1>2. ASSUME sockets'[s].open
      PROVE  Closing(s)'
  <2>1. CASE go'[g].pc = "close" /\ go[g].socket = s
    BY <2>1 DEF Closing
  <2>2. CASE ~(go'[g].pc = "close" /\ go[g].socket = s)
    <3>1. registered = s => registered' = s
      BY <2>2 DEF Without
    <3> QED
      BY <1>2, <3>1, ClosingRests
  <2> QED
    BY <2>1, <2>2
<1> QED
  BY <1>1, <1>2 DEF SocketWorks

LEMMA GivesUpWorks ==
  ASSUME Work, NEW g \in Callers, GivesUp(g)
  PROVE  Work'
<1>1. Typed /\ CallerWorks(g)
  BY DEF Work
<1>2. /\ go[g].pc = "wait" /\ Goes(g, "drop")
      /\ UNCHANGED <<sockets, registered, connecting, flight, cleared, played, made, events>>
  BY DEF GivesUp, asking, bounds, At
<1>3. /\ go' \in [Callers -> Caller] /\ CallersKeep({g})
      /\ go'[g].pc = "drop" /\ go'[g].socket = go[g].socket
  BY <1>1, <1>2, Goes1 DEF Typed, PC
<1>4. Typed'
  BY <1>1, <1>2, <1>3, TypedNext DEF Typed
<1>5. CallsWork'
  <2>1. Steady(g)
    BY <1>2, <1>3 DEF Steady
  <2> QED
    BY <1>2, <1>3, <2>1, CallsRest
<1>6. \A h \in Callers : CallerWorks(h)'
  <2>1. CallerWorks(g)'
    BY <1>1, <1>2, <1>3 DEF CallerWorks
  <2> QED
    BY <1>2, <1>3, <2>1, CallerRests
<1>7. \A s \in Sockets : SocketWorks(s)'
  BY <1>2, <1>3, HolderMoves DEF Holding
<1> QED
  BY <1>4, <1>5, <1>6, <1>7 DEF Work

LEMMA DropWorks ==
  ASSUME Work, NEW g \in Callers, Drop(g)
  PROVE  Work'
<1>1. Typed /\ CallerWorks(g)
  BY DEF Work
<1>2. /\ go[g].pc = "drop" /\ Goes(g, "close") /\ registered' = Without(go[g].socket)
      /\ UNCHANGED <<sockets, connecting, flight, cleared, played, made, events>>
  BY DEF Drop, bounds, At, Own
<1>3. /\ go' \in [Callers -> Caller] /\ CallersKeep({g})
      /\ go'[g].pc = "close" /\ go'[g].socket = go[g].socket
  BY <1>1, <1>2, Goes1 DEF Typed, PC
<1>0. registered' \in {0, registered} /\ registered' \in 0..MaxSockets
  BY <1>1, <1>2, Bounds DEF Without, Typed
<1>4. Typed'
  BY <1>0, <1>1, <1>2, <1>3, TypedNext DEF Typed
<1>5. CallsWork'
  <2>1. Steady(g)
    BY <1>2, <1>3 DEF Steady
  <2> QED
    BY <1>0, <1>2, <1>3, <2>1, CallsRest
<1>6. \A h \in Callers : CallerWorks(h)'
  <2>1. CallerWorks(g)'
    BY <1>1, <1>2, <1>3 DEF CallerWorks
  <2> QED
    BY <1>2, <1>3, <2>1, CallerRests
<1>7. \A s \in Sockets : SocketWorks(s)'
  BY <1>2, <1>3, HolderMoves DEF Holding
<1> QED
  BY <1>4, <1>5, <1>6, <1>7 DEF Work

\* A call that settles is not one that holds anything.
LEMMA SettledWorks ==
  ASSUME NEW g \in Callers, Settles(g, go'[g])
  PROVE  CallerWorks(g)' /\ (go[g].pc \notin {"idle", "follow", "dial"} => Steady(g))
<1>1. g \in Readers => go'[g].pc \in {"ensure", "store"}
  BY DEF Settles
<1>2. g = Viewer => go'[g].pc = "idle"
  BY DEF Settles
<1>3. go'[g].pc \in {"idle", "ensure", "ending", "store"}
  BY DEF Settles
<1>4. CallerWorks(g)'
  BY <1>2, <1>3 DEF CallerWorks
<1>5. ASSUME go[g].pc \notin {"idle", "follow", "dial"}
      PROVE  Steady(g)
  BY <1>1, <1>3, <1>5 DEF Steady
<1> QED
  BY <1>4, <1>5

\* A call gives the mutex of its socket back.
LEMMA GivesBack ==
  ASSUME Work, NEW g \in Callers, CallersKeep({g}), NEW s \in Sockets, go[g].socket = s,
         Touched(s), sockets'[s].mu = Back(g, s), sockets'[s].reader = sockets[s].reader,
         sockets'[s].open => sockets[s].open /\ go[g].pc # "close",
         UNCHANGED registered
  PROVE  \A t \in Sockets : SocketWorks(t)'
<1>1. \A t \in Sockets \ {s} : SocketWorks(t)'
  BY OtherSocketsRest
<1>2. Held(s)'
  <2>1. sockets'[s].mu # g /\ sockets'[s].mu \in {sockets[s].mu, Nobody}
    BY Names DEF Back
  <2> QED
    BY <2>1, HeldRests
<1>3. ASSUME sockets'[s].open
      PROVE  Closing(s)'
  BY <1>3, ClosingRests
<1> QED
  BY <1>1, <1>2, <1>3 DEF SocketWorks

LEMMA CloseWorks ==
  ASSUME Work, NEW g \in Callers, Close(g)
  PROVE  Work'
<1>1. Typed /\ CallerWorks(g)
  BY DEF Work
<1> DEFINE s == go[g].socket
<1>2. /\ go[g].pc = "close" /\ sockets' = Unlocked(Stop(s), g, s)
      /\ go' = Scheduled([go EXCEPT ![g] = Failed(g)])
      /\ UNCHANGED <<registered, connecting, flight, cleared, played, made, events>>
  BY DEF Close, bounds, At, Own
<1>3. s \in Sockets
  BY <1>1, <1>2 DEF CallerWorks
<1> HIDE DEF s
<1>4. Settles(g, Failed(g))
  BY <1>1, FailedSettles DEF Typed
<1>5. /\ go' \in [Callers -> Caller] /\ CallersKeep({g}) /\ go'[g] = Failed(g)
  BY <1>1, <1>2, <1>4, OneChangesAndLoopStarts DEF Typed, Settles
<1>6. Socket1(s, Back(g, s), FALSE, sockets[s].reader)
  BY <1>1, <1>2, <1>3, ClosedSocket
<1>7. Typed'
  BY <1>1, <1>2, <1>3, <1>5, <1>6, TypedNext, TouchedTyped DEF Typed, Socket1
<1>8. CallerWorks(g)' /\ Steady(g)
  BY <1>2, <1>4, <1>5, SettledWorks
<1>9. CallsWork'
  BY <1>2, <1>5, <1>8, CallsRest
<1>10. \A h \in Callers : CallerWorks(h)'
  BY <1>2, <1>5, <1>8, CallerRests
<1>11. \A t \in Sockets : SocketWorks(t)'
  <2>1. go[g].socket = s
    BY DEF s
  <2> QED
    BY <1>2, <1>3, <1>5, <1>6, <2>1, GivesBack DEF Socket1
<1> QED
  BY <1>7, <1>9, <1>10, <1>11 DEF Work

LEMMA CancelWorks ==
  ASSUME Work, NEW g \in Callers, Cancel(g)
  PROVE  Work'
<1>1. Typed /\ CallerWorks(g)
  BY DEF Work
<1> DEFINE s == go[g].socket
<1>2. /\ go[g].pc = "wait" /\ sockets' = Unlocked(sockets, g, s)
      /\ go' = [go EXCEPT ![g] = Refused(g)]
      /\ UNCHANGED <<registered, connecting, flight, cleared, played, made, events>>
  BY DEF Cancel, asking, bounds, At, Own
<1>3. s \in Sockets
  BY <1>1, <1>2 DEF CallerWorks
<1> HIDE DEF s
<1>4. Settles(g, Refused(g))
  BY <1>1, RefusedSettles DEF Typed
<1>5. /\ go' \in [Callers -> Caller] /\ CallersKeep({g}) /\ go'[g] = Refused(g)
  BY <1>1, <1>2, <1>4, OneChanges DEF Typed, Settles
<1>6. Socket1(s, Back(g, s), sockets[s].open, sockets[s].reader)
  BY <1>1, <1>2, <1>3, UnlockedSocket
<1>7. Typed'
  BY <1>1, <1>2, <1>3, <1>5, <1>6, TypedNext, TouchedTyped DEF Typed, Socket1
<1>8. CallerWorks(g)' /\ Steady(g)
  BY <1>2, <1>4, <1>5, SettledWorks
<1>9. CallsWork'
  BY <1>2, <1>5, <1>8, CallsRest
<1>10. \A h \in Callers : CallerWorks(h)'
  BY <1>2, <1>5, <1>8, CallerRests
<1>11. \A t \in Sockets : SocketWorks(t)'
  <2>1. go[g].socket = s
    BY DEF s
  <2> QED
    BY <1>2, <1>3, <1>5, <1>6, <2>1, GivesBack DEF Socket1
<1> QED
  BY <1>7, <1>9, <1>10, <1>11 DEF Work

\* A read whose answer has no amount.
LEMMA BlankWorks ==
  ASSUME Work, NEW g \in Readers, ReceiveBlank(g)
  PROVE  Work'
<1>1. Typed /\ CallerWorks(g) /\ g \in Callers
  BY Names DEF Work
<1> DEFINE s == go[g].socket
<1>2. /\ go[g].pc = "wait" /\ sockets' = Unlocked([sockets EXCEPT ![s].incoming = Tail(@)], g, s)
      /\ sockets[s].incoming # <<>>
      /\ go' = [go EXCEPT ![g] = Failed(g)]
      /\ UNCHANGED <<registered, connecting, flight, cleared, played, made, events>>
  BY DEF ReceiveBlank, asking, bounds, At, Own
<1>3. s \in Sockets
  BY <1>1, <1>2 DEF CallerWorks
<1> HIDE DEF s
<1>4. Settles(g, Failed(g))
  BY <1>1, FailedSettles DEF Typed
<1>5. /\ go' \in [Callers -> Caller] /\ CallersKeep({g}) /\ go'[g] = Failed(g)
  BY <1>1, <1>2, <1>4, OneChanges DEF Typed, Settles
<1>6. Socket1(s, Back(g, s), sockets[s].open, sockets[s].reader)
  BY <1>1, <1>2, <1>3, ReceivedSocket
<1>7. Typed'
  BY <1>1, <1>2, <1>3, <1>5, <1>6, TypedNext, TouchedTyped DEF Typed, Socket1
<1>8. CallerWorks(g)' /\ Steady(g)
  BY <1>1, <1>2, <1>4, <1>5, SettledWorks
<1>9. CallsWork'
  BY <1>1, <1>2, <1>5, <1>8, CallsRest
<1>10. \A h \in Callers : CallerWorks(h)'
  BY <1>1, <1>2, <1>5, <1>8, CallerRests
<1>11. \A t \in Sockets : SocketWorks(t)'
  <2>1. go[g].socket = s
    BY DEF s
  <2> QED
    BY <1>1, <1>2, <1>3, <1>5, <1>6, <2>1, GivesBack DEF Socket1
<1> QED
  BY <1>7, <1>9, <1>10, <1>11 DEF Work

\* A step of a call that has no mutex and no part in connecting.
LEMMA FreeStep ==
  ASSUME Work, NEW g \in Callers, CallersKeep({g}), go' \in [Callers -> Caller],
         go[g].pc \notin {"wait", "drop", "close", "store"},
         UNCHANGED <<sockets, registered, connecting, flight, made, played, cleared>>,
         events' \in Nat, CallerWorks(g)', Steady(g)
  PROVE  Work'
<1>1. Typed'
  BY TypedNext DEF Work, Typed
<1>2. CallsWork'
  BY CallsRest
<1>3. \A h \in Callers : CallerWorks(h)'
  BY CallerRests
<1>4. \A s \in Sockets : SocketWorks(s)'
  BY SocketsRest
<1> QED
  BY <1>1, <1>2, <1>3, <1>4 DEF Work

LEMMA IdleEffect ==
  ASSUME go \in [Callers -> Caller], NEW g \in Callers, go' = [go EXCEPT ![g] = Idle]
  PROVE  /\ go' \in [Callers -> Caller] /\ CallersKeep({g}) /\ go'[g] = Idle
         /\ go'[g].pc = "idle"
<1>1. Idle \in Caller /\ Idle.pc = "idle"
  BY IdleTyped
<1> QED
  BY <1>1, OneChanges

LEMMA LeavesFlightWorks ==
  ASSUME Work, NEW r \in Readers, LeavesFlight(r)
  PROVE  Work'
<1>1. Typed /\ r \in Callers
  BY Names DEF Work
<1>2. /\ go[r].pc = "follow" /\ go' = [go EXCEPT ![r] = Idle]
      /\ UNCHANGED <<sockets, registered, connecting, flight, made, played, cleared, events>>
  BY DEF LeavesFlight, staying, At
<1>3. /\ go' \in [Callers -> Caller] /\ CallersKeep({r}) /\ go'[r].pc = "idle"
  BY <1>1, <1>2, IdleEffect DEF Typed
<1>4. CallerWorks(r)' /\ Steady(r)
  BY <1>2, <1>3 DEF CallerWorks, Steady
<1> QED
  BY <1>1, <1>2, <1>3, <1>4, FreeStep DEF Typed

LEMMA LoopEndsWorks ==
  ASSUME Work, LoopEnds
  PROVE  Work'
<1>1. Typed /\ Loop \in Callers /\ Loop \notin Readers
  BY Names DEF Work
<1>2. /\ go[Loop].pc = "ending" /\ go' = [go EXCEPT ![Loop] = Idle]
      /\ UNCHANGED <<sockets, registered, connecting, flight, made, played, cleared, events>>
  BY DEF LoopEnds, staying, At
<1>3. /\ go' \in [Callers -> Caller] /\ CallersKeep({Loop}) /\ go'[Loop].pc = "idle"
  BY <1>1, <1>2, IdleEffect DEF Typed
<1>4. CallerWorks(Loop)' /\ Steady(Loop)
  BY <1>1, <1>2, <1>3 DEF CallerWorks, Steady
<1> QED
  BY <1>1, <1>2, <1>3, <1>4, FreeStep DEF Typed

LEMMA LookEffect ==
  ASSUME Typed, Look
  PROVE  /\ go[Viewer].pc = "idle" /\ events' = events + 1 /\ events' \in Nat
         /\ go' \in [Callers -> Caller] /\ CallersKeep({Viewer})
         /\ go'[Viewer].pc = "ensure" /\ go'[Viewer].id = events'
         /\ go'[Viewer].since = cleared /\ go'[Viewer].ok = FALSE
         /\ UNCHANGED <<sockets, registered, connecting, flight, made, played, cleared,
                        known, fresh>>
<1>1. /\ go[Viewer].pc = "idle" /\ events' = events + 1
      /\ UNCHANGED <<sockets, registered, connecting, flight, made, played, cleared, known, fresh>>
      /\ go' = [go EXCEPT ![Viewer] =
           [Idle EXCEPT !.pc = "ensure", !.id = events', !.since = cleared]]
  BY DEF Look, staying, At
<1>2. events' \in Nat /\ cleared \in Nat /\ Viewer \in Callers /\ go \in [Callers -> Caller]
      /\ 0 \in 0..MaxSockets
  BY <1>1, Names, Bounds DEF Typed
<1> DEFINE c == [Idle EXCEPT !.pc = "ensure", !.id = events', !.since = cleared]
<1>3. /\ c \in Caller /\ c.pc = "ensure" /\ c.id = events' /\ c.since = cleared
      /\ c.ok = FALSE
  BY <1>2 DEF Idle, Caller, PC
<1>4. go' = [go EXCEPT ![Viewer] = c]
  BY <1>1
<1> HIDE DEF c
<1>5. go' \in [Callers -> Caller] /\ CallersKeep({Viewer}) /\ go'[Viewer] = c
  BY <1>2, <1>3, <1>4, OneChanges
<1> QED
  BY <1>1, <1>2, <1>3, <1>5

LEMMA LookWorks ==
  ASSUME Work, Look
  PROVE  Work'
<1>1. Typed /\ Viewer \in Callers /\ Viewer \notin Readers
  BY Names DEF Work
<1>2. /\ go[Viewer].pc = "idle" /\ events' \in Nat
      /\ go' \in [Callers -> Caller] /\ CallersKeep({Viewer})
      /\ go'[Viewer].pc = "ensure"
      /\ UNCHANGED <<sockets, registered, connecting, flight, made, played, cleared>>
  BY <1>1, LookEffect
<1>3. CallerWorks(Viewer)' /\ Steady(Viewer)
  BY <1>1, <1>2 DEF CallerWorks, Steady
<1> QED
  BY <1>1, <1>2, <1>3, FreeStep

LEMMA PlaceBetEffect ==
  ASSUME Typed, PlaceBet
  PROVE  /\ go[Bettor].pc = "idle" /\ events' = events + 1 /\ events' \in Nat
         /\ go' \in [Callers -> Caller] /\ CallersKeep({Bettor})
         /\ go'[Bettor].pc = "ensure" /\ go'[Bettor].id = events'
         /\ go'[Bettor].since = 0 /\ go'[Bettor].ok = FALSE /\ go'[Bettor].got = 0
         /\ UNCHANGED <<sockets, registered, connecting, flight, made, played, cleared,
                        known, fresh>>
<1>1. /\ go[Bettor].pc = "idle" /\ events' = events + 1
      /\ UNCHANGED <<sockets, registered, connecting, flight, made, played, cleared, known, fresh>>
      /\ go' = [go EXCEPT ![Bettor] = [Idle EXCEPT !.pc = "ensure", !.id = events']]
  BY DEF PlaceBet, At
<1>2. events' \in Nat /\ Bettor \in Callers /\ go \in [Callers -> Caller]
      /\ 0 \in 0..MaxSockets
  BY <1>1, Names, Bounds DEF Typed
<1> DEFINE c == [Idle EXCEPT !.pc = "ensure", !.id = events']
<1>3. /\ c \in Caller /\ c.pc = "ensure" /\ c.id = events' /\ c.since = 0
      /\ c.ok = FALSE /\ c.got = 0
  BY <1>2 DEF Idle, Caller, PC
<1>4. go' = [go EXCEPT ![Bettor] = c]
  BY <1>1
<1> HIDE DEF c
<1>5. go' \in [Callers -> Caller] /\ CallersKeep({Bettor}) /\ go'[Bettor] = c
  BY <1>2, <1>3, <1>4, OneChanges
<1> QED
  BY <1>1, <1>2, <1>3, <1>5

LEMMA PlaceBetWorks ==
  ASSUME Work, PlaceBet
  PROVE  Work'
<1>1. Typed /\ Bettor \in Callers /\ Bettor \notin Readers /\ Bettor # Viewer
  BY Names DEF Work
<1>2. /\ go[Bettor].pc = "idle" /\ events' \in Nat
      /\ go' \in [Callers -> Caller] /\ CallersKeep({Bettor})
      /\ go'[Bettor].pc = "ensure"
      /\ UNCHANGED <<sockets, registered, connecting, flight, made, played, cleared>>
  BY <1>1, PlaceBetEffect
<1>3. CallerWorks(Bettor)' /\ Steady(Bettor)
  BY <1>1, <1>2 DEF CallerWorks, Steady
<1> QED
  BY <1>1, <1>2, <1>3, FreeStep

\* The login takes the user's socket to drop it, if there is one.
LEMMA DropUserSocketEffect ==
  ASSUME Typed, DropUserSocket
  PROVE  /\ go[Login].pc = "idle" /\ events' = events + 1 /\ events' \in Nat
         /\ go' \in [Callers -> Caller] /\ CallersKeep({Login})
         /\ \/ go' = go
            \/ /\ registered \in Sockets
               /\ go'[Login].pc = "drop" /\ go'[Login].socket = registered
               /\ go'[Login].id = 0 /\ go'[Login].since = 0 /\ go'[Login].ok = FALSE
         /\ UNCHANGED <<sockets, registered, connecting, flight, made, played, cleared>>
         /\ known' = Nothing
<1>1. /\ go[Login].pc = "idle" /\ events' = events + 1 /\ known' = Nothing
      /\ UNCHANGED <<sockets, registered, connecting, flight, made, played, cleared>>
      /\ go' = IF registered = 0 THEN go
           ELSE [go EXCEPT ![Login] = [Idle EXCEPT !.pc = "drop", !.socket = registered]]
  BY DEF DropUserSocket, At
<1>2. events' \in Nat /\ Login \in Callers /\ go \in [Callers -> Caller]
      /\ registered \in 0..MaxSockets
  BY <1>1, Names DEF Typed
<1>3. CASE registered = 0
  BY <1>1, <1>2, <1>3, NoneChanges DEF CallersKeep
<1>4. CASE registered # 0
  <2> DEFINE c == [Idle EXCEPT !.pc = "drop", !.socket = registered]
  <2>1. /\ c \in Caller /\ c.pc = "drop" /\ c.id = 0 /\ c.since = 0
        /\ c.ok = FALSE /\ c.socket = registered
    BY <1>2 DEF Idle, Caller, PC
  <2>2. go' = [go EXCEPT ![Login] = c]
    BY <1>1, <1>4
  <2>3. registered \in Sockets
    BY <1>2, <1>4, Bounds DEF Sockets
  <2> HIDE DEF c
  <2>4. go' \in [Callers -> Caller] /\ CallersKeep({Login}) /\ go'[Login] = c
    BY <1>2, <2>1, <2>2, OneChanges
  <2> QED
    BY <1>1, <1>2, <2>1, <2>3, <2>4
<1> QED
  BY <1>3, <1>4

LEMMA DropUserSocketWorks ==
  ASSUME Work, DropUserSocket
  PROVE  Work'
<1>1. Typed /\ Login \in Callers /\ Login \notin Readers /\ Login # Viewer /\ CallerWorks(Login)
  BY Names DEF Work
<1>2. /\ go[Login].pc = "idle" /\ events' \in Nat
      /\ go' \in [Callers -> Caller] /\ CallersKeep({Login})
      /\ UNCHANGED <<sockets, registered, connecting, flight, made, played, cleared>>
      /\ go' = go \/ (go'[Login].pc = "drop" /\ go'[Login].socket \in Sockets)
  BY <1>1, DropUserSocketEffect
<1>3. CallerWorks(Login)' /\ Steady(Login)
  BY <1>1, <1>2 DEF CallerWorks, Steady
<1> QED
  BY <1>1, <1>2, <1>3, FreeStep

LEMMA ExpireWorks ==
  ASSUME Work, Expire
  PROVE  Work'
<1>1. /\ UNCHANGED <<sockets, registered, connecting, flight, made, played, cleared, events, go>>
  BY DEF Expire, staying
<1> QED
  BY <1>1 DEF Work, Typed, SocketOK, CallsWork, CallerWorks, SocketWorks, Held, Closing, Holding

LEMMA AskEffect ==
  ASSUME Typed, NEW r \in Readers, Ask(r)
  PROVE  /\ go[r].pc = "idle" /\ events' = events + 1 /\ events' \in Nat
         /\ go' \in [Callers -> Caller] /\ CallersKeep({r})
         /\ \/ go' = go /\ flight' = flight
            \/ /\ flight = Nobody /\ flight' = r /\ go'[r].pc = "ensure"
               /\ go'[r].id = events' /\ go'[r].since = cleared /\ go'[r].ok = FALSE
            \/ /\ flight # Nobody /\ flight' = flight /\ go'[r].pc = "follow"
               /\ go'[r].id = events' /\ go'[r].since = cleared /\ go'[r].ok = FALSE
         /\ UNCHANGED <<sockets, registered, connecting, made, played, cleared, known, fresh>>
<1> DEFINE pc == IF flight = Nobody THEN "ensure" ELSE "follow"
<1>1. /\ go[r].pc = "idle" /\ events' = events + 1
      /\ UNCHANGED <<sockets, registered, connecting, made, played, cleared, known, fresh>>
      /\ \/ UNCHANGED <<go, flight>>
         \/ /\ go' = [go EXCEPT ![r] =
                 [Idle EXCEPT !.pc = pc, !.id = events', !.since = cleared]]
            /\ flight' = IF flight = Nobody THEN r ELSE flight
  BY DEF Ask, staying, At
<1>2. events' \in Nat /\ cleared \in Nat /\ r \in Callers /\ go \in [Callers -> Caller]
      /\ 0 \in 0..MaxSockets
  BY <1>1, Names, Bounds DEF Typed
<1>3. CASE UNCHANGED <<go, flight>>
  BY <1>1, <1>2, <1>3 DEF CallersKeep
<1>4. CASE /\ go' = [go EXCEPT ![r] =
                [Idle EXCEPT !.pc = pc, !.id = events', !.since = cleared]]
           /\ flight' = IF flight = Nobody THEN r ELSE flight
  <2> DEFINE c == [Idle EXCEPT !.pc = pc, !.id = events', !.since = cleared]
  <2>1. /\ c \in Caller /\ c.pc = pc /\ c.id = events' /\ c.since = cleared
        /\ c.ok = FALSE
    BY <1>2 DEF Idle, Caller, PC
  <2>2. go' = [go EXCEPT ![r] = c]
    BY <1>4
  <2> HIDE DEF c
  <2>3. go' \in [Callers -> Caller] /\ CallersKeep({r}) /\ go'[r] = c
    BY <1>2, <2>1, <2>2, OneChanges
  <2> QED
    BY <1>1, <1>2, <1>4, <2>1, <2>3
<1> QED
  BY <1>1, <1>3, <1>4

LEMMA AskWorks ==
  ASSUME Work, NEW r \in Readers, Ask(r)
  PROVE  Work'
<1>1. Typed /\ r \in Callers /\ r # Viewer /\ r # Nobody /\ CallsWork /\ CallerWorks(r)
  BY Names DEF Work
<1>2. /\ go[r].pc = "idle" /\ events' \in Nat
      /\ go' \in [Callers -> Caller] /\ CallersKeep({r})
      /\ UNCHANGED <<sockets, registered, connecting, made, played, cleared>>
      /\ \/ go' = go /\ flight' = flight
         \/ flight = Nobody /\ flight' = r /\ go'[r].pc = "ensure"
         \/ flight # Nobody /\ flight' = flight /\ go'[r].pc = "follow"
  BY <1>1, AskEffect
<1>3. Typed'
  BY <1>1, <1>2, TypedNext DEF Typed
<1>4. \A h \in Callers : CallerWorks(h)'
  <2>1. CallerWorks(r)'
    BY <1>1, <1>2 DEF CallerWorks
  <2> QED
    BY <1>1, <1>2, <2>1, CallerRests
<1>5. \A s \in Sockets : SocketWorks(s)'
  BY <1>1, <1>2, SocketsRest
<1>6. CallsWork'
  <2>1. \A h \in Callers \ {r} : Steady(h)
    BY <1>2, OthersSteady
  <2>2. connecting \in Callers \cup {Nobody} /\ flight \in Readers \cup {Nobody}
    BY <1>1 DEF Typed
  <2>3. connecting # Nobody => go'[connecting].pc = "dial"
    BY <1>1, <1>2, <2>1, <2>2 DEF CallsWork, Steady
  <2>4. ASSUME NEW f \in Readers, go'[f].pc = "follow"
        PROVE  flight' # Nobody
    BY <1>1, <1>2, <2>1, <2>4, Names DEF CallsWork, Steady
  <2>5. ASSUME flight' # Nobody
        PROVE  go'[flight'].pc \notin {"idle", "follow"}
    BY <1>1, <1>2, <2>1, <2>2, <2>5, Names DEF CallsWork, Steady
  <2> QED
    BY <1>1, <1>2, <2>3, <2>4, <2>5 DEF CallsWork
<1> QED
  BY <1>3, <1>4, <1>5, <1>6 DEF Work

\* A read ends: whoever shares it is answered.
LEMMA StoreEffect ==
  ASSUME Typed, NEW r \in Readers, Store(r)
  PROVE  LET G == Followers(r) \cup {r} IN
         /\ go[r].pc = "store" /\ flight' = Nobody
         /\ go' \in [Callers -> Caller] /\ G \subseteq Readers
         /\ \A h \in Callers \ G : go'[h] = go[h]
         /\ \A h \in G : go'[h] = Idle /\ go[h].pc \in {"follow", "store"}
         /\ \A h \in Readers \ G : go[h].pc # "follow"
         /\ UNCHANGED <<sockets, registered, connecting, made, played, cleared, events>>
<1> DEFINE G == Followers(r) \cup {r}
<1>1. /\ go[r].pc = "store" /\ flight' = Nobody
      /\ go' = [g \in Callers |-> IF g \in G THEN Idle ELSE go[g]]
      /\ UNCHANGED <<sockets, registered, connecting, made, played, cleared, events>>
  BY DEF Store, staying, At
<1>2. G \subseteq Readers /\ (\A h \in Readers \ G : go[h].pc # "follow")
      /\ (\A h \in G : go[h].pc \in {"follow", "store"})
  BY <1>1 DEF Followers, At
<1>3. Idle \in Caller /\ go \in [Callers -> Caller]
  BY IdleTyped DEF Typed
<1> HIDE DEF G
<1>4. go' \in [Callers -> Caller]
  BY <1>1, <1>3
<1>5. \A h \in Callers \ G : go'[h] = go[h]
  BY <1>1
<1>6. \A h \in G : go'[h] = Idle
  BY <1>1, <1>2, Names
<1>7. /\ go[r].pc = "store" /\ flight' = Nobody
      /\ go' \in [Callers -> Caller] /\ G \subseteq Readers
      /\ \A h \in Callers \ G : go'[h] = go[h]
      /\ \A h \in G : go'[h] = Idle /\ go[h].pc \in {"follow", "store"}
      /\ \A h \in Readers \ G : go[h].pc # "follow"
      /\ UNCHANGED <<sockets, registered, connecting, made, played, cleared, events>>
  BY <1>1, <1>2, <1>4, <1>5, <1>6
<1> QED
  BY <1>7 DEF G

LEMMA StoreWorks ==
  ASSUME Work, NEW r \in Readers, Store(r)
  PROVE  Work'
<1> DEFINE G == Followers(r) \cup {r}
<1>1. Typed /\ CallsWork
  BY DEF Work
<1>2. /\ go[r].pc = "store" /\ flight' = Nobody
      /\ go' \in [Callers -> Caller] /\ G \subseteq Readers
      /\ \A h \in Callers \ G : go'[h] = go[h]
      /\ \A h \in G : go'[h] = Idle /\ go[h].pc \in {"follow", "store"}
      /\ \A h \in Readers \ G : go[h].pc # "follow"
      /\ UNCHANGED <<sockets, registered, connecting, made, played, cleared, events>>
  BY <1>1, StoreEffect
<1> HIDE DEF G
<1>3. CallersKeep(G)
  BY <1>2 DEF CallersKeep
<1>4. Typed'
  BY <1>1, <1>2, TypedNext DEF Typed
<1>5. \A h \in Callers : CallerWorks(h)'
  <2>1. \A h \in Callers \ G : CallerWorks(h)'
    BY <1>2, <1>3, CallersRest
  <2>2. ASSUME NEW h \in G
        PROVE  CallerWorks(h)'
    BY <1>2, IdleTyped DEF CallerWorks
  <2> QED
    BY <2>1, <2>2
<1>6. CallsWork'
  <2>1. connecting \in Callers \cup {Nobody}
    BY <1>1 DEF Typed
  <2>2. connecting # Nobody => go'[connecting].pc = "dial"
    BY <1>1, <1>2, <2>1 DEF CallsWork
  <2>3. \A f \in Readers : go'[f].pc # "follow"
    BY <1>2, IdleTyped, Names
  <2> QED
    BY <1>1, <1>2, <2>2, <2>3 DEF CallsWork
<1>7. \A s \in Sockets : SocketWorks(s)'
  <2>1. \A h \in Callers \cap G : go[h].pc \notin {"wait", "drop", "close"}
          /\ ~(h = Viewer /\ go[h].pc = "store")
    BY <1>2, Names
  <2> QED
    BY <1>2, <1>3, <2>1, SocketsRest
<1> QED
  BY <1>4, <1>5, <1>6, <1>7 DEF Work

LEMMA StoreSeenWorks ==
  ASSUME Work, StoreSeen
  PROVE  Work'
<1>1. Typed /\ CallerWorks(Viewer) /\ Viewer \in Callers /\ Viewer \notin Readers
  BY Names DEF Work
<1> DEFINE s == go[Viewer].socket
<1>2. /\ go[Viewer].pc = "store" /\ sockets' = Unlocked(sockets, Viewer, s)
      /\ go' = [go EXCEPT ![Viewer] = Idle]
      /\ UNCHANGED <<registered, connecting, flight, cleared, played, made, events>>
  BY DEF StoreSeen, bounds, At, Own
<1>3. s \in Sockets
  BY <1>1, <1>2 DEF CallerWorks
<1> HIDE DEF s
<1>5. /\ go' \in [Callers -> Caller] /\ CallersKeep({Viewer}) /\ go'[Viewer].pc = "idle"
  BY <1>1, <1>2, IdleEffect DEF Typed
<1>6. Socket1(s, Back(Viewer, s), sockets[s].open, sockets[s].reader)
  BY <1>1, <1>2, <1>3, UnlockedSocket
<1>7. Typed'
  BY <1>1, <1>2, <1>3, <1>5, <1>6, TypedNext, TouchedTyped DEF Typed, Socket1
<1>8. CallerWorks(Viewer)' /\ Steady(Viewer)
  BY <1>1, <1>2, <1>5 DEF CallerWorks, Steady
<1>9. CallsWork'
  BY <1>1, <1>2, <1>5, <1>8, CallsRest
<1>10. \A h \in Callers : CallerWorks(h)'
  BY <1>1, <1>2, <1>5, <1>8, CallerRests
<1>11. \A t \in Sockets : SocketWorks(t)'
  <2>1. go[Viewer].socket = s
    BY DEF s
  <2> QED
    BY <1>1, <1>2, <1>3, <1>5, <1>6, <2>1, GivesBack DEF Socket1
<1> QED
  BY <1>7, <1>9, <1>10, <1>11 DEF Work

\* What the callers are after the next message has been read.
ReceiveDoes(g, s, m) ==
  /\ go[g].pc = "wait" /\ sockets[s].incoming # <<>>
  /\ UNCHANGED <<registered, connecting, flight, played, made, events>>
  /\ \/ /\ sockets' = [sockets EXCEPT ![s].incoming = Tail(@)]
        /\ UNCHANGED <<go, known, fresh, cleared>>
     \/ /\ g = Bettor /\ m.kind = Kind(g)
        /\ sockets' = Unlocked([sockets EXCEPT ![s].incoming = Tail(@)], g, s)
        /\ go' = [go EXCEPT ![g] = [Idle EXCEPT !.id = go[g].id, !.got = m.id]]
        /\ known' = Nothing /\ cleared' = m.value
     \/ /\ g # Bettor /\ m.kind = Kind(g)
        /\ \/ g # Viewer
              /\ sockets' = Unlocked([sockets EXCEPT ![s].incoming = Tail(@)], g, s)
           \/ g = Viewer /\ sockets' = [sockets EXCEPT ![s].incoming = Tail(@)]
        /\ go' = [go EXCEPT ![g].pc = "store", ![g].ok = TRUE, ![g].value = m.value,
                            ![g].mine = m.id = go[g].id]
        /\ UNCHANGED <<known, fresh, cleared>>

LEMMA ReceiveEffect ==
  ASSUME Typed, NEW g \in Callers, Receive(g), NEW s, s = go[g].socket,
         NEW m, m = Head(sockets[s].incoming)
  PROVE  ReceiveDoes(g, s, m)
<1>1. Viewer # Bettor
  BY Names
<1> QED
  BY <1>1 DEF Receive, At, Own, asking, bounds, ClearedKnown, ReceiveDoes

\* The message is one.
LEMMA HeadMessage ==
  ASSUME Typed, NEW s \in Sockets, sockets[s].incoming # <<>>
  PROVE  /\ Head(sockets[s].incoming) \in Message
         /\ Head(sockets[s].incoming).id \in Nat /\ Head(sockets[s].incoming).value \in Nat
         /\ 1 \in DOMAIN sockets[s].incoming
         /\ Head(sockets[s].incoming) = sockets[s].incoming[1]
<1> DEFINE a == sockets[s].incoming
<1>1. a \in Seq(Message) /\ a # <<>>
  BY DEF Typed, SocketOK
<1> HIDE DEF a
<1>2. Head(a) \in Message /\ 1 \in DOMAIN a /\ Head(a) = a[1]
  BY <1>1
<1>3. Head(a).id \in Nat /\ Head(a).value \in Nat
  BY <1>2 DEF Message
<1> QED
  BY <1>2, <1>3 DEF a

\* A bet is answered, and the call ends.
BetDone(g, i) == [go EXCEPT ![g] = [Idle EXCEPT !.id = go[g].id, !.got = i]]

LEMMA BetAnswered ==
  ASSUME go \in [Callers -> Caller], NEW g \in Callers, NEW i \in Nat,
         go' = BetDone(g, i)
  PROVE  /\ go' \in [Callers -> Caller] /\ CallersKeep({g})
         /\ go'[g].pc = "idle" /\ go'[g].id = go[g].id /\ go'[g].got = i
         /\ go'[g].since = 0 /\ go'[g].ok = FALSE
<1>1. go[g].id \in Nat /\ 0 \in 0..MaxSockets
  BY Bounds DEF Caller
<1> DEFINE c == [Idle EXCEPT !.id = go[g].id, !.got = i]
<1>2. /\ c \in Caller /\ c.pc = "idle" /\ c.id = go[g].id /\ c.got = i /\ c.since = 0
      /\ c.ok = FALSE
  BY <1>1 DEF Idle, Caller, PC
<1>3. go' = [go EXCEPT ![g] = c]
  BY DEF BetDone
<1> HIDE DEF c
<1> QED
  BY <1>2, <1>3, OneChanges

\* A balance is read.
Answered(g, v, b) ==
  [go EXCEPT ![g].pc = "store", ![g].ok = TRUE, ![g].value = v, ![g].mine = b]

LEMMA BalanceAnswered ==
  ASSUME go \in [Callers -> Caller], NEW g \in Callers, NEW v \in Nat, NEW b \in BOOLEAN,
         go' = Answered(g, v, b)
  PROVE  /\ go' \in [Callers -> Caller] /\ CallersKeep({g})
         /\ go'[g].pc = "store" /\ go'[g].socket = go[g].socket /\ go'[g].id = go[g].id
         /\ go'[g].since = go[g].since /\ go'[g].ok = TRUE /\ go'[g].value = v
         /\ go'[g].mine = b /\ go'[g].got = go[g].got
<1> DEFINE x == go[g]
           c == [x EXCEPT !.pc = "store", !.ok = TRUE, !.value = v, !.mine = b]
<1>1. x \in Caller
  OBVIOUS
<1>2. go' = [go EXCEPT ![g] = c]
  BY DEF Answered
<1> HIDE DEF x
<1>3. /\ c \in Caller /\ c.pc = "store" /\ c.socket = x.socket /\ c.id = x.id
      /\ c.since = x.since /\ c.ok = TRUE /\ c.value = v /\ c.mine = b /\ c.got = x.got
  BY <1>1 DEF Caller, PC
<1> HIDE DEF c
<1> QED
  BY <1>2, <1>3, OneChanges DEF x

LEMMA ReceiveWorks ==
  ASSUME Work, NEW g \in Callers, Receive(g)
  PROVE  Work'
<1>1. Typed /\ CallerWorks(g)
  BY DEF Work
<1>2. PICK s : s = go[g].socket
  OBVIOUS
<1>3. PICK m : m = Head(sockets[s].incoming)
  OBVIOUS
<1>4. /\ go[g].pc = "wait" /\ sockets[s].incoming # <<>>
      /\ UNCHANGED <<registered, connecting, flight, played, made, events>>
      /\ \/ /\ sockets' = [sockets EXCEPT ![s].incoming = Tail(@)]
            /\ UNCHANGED <<go, known, fresh, cleared>>
         \/ /\ g = Bettor /\ m.kind = Kind(g)
            /\ sockets' = Unlocked([sockets EXCEPT ![s].incoming = Tail(@)], g, s)
            /\ go' = [go EXCEPT ![g] = [Idle EXCEPT !.id = go[g].id, !.got = m.id]]
            /\ known' = Nothing /\ cleared' = m.value
         \/ /\ g # Bettor /\ m.kind = Kind(g)
            /\ \/ g # Viewer
                  /\ sockets' = Unlocked([sockets EXCEPT ![s].incoming = Tail(@)], g, s)
               \/ g = Viewer /\ sockets' = [sockets EXCEPT ![s].incoming = Tail(@)]
            /\ go' = [go EXCEPT ![g].pc = "store", ![g].ok = TRUE, ![g].value = m.value,
                                ![g].mine = m.id = go[g].id]
            /\ UNCHANGED <<known, fresh, cleared>>
  <2>1. ReceiveDoes(g, s, m)
    BY <1>1, <1>2, <1>3, ReceiveEffect
  <2> QED
    BY <2>1 DEF ReceiveDoes
<1>5. s \in Sockets
  BY <1>1, <1>2, <1>4 DEF CallerWorks
<1>6. m.id \in Nat /\ m.value \in Nat
  BY <1>1, <1>3, <1>4, <1>5, HeadMessage
<1>7. CASE UNCHANGED go /\ UNCHANGED cleared
            /\ sockets' = [sockets EXCEPT ![s].incoming = Tail(@)]
  <2>1. Socket1(s, sockets[s].mu, sockets[s].open, sockets[s].reader)
    BY <1>1, <1>4, <1>5, <1>7, TakenSocket
  <2>2. go' \in [Callers -> Caller] /\ CallersKeep({}) /\ events' \in Nat /\ played' \in Nat
        /\ registered' \in 0..MaxSockets
    BY <1>1, <1>4, <1>7, NoneChanges DEF Typed
  <2> QED
    BY <1>4, <1>5, <1>7, <2>1, <2>2, SocketStep DEF Socket1
<1>8. ASSUME go' \in [Callers -> Caller], CallersKeep({g}), cleared' \in Nat,
             CallerWorks(g)', Steady(g), Touched(s), SocketOK(sockets'[s]),
             \A t \in Sockets : SocketWorks(t)'
      PROVE  Work'
  <2>1. Typed'
    BY <1>1, <1>4, <1>5, <1>8, TypedNext, TouchedTyped DEF Typed
  <2>2. CallsWork'
    BY <1>4, <1>8, CallsRest
  <2>3. \A h \in Callers : CallerWorks(h)'
    BY <1>4, <1>8, CallerRests
  <2> QED
    BY <1>8, <2>1, <2>2, <2>3 DEF Work
<1>9. CASE /\ g = Bettor
           /\ sockets' = Unlocked([sockets EXCEPT ![s].incoming = Tail(@)], g, s)
           /\ go' = [go EXCEPT ![g] = [Idle EXCEPT !.id = go[g].id, !.got = m.id]]
           /\ cleared' = m.value
  <2>1. /\ go' \in [Callers -> Caller] /\ CallersKeep({g}) /\ go'[g].pc = "idle"
    <3>1. go' = BetDone(g, m.id)
      BY <1>9 DEF BetDone
    <3> QED
      BY <1>1, <1>6, <3>1, BetAnswered DEF Typed
  <2>2. Socket1(s, Back(g, s), sockets[s].open, sockets[s].reader)
    BY <1>1, <1>4, <1>5, <1>9, ReceivedSocket
  <2>3. \A t \in Sockets : SocketWorks(t)'
    <3>1. /\ Touched(s) /\ sockets'[s].mu = Back(g, s)
          /\ sockets'[s].reader = sockets[s].reader
          /\ sockets'[s].open => sockets[s].open /\ go[g].pc # "close"
          /\ UNCHANGED registered
      BY <1>4, <2>2 DEF Socket1
    <3> QED
      BY <1>2, <1>5, <2>1, <3>1, GivesBack
  <2>4. CallerWorks(g)' /\ Steady(g)
    BY <1>4, <1>9, <2>1, Names DEF CallerWorks, Steady
  <2> QED
    BY <1>6, <1>8, <1>9, <2>1, <2>2, <2>3, <2>4 DEF Socket1
<1>10. ASSUME go' = [go EXCEPT ![g].pc = "store", ![g].ok = TRUE, ![g].value = m.value,
                              ![g].mine = m.id = go[g].id]
       PROVE  /\ go' \in [Callers -> Caller] /\ CallersKeep({g})
              /\ go'[g].pc = "store" /\ go'[g].socket = s /\ Steady(g)
  <2> DEFINE b == m.id = go[g].id
  <2>1. b \in BOOLEAN
    OBVIOUS
  <2>2. go' = Answered(g, m.value, b)
    BY <1>10 DEF Answered
  <2> HIDE DEF b
  <2>3. /\ go' \in [Callers -> Caller] /\ CallersKeep({g})
        /\ go'[g].pc = "store" /\ go'[g].socket = go[g].socket
    BY <1>1, <1>6, <2>1, <2>2, BalanceAnswered DEF Typed
  <2> QED
    BY <1>2, <1>4, <2>3 DEF Steady
<1>11. CASE /\ g # Bettor /\ g # Viewer
            /\ sockets' = Unlocked([sockets EXCEPT ![s].incoming = Tail(@)], g, s)
            /\ go' = [go EXCEPT ![g].pc = "store", ![g].ok = TRUE, ![g].value = m.value,
                                ![g].mine = m.id = go[g].id]
            /\ UNCHANGED cleared
  <2>1. /\ go' \in [Callers -> Caller] /\ CallersKeep({g}) /\ go'[g].pc = "store"
        /\ Steady(g)
    BY <1>10, <1>11
  <2>2. Socket1(s, Back(g, s), sockets[s].open, sockets[s].reader)
    BY <1>1, <1>4, <1>5, <1>11, ReceivedSocket
  <2>3. \A t \in Sockets : SocketWorks(t)'
    <3>1. /\ Touched(s) /\ sockets'[s].mu = Back(g, s)
          /\ sockets'[s].reader = sockets[s].reader
          /\ sockets'[s].open => sockets[s].open /\ go[g].pc # "close"
          /\ UNCHANGED registered
      BY <1>4, <2>2 DEF Socket1
    <3> QED
      BY <1>2, <1>5, <2>1, <3>1, GivesBack
  <2>4. CallerWorks(g)'
    BY <1>4, <1>11, <2>1 DEF CallerWorks
  <2> QED
    BY <1>1, <1>8, <1>11, <2>1, <2>2, <2>3, <2>4 DEF Socket1, Typed
<1>12. CASE /\ g = Viewer
            /\ sockets' = [sockets EXCEPT ![s].incoming = Tail(@)]
            /\ go' = [go EXCEPT ![g].pc = "store", ![g].ok = TRUE, ![g].value = m.value,
                                ![g].mine = m.id = go[g].id]
            /\ UNCHANGED cleared
  <2>1. /\ go' \in [Callers -> Caller] /\ CallersKeep({g}) /\ go'[g].pc = "store"
        /\ go'[g].socket = s /\ Steady(g)
    BY <1>10, <1>12
  <2>2. Socket1(s, sockets[s].mu, sockets[s].open, sockets[s].reader)
    BY <1>1, <1>4, <1>5, <1>12, TakenSocket
  <2>3. \A t \in Sockets \ {s} : SocketWorks(t)'
    <3>1. Touched(s) /\ \A t \in Sockets \ {s} : registered = t => registered' = t
      BY <1>4, <2>2 DEF Socket1
    <3>2. \A h \in Callers \cap {g} : go[h].socket = s
      BY <1>2
    <3> QED
      BY <2>1, <3>1, <3>2, OtherSocketsRest
  <2>4. Held(s)'
    <3>1. CASE sockets[s].mu = g
      BY <1>12, <2>1, <2>2, <3>1 DEF Held, Holding, Socket1
    <3>2. CASE sockets[s].mu # g
      BY <1>5, <2>1, <2>2, <3>2, HeldRests DEF Socket1
    <3> QED
      BY <3>1, <3>2
  <2>5. ASSUME sockets'[s].open
        PROVE  Closing(s)'
    <3>1. sockets[s].open /\ (sockets[s].reader = "close" => sockets'[s].reader = "close")
      BY <2>2, <2>5 DEF Socket1
    <3>2. go[g].pc # "close" /\ (registered = s => registered' = s)
      BY <1>4
    <3> QED
      BY <1>5, <2>1, <3>1, <3>2, ClosingRests
  <2>6. CallerWorks(g)'
    BY <1>5, <2>1 DEF CallerWorks
  <2> QED
    BY <1>1, <1>8, <1>12, <2>1, <2>2, <2>3, <2>4, <2>5, <2>6 DEF Socket1, SocketWorks, Typed
<1> QED
  BY <1>4, <1>7, <1>9, <1>11, <1>12

\* The requests on their way over s grow by that of g, or not.
Asked(g, s) ==
  \/ sockets'[s].open =>
       sockets'[s].requests = Append(sockets[s].requests,
                                     [kind |-> Kind(g), id |-> go[g].id])
  \/ sockets'[s].open => sockets'[s].requests = sockets[s].requests

\* A request is written, or cannot be.
WriteDoes(g, s) ==
  /\ s \in Sockets /\ go[g].pc = "lock" /\ sockets[s].mu = Nobody
  /\ UNCHANGED <<played, registered, connecting, flight, made, events, known, fresh,
                 cleared>>
  /\ go' \in [Callers -> Caller] /\ CallersKeep({g})
  /\ go'[g].pc \in {"wait", "drop"} /\ go'[g].socket = s /\ Keeps(g, go'[g])
  /\ Touched(s) /\ SocketOK(sockets'[s])
  /\ sockets'[s].mu = g /\ sockets'[s].open = sockets[s].open
  /\ sockets'[s].reader = sockets[s].reader
  /\ sockets'[s].incoming = sockets[s].incoming
  /\ Asked(g, s)

LEMMA WriteEffect ==
  ASSUME Work, NEW g \in Callers, Write(g), NEW s, s = go[g].socket
  PROVE  WriteDoes(g, s)
<1>1. Typed /\ CallerWorks(g) /\ go[g].id \in Nat
  BY DEF Work, Typed, Caller
<1> DEFINE r == [kind |-> Kind(g), id |-> go[g].id]
<1>2. /\ go[g].pc = "lock" /\ sockets[s].mu = Nobody
      /\ UNCHANGED <<played, registered, connecting, flight, made, events, known, fresh,
                     cleared>>
      /\ \/ /\ sockets[s].open
            /\ sockets' = [sockets EXCEPT ![s].mu = g, ![s].requests = Append(@, r)]
            /\ Goes(g, "wait")
         \/ /\ sockets' = [sockets EXCEPT ![s].mu = g]
            /\ Goes(g, "drop")
  BY DEF Write, At, Own, asking, bounds
<1>3. s \in Sockets
  BY <1>1, <1>2 DEF CallerWorks
<1>4. r \in Request
  BY <1>1 DEF Request, Kind
<1> HIDE DEF r
<1>5. /\ go' \in [Callers -> Caller] /\ CallersKeep({g})
      /\ go'[g].pc \in {"wait", "drop"} /\ go'[g].socket = s /\ Keeps(g, go'[g])
  <2>1. {"wait", "drop"} \subseteq PC /\ go \in [Callers -> Caller]
    BY <1>1 DEF PC, Typed
  <2>2. \E p \in {"wait", "drop"} : Goes(g, p)
    BY <1>2
  <2>3. PICK p \in {"wait", "drop"} : Goes(g, p)
    BY <2>2
  <2>4. /\ go' \in [Callers -> Caller] /\ CallersKeep({g})
        /\ go'[g].pc = p /\ go'[g].socket = go[g].socket /\ Keeps(g, go'[g])
    BY <2>1, <2>3, Goes1
  <2> QED
    BY <2>4
<1>6. CASE sockets[s].open /\ sockets' = [sockets EXCEPT ![s].mu = g, ![s].requests = Append(@, r)]
  <2>1. /\ Touched(s) /\ SocketOK(sockets'[s])
        /\ sockets'[s].mu = g /\ sockets'[s].open = TRUE
        /\ sockets'[s].reader = sockets[s].reader
        /\ sockets'[s].incoming = sockets[s].incoming
        /\ sockets'[s].requests = Append(sockets[s].requests, r)
    BY <1>1, <1>3, <1>4, <1>6, WrittenSocket
  <2>2. sockets[s].open = TRUE
    BY <1>1, <1>3, <1>6 DEF Typed, SocketOK
  <2> QED
    BY <1>2, <1>3, <1>5, <2>1, <2>2 DEF r, Asked, WriteDoes
<1>7. CASE sockets' = [sockets EXCEPT ![s].mu = g]
  <2>1. Socket1(s, g, sockets[s].open, sockets[s].reader)
    BY <1>1, <1>3, <1>7, LockedSocket
  <2>2. sockets'[s].incoming = sockets[s].incoming
    BY <1>1, <1>3, <1>7 DEF Typed, SocketOK, SocketFields
  <2> QED
    BY <1>2, <1>3, <1>5, <2>1, <2>2 DEF Socket1, Quiet, Asked, WriteDoes
<1> QED
  BY <1>2, <1>6, <1>7

LEMMA WriteWorks ==
  ASSUME Work, NEW g \in Callers, Write(g)
  PROVE  Work'
<1>1. PICK s : s = go[g].socket
  OBVIOUS
<1>2. /\ s \in Sockets /\ go[g].pc = "lock" /\ sockets[s].mu = Nobody
      /\ UNCHANGED <<played, registered, connecting, flight, made, events, cleared>>
      /\ go' \in [Callers -> Caller] /\ CallersKeep({g})
      /\ go'[g].pc \in {"wait", "drop"} /\ go'[g].socket = s
      /\ Touched(s) /\ SocketOK(sockets'[s])
      /\ sockets'[s].mu = g /\ sockets'[s].open = sockets[s].open
      /\ sockets'[s].reader = sockets[s].reader
  <2>1. WriteDoes(g, s)
    BY <1>1, WriteEffect
  <2> QED
    BY <2>1 DEF WriteDoes
<1>3. Typed'
  BY <1>2, TypedNext, TouchedTyped DEF Work, Typed
<1>4. Steady(g) /\ CallerWorks(g)'
  BY <1>2 DEF Steady, CallerWorks
<1>5. CallsWork'
  BY <1>2, <1>4, CallsRest
<1>6. \A h \in Callers : CallerWorks(h)'
  BY <1>2, <1>4, CallerRests
<1>7. \A t \in Sockets \ {s} : SocketWorks(t)'
  BY <1>1, <1>2, OtherSocketsRest
<1>8. Held(s)'
  BY <1>2 DEF Held, Holding
<1>9. ASSUME sockets'[s].open
      PROVE  Closing(s)'
  <2>1. sockets[s].open /\ go[g].pc # "close" /\ (registered = s => registered' = s)
        /\ (sockets[s].reader = "close" => sockets'[s].reader = "close")
    BY <1>2, <1>9
  <2> QED
    BY <1>2, <2>1, ClosingRests
<1> QED
  BY <1>3, <1>5, <1>6, <1>7, <1>8, <1>9 DEF Work, SocketWorks

\* A call has a socket, or connects.
LEMMA EnsureEffect ==
  ASSUME Work, NEW g \in Callers, Ensure(g)
  PROVE  /\ go[g].pc = "ensure"
         /\ go' \in [Callers -> Caller] /\ CallersKeep({g}) /\ Keeps(g, go'[g])
         /\ UNCHANGED <<played, flight, known, fresh, cleared, events, tried, sockets, made>>
         /\ \/ /\ go'[g].pc = (IF g = Loop THEN "ending" ELSE "lock")
               /\ go'[g].socket \in Sockets
               /\ UNCHANGED <<registered, connecting>>
            \/ /\ ~Live /\ connecting = Nobody /\ connecting' = g /\ registered' = 0
               /\ go'[g].pc = "dial"
<1>1. Typed
  BY DEF Work
<1>2. /\ go[g].pc = "ensure"
      /\ UNCHANGED <<played, flight, known, fresh, cleared, events, tried, sockets, made>>
      /\ \/ Live /\ go' = Has(g, registered) /\ UNCHANGED <<registered, connecting>>
         \/ ~Live /\ connecting = Nobody /\ connecting' = g /\ registered' = 0 /\ Goes(g, "dial")
  BY DEF Ensure, reading, At
<1>3. CASE Live /\ go' = Has(g, registered) /\ UNCHANGED <<registered, connecting>>
  <2>1. registered \in Sockets /\ registered \in 0..MaxSockets
    BY <1>1, <1>3, Bounds DEF Live, Typed, Sockets
  <2>2. /\ go' \in [Callers -> Caller] /\ CallersKeep({g})
        /\ go'[g].pc = (IF g = Loop THEN "ending" ELSE "lock") /\ go'[g].socket = registered
        /\ Keeps(g, go'[g])
    BY <1>1, <1>3, <2>1, Has1 DEF Typed
  <2> QED
    BY <1>2, <1>3, <2>1, <2>2
<1>4. CASE ~Live /\ connecting = Nobody /\ connecting' = g /\ registered' = 0 /\ Goes(g, "dial")
  <2>1. "dial" \in PC
    BY DEF PC
  <2>2. /\ go' \in [Callers -> Caller] /\ CallersKeep({g})
        /\ go'[g].pc = "dial" /\ Keeps(g, go'[g])
    BY <1>1, <1>4, <2>1, Goes1 DEF Typed
  <2> QED
    BY <1>2, <1>4, <2>2
<1> QED
  BY <1>2, <1>3, <1>4

LEMMA EnsureWorks ==
  ASSUME Work, NEW g \in Callers, Ensure(g)
  PROVE  Work'
<1>1. /\ go[g].pc = "ensure"
      /\ go' \in [Callers -> Caller] /\ CallersKeep({g})
      /\ UNCHANGED <<played, flight, cleared, events, sockets, made>>
      /\ \/ /\ go'[g].pc = (IF g = Loop THEN "ending" ELSE "lock")
            /\ go'[g].socket \in Sockets
            /\ UNCHANGED <<registered, connecting>>
         \/ /\ ~Live /\ connecting = Nobody /\ connecting' = g /\ registered' = 0
            /\ go'[g].pc = "dial"
  BY EnsureEffect
<1>2. Typed /\ Loop \notin Readers /\ Loop # Viewer
  BY Names DEF Work
<1>3. CASE /\ go'[g].pc = (IF g = Loop THEN "ending" ELSE "lock")
           /\ go'[g].socket \in Sockets
           /\ UNCHANGED <<registered, connecting>>
  <2>1. CallerWorks(g)' /\ Steady(g)
    BY <1>1, <1>2, <1>3 DEF CallerWorks, Steady
  <2> QED
    BY <1>1, <1>2, <1>3, <2>1, FreeStep DEF Typed
<1>4. CASE /\ ~Live /\ connecting = Nobody /\ connecting' = g /\ registered' = 0
           /\ go'[g].pc = "dial"
  <2>1. Typed'
    BY <1>1, <1>2, <1>4, TypedNext, Bounds DEF Typed
  <2>2. \A h \in Callers : go[h].pc # "dial"
    BY <1>4, Names DEF Work, CallerWorks
  <2>3. CallerWorks(g)'
    BY <1>4 DEF CallerWorks
  <2>4. \A h \in Callers : CallerWorks(h)'
    BY <1>1, <2>2, <2>3, CallerRests
  <2>5. CallsWork'
    <3>1. \A h \in Callers \ {g} : Steady(h)
      BY <1>1, OthersSteady
    <3>2. flight \in Readers \cup {Nobody} /\ CallsWork
      BY DEF Work, Typed
    <3>3. \A r \in Readers : go'[r].pc = "follow" => flight' # Nobody
      BY <1>1, <1>4, <3>1, <3>2, Names DEF CallsWork, Steady
    <3>4. flight' # Nobody => go'[flight'].pc \notin {"idle", "follow"}
      BY <1>1, <1>4, <3>1, <3>2, Names DEF CallsWork, Steady
    <3> QED
      BY <1>4, <3>3, <3>4 DEF CallsWork
  <2>6. ASSUME NEW s \in Sockets
        PROVE  SocketWorks(s)'
    <3>1. Held(s)'
      <4>1. sockets[s].mu # g
        BY <1>1, Names DEF Work, SocketWorks, Held, Holding
      <4> QED
        BY <1>1, <4>1, HeldRests
    <3>2. ASSUME sockets'[s].open
          PROVE  Closing(s)'
      <4>1. registered # s
        <5>1. sockets[s].open /\ SocketOK(sockets[s])
          BY <1>1, <1>2, <3>2 DEF Typed
        <5>2. ~sockets[s].stopped
          BY <5>1 DEF SocketOK
        <5> QED
          BY <1>4, <5>2, Bounds DEF Live
      <4> QED
        BY <1>1, <3>2, <4>1, ClosingRests
    <3> QED
      BY <3>1, <3>2 DEF SocketWorks
  <2> QED
    BY <2>1, <2>4, <2>5, <2>6 DEF Work
<1> QED
  BY <1>1, <1>3, <1>4

\* A connection is made, or none.
LEMMA DialEffect ==
  ASSUME Typed, NEW g \in Callers, Dial(g)
  PROVE  /\ go[g].pc = "dial" /\ connecting' = Nobody
         /\ UNCHANGED <<played, flight, known, fresh, cleared, events>>
         /\ go' \in [Callers -> Caller] /\ CallersKeep({g})
         /\ \/ /\ made' \in Sockets
               /\ sockets' = [sockets EXCEPT ![made'] = NewSocket]
               /\ registered' = made' /\ Keeps(g, go'[g])
               /\ go'[g].pc = (IF g = Loop THEN "ending" ELSE "lock")
               /\ go'[g].socket = made'
            \/ UNCHANGED <<sockets, registered, made>> /\ Settles(g, go'[g])
<1>1. /\ go[g].pc = "dial" /\ connecting' = Nobody
      /\ UNCHANGED <<played, flight, known, fresh, cleared, events>>
      /\ \/ /\ made < MaxSockets
            /\ made' = made + 1
            /\ sockets' = [sockets EXCEPT ![made'] = NewSocket]
            /\ registered' = made'
            /\ go' = Has(g, made')
         \/ /\ UNCHANGED <<sockets, registered, made>>
            /\ go' = [go EXCEPT ![g] = Failed(g)] \/ go' = [go EXCEPT ![g] = Refused(g)]
  BY DEF Dial, At, reading
<1>2. CASE /\ made < MaxSockets
           /\ made' = made + 1
           /\ sockets' = [sockets EXCEPT ![made'] = NewSocket]
           /\ registered' = made'
           /\ go' = Has(g, made')
  <2>1. made' \in Sockets /\ made' \in 0..MaxSockets
    BY <1>2, Bounds DEF Typed, Sockets
  <2>2. /\ go' \in [Callers -> Caller] /\ CallersKeep({g})
        /\ go'[g].pc = (IF g = Loop THEN "ending" ELSE "lock") /\ go'[g].socket = made'
        /\ Keeps(g, go'[g])
    BY <1>2, <2>1, Has1 DEF Typed
  <2> QED
    BY <1>1, <1>2, <2>1, <2>2
<1>3. CASE /\ UNCHANGED <<sockets, registered, made>>
           /\ go' = [go EXCEPT ![g] = Failed(g)] \/ go' = [go EXCEPT ![g] = Refused(g)]
  <2>1. Settles(g, Failed(g)) /\ Settles(g, Refused(g))
    BY FailedSettles, RefusedSettles DEF Typed
  <2>2. PICK c : Settles(g, c) /\ go' = [go EXCEPT ![g] = c]
    BY <1>3, <2>1
  <2>3. go' \in [Callers -> Caller] /\ CallersKeep({g}) /\ go'[g] = c
    BY <2>2, OneChanges DEF Typed, Settles
  <2> QED
    BY <1>1, <1>3, <2>2, <2>3
<1> QED
  BY <1>1, <1>2, <1>3

LEMMA DialWorks ==
  ASSUME Work, NEW g \in Callers, Dial(g)
  PROVE  Work'
<1>1. Typed /\ CallsWork /\ CallerWorks(g) /\ Loop \notin Readers /\ Loop # Viewer /\ g # Nobody
  BY Names DEF Work
<1>2. /\ go[g].pc = "dial" /\ connecting' = Nobody
      /\ UNCHANGED <<played, flight, cleared, events>>
      /\ go' \in [Callers -> Caller] /\ CallersKeep({g})
      /\ \/ /\ made' \in Sockets
            /\ sockets' = [sockets EXCEPT ![made'] = NewSocket]
            /\ registered' = made'
            /\ go'[g].pc = (IF g = Loop THEN "ending" ELSE "lock")
            /\ go'[g].socket = made'
         \/ UNCHANGED <<sockets, registered, made>> /\ Settles(g, go'[g])
  BY <1>1, DialEffect
<1>3. connecting = g /\ registered = 0
  BY <1>1, <1>2 DEF CallerWorks, CallsWork
<1>4. \A h \in Callers \ {g} : go[h].pc # "dial"
  BY <1>3 DEF Work, CallerWorks
<1>5. CallerWorks(g)'
  <2>1. CASE Settles(g, go'[g])
    BY <2>1, SettledWorks
  <2>2. CASE /\ go'[g].pc = (IF g = Loop THEN "ending" ELSE "lock")
             /\ go'[g].socket \in Sockets
    BY <1>1, <2>2 DEF CallerWorks
  <2> QED
    BY <1>2, <2>1, <2>2
<1>6. \A h \in Callers : CallerWorks(h)'
  BY <1>2, <1>4, <1>5, CallerRests
<1>7. CallsWork'
  <2>1. \A h \in Callers \ {g} : Steady(h)
    BY <1>2, OthersSteady
  <2>2. g \in Readers => go'[g].pc \in {"lock", "ensure", "store"}
    BY <1>1, <1>2 DEF Settles
  <2>3. flight \in Readers \cup {Nobody}
    BY <1>1 DEF Typed
  <2>4. \A r \in Readers : go'[r].pc = "follow" => flight' # Nobody
    BY <1>1, <1>2, <2>1, <2>2, Names DEF CallsWork, Steady
  <2>5. flight' # Nobody => go'[flight'].pc \notin {"idle", "follow"}
    BY <1>1, <1>2, <2>1, <2>2, <2>3, Names DEF CallsWork, Steady
  <2> QED
    BY <1>2, <2>4, <2>5 DEF CallsWork
<1>8. CASE /\ made' \in Sockets
           /\ sockets' = [sockets EXCEPT ![made'] = NewSocket]
           /\ registered' = made'
  <2>1. PICK s \in Sockets : s = made'
    BY <1>8
  <2>2. /\ Touched(s) /\ SocketOK(sockets'[s])
        /\ sockets'[s].mu = Nobody /\ sockets'[s].open = TRUE
    BY <1>1, <1>8, <2>1, MadeSocket
  <2>3. Typed'
    <3>1. made' \in Nat /\ registered' \in 0..MaxSockets
      BY <1>8, Bounds
    <3> QED
      BY <1>1, <1>2, <2>2, <3>1, TypedNext, TouchedTyped DEF Typed
  <2>4. \A t \in Sockets \ {s} : SocketWorks(t)'
    <3>1. \A t \in Sockets \ {s} : registered = t => registered' = t
      BY <1>3, Bounds
    <3> QED
      BY <1>2, <2>2, <3>1, OtherSocketsRest
  <2>5. SocketWorks(s)'
    BY <1>8, <2>1, <2>2 DEF SocketWorks, Held, Closing
  <2> QED
    BY <1>6, <1>7, <2>3, <2>4, <2>5 DEF Work
<1>9. CASE UNCHANGED <<sockets, registered, made>>
  <2>1. Typed'
    BY <1>1, <1>2, <1>9, TypedNext DEF Typed
  <2>2. \A s \in Sockets : SocketWorks(s)'
    BY <1>2, <1>9, SocketsRest
  <2> QED
    BY <1>6, <1>7, <2>1, <2>2 DEF Work
<1> QED
  BY <1>2, <1>8, <1>9

-----------------------------------------------------------------------------
(* Work holds                                                              *)

LEMMA InitWorks ==
  ASSUME Init
  PROVE  Work
<1>1. /\ sockets = [s \in Sockets |-> NoSocket] /\ go = [g \in Callers |-> Idle]
      /\ played = 0 /\ cleared = 0 /\ events = 0 /\ made = 0 /\ registered = 0
      /\ connecting = Nobody /\ flight = Nobody
  BY DEF Init
<1>2. SocketOK(NoSocket) /\ NoSocket.mu = Nobody /\ NoSocket.open = FALSE
  <2>1. /\ DOMAIN NoSocket = SocketFields /\ NoSocket.reader = "none"
        /\ NoSocket.open = FALSE /\ NoSocket.stopped = FALSE /\ NoSocket.mu = Nobody
        /\ NoSocket.incoming = <<>>
    BY DEF NoSocket, SocketFields
  <2>2. NoSocket.incoming \in Seq(Message)
    BY <2>1
  <2> HIDE DEF NoSocket
  <2> QED
    BY <2>1, <2>2 DEF SocketOK
<1>3. Idle \in Caller /\ Idle.pc = "idle"
  BY IdleTyped
<1> HIDE DEF NoSocket, Idle
<1>4. Typed
  BY <1>1, <1>2, <1>3, Bounds DEF Typed
<1>5. \A g \in Callers : CallerWorks(g)
  BY <1>1, <1>3 DEF CallerWorks
<1>6. CallsWork
  BY <1>1, <1>3, Names DEF CallsWork
<1>7. \A s \in Sockets : SocketWorks(s)
  BY <1>1, <1>2 DEF SocketWorks, Held
<1> QED
  BY <1>4, <1>5, <1>6, <1>7 DEF Work

LEMMA StutterWorks ==
  ASSUME Work, UNCHANGED vars
  PROVE  Work'
<1>1. UNCHANGED <<sockets, registered, connecting, flight, made, played, cleared, events, go>>
  BY DEF vars
<1> QED
  BY <1>1 DEF Work, Typed, SocketOK, CallsWork, CallerWorks, SocketWorks, Held, Closing, Holding

\* The actions, one by one.
LEMMA NextCases ==
  ASSUME Next
  PROVE  \/ \E g \in Callers :
              \/ Ensure(g) \/ Dial(g) \/ Write(g) \/ Receive(g) \/ GivesUp(g)
              \/ Drop(g) \/ Close(g) \/ Cancel(g)
         \/ \E s \in Sockets : Serve(s) \/ Break(s) \/ ReaderDrops(s) \/ ReaderCloses(s)
         \/ \E r \in Readers : Ask(r) \/ LeavesFlight(r) \/ ReceiveBlank(r) \/ Store(r)
         \/ Look \/ StoreSeen \/ PlaceBet \/ DropUserSocket \/ LoopEnds \/ Expire
BY Names DEF Next, Step, ReaderStep

LEMMA NextWorks ==
  ASSUME Work, [Next]_vars
  PROVE  Work'
<1>1. ASSUME NEW g \in Callers,
             \/ Ensure(g) \/ Dial(g) \/ Write(g) \/ Receive(g) \/ GivesUp(g)
             \/ Drop(g) \/ Close(g) \/ Cancel(g)
      PROVE  Work'
  BY <1>1, EnsureWorks, DialWorks, WriteWorks, ReceiveWorks, GivesUpWorks, DropWorks,
     CloseWorks, CancelWorks
<1>2. ASSUME NEW s \in Sockets,
             Serve(s) \/ Break(s) \/ ReaderDrops(s) \/ ReaderCloses(s)
      PROVE  Work'
  BY <1>2, ServeWorks, BreakWorks, ReaderDropsWorks, ReaderClosesWorks
<1>3. ASSUME NEW r \in Readers, Ask(r) \/ LeavesFlight(r) \/ ReceiveBlank(r) \/ Store(r)
      PROVE  Work'
  BY <1>3, AskWorks, LeavesFlightWorks, BlankWorks, StoreWorks
<1>4. CASE Look \/ StoreSeen \/ PlaceBet \/ DropUserSocket \/ LoopEnds \/ Expire
  BY <1>4, LookWorks, StoreSeenWorks, PlaceBetWorks, DropUserSocketWorks, LoopEndsWorks,
     ExpireWorks
<1>5. CASE UNCHANGED vars
  BY <1>5, StutterWorks
<1> QED
  BY <1>1, <1>2, <1>3, <1>4, <1>5, NextCases

\* Whoever is waited for, and every connection, is somebody's work.
THEOREM WorkHolds == Spec => []Work
BY InitWorks, NextWorks, PTL DEF Spec

\* A shared read has a reader and a mutex a holder that will release it, however
\* calls fail (client.go Balance, dropSocket, ensureSocket).
THEOREM NobodyIsLeftWaitingHolds == Spec => []NobodyIsLeftWaiting
<1>1. Work => NobodyIsLeftWaiting
  <2> SUFFICES ASSUME Work
               PROVE  NobodyIsLeftWaiting
    OBVIOUS
  <2>1. CallsWork
    BY DEF Work
  <2>2. ASSUME NEW s \in Sockets, sockets[s].mu # Nobody
        PROVE  /\ Own(sockets[s].mu) = s
               /\ go[sockets[s].mu].pc \in
                    {"wait", "drop", "close"} \cup
                    IF sockets[s].mu = Viewer THEN {"store"} ELSE {}
    BY <2>2 DEF Work, SocketWorks, Held, Holding, Own
  <2> QED
    BY <2>1, <2>2 DEF NobodyIsLeftWaiting, CallsWork, At
<1> QED
  BY <1>1, WorkHolds, PTL

\* Every connection that is open is the user's socket, or somebody is about to close
\* it: none is left behind when sockets are dropped and made at once (client.go
\* ensureSocket, dropSocket).
THEOREM NoStraySocketHolds == Spec => []NoStraySocket
<1>1. Work => NoStraySocket
  BY DEF Work, SocketWorks, Closing, NoStraySocket, At, Own
<1> QED
  BY <1>1, WorkHolds, PTL

-----------------------------------------------------------------------------
(* Whose bet is on its way                                                 *)

IsBet(m) == m.kind = "bet"

\* A bet is on its way for who has the mutex, and no other one is.
ItsBet(s, m) == sockets[s].mu = Bettor /\ m.id = go[Bettor].id

OneBet(a) == \A i \in DOMAIN a, j \in DOMAIN a : IsBet(a[i]) /\ IsBet(a[j]) => i = j

BetsFine(s) ==
  LET q == sockets[s].requests
      a == sockets[s].incoming
  IN
  /\ \A i \in DOMAIN a : IsBet(a[i]) => ItsBet(s, a[i])
  /\ sockets[s].open =>
       /\ \A i \in DOMAIN q : IsBet(q[i]) => ItsBet(s, q[i])
       /\ OneBet(q) /\ OneBet(a)
       /\ \A i \in DOMAIN q, j \in DOMAIN a : ~(IsBet(q[i]) /\ IsBet(a[j]))

Bound ==
  /\ go[Bettor].got \in {0, go[Bettor].id}
  /\ \A s \in Sockets : BetsFine(s)

NoBets(s) ==
  /\ \A i \in DOMAIN sockets[s].incoming : ~IsBet(sockets[s].incoming[i])
  /\ sockets[s].open =>
       \A i \in DOMAIN sockets[s].requests : ~IsBet(sockets[s].requests[i])

LEMMA NoBetsFine ==
  ASSUME NEW s, NoBets(s)
  PROVE  BetsFine(s)
BY DEF NoBets, BetsFine, OneBet

LEMMA NoBetsFineNext ==
  ASSUME NEW s, NoBets(s)'
  PROVE  BetsFine(s)'
BY DEF NoBets, BetsFine, OneBet

LEMMA NotTheBettors ==
  ASSUME NEW s, BetsFine(s), sockets[s].mu # Bettor
  PROVE  NoBets(s)
BY DEF NoBets, BetsFine, ItsBet

\* What is left is what was there.
LEMMA QuietMessages ==
  ASSUME Work, NEW s \in Sockets, Quiet(s)
  PROVE  \A i \in DOMAIN sockets'[s].incoming :
           \E d \in {0, 1} : i + d \in DOMAIN sockets[s].incoming
              /\ sockets'[s].incoming[i] = sockets[s].incoming[i + d]
              /\ \A j \in DOMAIN sockets'[s].incoming : j + d \in DOMAIN sockets[s].incoming
                   /\ sockets'[s].incoming[j] = sockets[s].incoming[j + d]
<1> DEFINE a == sockets[s].incoming
           b == sockets'[s].incoming
<1>1. a \in Seq(Message)
  BY DEF Work, Typed, SocketOK
<1>2. b = a \/ b = <<>> \/ (a # <<>> /\ b = Tail(a))
  BY DEF Quiet
<1> SUFFICES ASSUME NEW i \in DOMAIN b
             PROVE  \E d \in {0, 1} : i + d \in DOMAIN a /\ b[i] = a[i + d]
                      /\ \A j \in DOMAIN b : j + d \in DOMAIN a /\ b[j] = a[j + d]
  OBVIOUS
<1> HIDE DEF a, b
<1>3. CASE b = a
  <2>1. \A j \in DOMAIN b : j + 0 \in DOMAIN a /\ b[j] = a[j + 0]
    BY <1>1, <1>3
  <2> QED
    BY <2>1
<1>4. CASE b = <<>>
  BY <1>4
<1>5. CASE a # <<>> /\ b = Tail(a)
  <2>1. \A j \in DOMAIN b : j + 1 \in DOMAIN a /\ b[j] = a[j + 1]
    BY <1>1, <1>5
  <2> QED
    BY <2>1
<1> QED
  BY <1>2, <1>3, <1>4, <1>5

LEMMA NoBetsRests ==
  ASSUME Work, NEW s \in Sockets, Quiet(s), NoBets(s)
  PROVE  NoBets(s)'
<1>1. \A i \in DOMAIN sockets'[s].incoming : ~IsBet(sockets'[s].incoming[i])
  BY QuietMessages DEF NoBets
<1>2. sockets'[s].open => sockets[s].open /\ sockets'[s].requests = sockets[s].requests
  BY DEF Quiet
<1> QED
  BY <1>1, <1>2 DEF NoBets

LEMMA BetsRest ==
  ASSUME Work, NEW s \in Sockets, Quiet(s), BetsFine(s), sockets'[s].mu = sockets[s].mu,
         sockets[s].mu = Bettor => go'[Bettor].id = go[Bettor].id
  PROVE  BetsFine(s)'
<1> DEFINE a == sockets[s].incoming
           b == sockets'[s].incoming
           q == sockets[s].requests
<1>0. a \in Seq(Message)
  BY DEF Work, Typed, SocketOK
<1>1. \A i \in DOMAIN b : IsBet(b[i]) => sockets'[s].mu = Bettor /\ b[i].id = go'[Bettor].id
  BY QuietMessages DEF BetsFine, ItsBet
<1>2. sockets'[s].open => sockets[s].open /\ sockets'[s].requests = q
  BY DEF Quiet
<1>3. ASSUME sockets'[s].open
      PROVE  /\ \A i \in DOMAIN q : IsBet(q[i]) =>
                  sockets'[s].mu = Bettor /\ q[i].id = go'[Bettor].id
             /\ OneBet(q) /\ OneBet(a)
             /\ \A i \in DOMAIN q, j \in DOMAIN a : ~(IsBet(q[i]) /\ IsBet(a[j]))
  BY <1>2, <1>3 DEF BetsFine, ItsBet
<1>4. ASSUME sockets'[s].open
      PROVE  \A i \in DOMAIN q, j \in DOMAIN b : ~(IsBet(q[i]) /\ IsBet(b[j]))
  BY <1>3, <1>4, QuietMessages
<1>5. ASSUME sockets'[s].open
      PROVE  OneBet(b)
  <2> SUFFICES ASSUME NEW i \in DOMAIN b, NEW j \in DOMAIN b, IsBet(b[i]), IsBet(b[j])
               PROVE  i = j
    BY DEF OneBet
  <2>1. PICK d \in {0, 1} : i + d \in DOMAIN a /\ b[i] = a[i + d]
          /\ \A k \in DOMAIN b : k + d \in DOMAIN a /\ b[k] = a[k + d]
    BY QuietMessages
  <2>2. i + d = j + d
    BY <1>3, <1>5, <2>1 DEF OneBet
  <2>3. DOMAIN b \subseteq Int
    <3>1. b = a \/ b = <<>> \/ (a # <<>> /\ b = Tail(a))
      BY DEF Quiet
    <3> HIDE DEF a, b
    <3>2. <<>> \in Seq(Message) /\ (a # <<>> => Tail(a) \in Seq(Message))
      BY <1>0
    <3>3. b \in Seq(Message)
      BY <1>0, <3>1, <3>2
    <3> QED
      BY <3>3
  <2> QED
    BY <2>2, <2>3
<1> QED
  BY <1>1, <1>2, <1>3, <1>4, <1>5 DEF BetsFine, ItsBet

\* Of the bettor nothing changes that a bet on its way depends on.
BettorKept ==
  /\ go'[Bettor].id = go[Bettor].id
  /\ go'[Bettor].got \in {0, go[Bettor].id, go[Bettor].got}

LEMMA OthersKeepBettor ==
  ASSUME NEW G, CallersKeep(G), Bettor \notin G
  PROVE  BettorKept
<1>1. Bettor \in Callers /\ Bettor # Loop
  BY Names
<1>2. go'[Bettor] = go[Bettor]
  BY <1>1 DEF CallersKeep, Wakes
<1> QED
  BY <1>2 DEF BettorKept

LEMMA MoverKeepsBettor ==
  ASSUME NEW g \in Callers, CallersKeep({g}), Keeps(g, go'[g]) \/ Settles(g, go'[g])
  PROVE  BettorKept
<1>1. CASE g = Bettor
  BY <1>1 DEF BettorKept, Keeps, Settles
<1>2. CASE g # Bettor
  BY <1>2, OthersKeepBettor
<1> QED
  BY <1>1, <1>2

\* A step over one socket.
LEMMA BoundStep ==
  ASSUME Work, Bound, BettorKept, NEW s \in Sockets, Touched(s), BetsFine(s)'
  PROVE  Bound'
<1>1. ASSUME NEW t \in Sockets \ {s}
      PROVE  BetsFine(t)'
  <2>1. sockets'[t] = sockets[t]
    BY DEF Touched
  <2>2. Quiet(t) /\ sockets'[t].mu = sockets[t].mu
    BY <2>1 DEF Quiet
  <2>3. BetsFine(t)
    BY DEF Bound
  <2> QED
    BY <2>2, <2>3, BetsRest DEF BettorKept
<1>2. go'[Bettor].got \in {0, go'[Bettor].id}
  BY DEF Bound, BettorKept
<1> QED
  BY <1>1, <1>2 DEF Bound

LEMMA BoundSocket1 ==
  ASSUME Work, Bound, BettorKept, NEW s \in Sockets, Touched(s), Quiet(s),
         sockets'[s].mu = sockets[s].mu \/ sockets[s].mu # Bettor
  PROVE  Bound'
<1>1. BetsFine(s)
  BY DEF Bound
<1>2. CASE sockets'[s].mu = sockets[s].mu
  BY <1>1, <1>2, BetsRest, BoundStep DEF BettorKept
<1>3. CASE sockets[s].mu # Bettor
  <2>1. NoBets(s)'
    BY <1>1, <1>3, NotTheBettors, NoBetsRests
  <2> QED
    BY <2>1, NoBetsFineNext, BoundStep
<1> QED
  BY <1>2, <1>3

\* A step that leaves the sockets alone.
LEMMA BoundRests ==
  ASSUME Work, Bound, UNCHANGED sockets, BettorKept
  PROVE  Bound'
<1>1. ASSUME NEW t \in Sockets
      PROVE  BetsFine(t)'
  <2>2. Quiet(t) /\ sockets'[t].mu = sockets[t].mu
    BY DEF Quiet
  <2>3. BetsFine(t)
    BY DEF Bound
  <2> QED
    BY <2>2, <2>3, BetsRest DEF BettorKept
<1>2. go'[Bettor].got \in {0, go'[Bettor].id}
  BY DEF Bound, BettorKept
<1> QED
  BY <1>1, <1>2 DEF Bound

\* The actions.
LEMMA ServeBound ==
  ASSUME Work, Bound, NEW s \in Sockets, Serve(s)
  PROVE  Bound'
<1> DEFINE request == Head(sockets[s].requests)
           count == IF request.kind = "bet" THEN played + 1 ELSE played
           message == [kind |-> request.kind, id |-> request.id, value |-> count]
           q == sockets[s].requests
           a == sockets[s].incoming
<1>1. Typed /\ SocketOK(sockets[s]) /\ played \in Nat
  BY DEF Work, Typed
<1>2. /\ q # <<>>
      /\ sockets' = [sockets EXCEPT ![s].requests = Tail(@), ![s].incoming =
           IF sockets[s].open /\ ~sockets[s].broken THEN Append(@, message) ELSE @]
      /\ UNCHANGED go
  BY DEF Serve, calling, bounds
<1>3. count \in Nat
  BY <1>1
<1> HIDE DEF count
<1>4. sockets[s].open => message \in Message
  <2>1. sockets[s].open => request \in Request
    BY <1>1, <1>2 DEF SocketOK
  <2> QED
    BY <1>3, <2>1 DEF Request, Message
<1>9. message.kind = request.kind /\ message.id = request.id
  OBVIOUS
<1> HIDE DEF message
<1>5. /\ Touched(s) /\ SocketOK(sockets'[s])
      /\ sockets'[s].mu = sockets[s].mu /\ sockets'[s].open = sockets[s].open
      /\ sockets'[s].requests = Tail(q)
      /\ \/ sockets'[s].incoming = a
         \/ (sockets[s].open /\ sockets'[s].incoming = Append(a, message))
  BY <1>1, <1>2, <1>4, ServedSocket
<1>6. BettorKept
  BY <1>2 DEF BettorKept
<1>7. BetsFine(s)
  BY DEF Bound
<1>8. BetsFine(s)'
  <2>1. a \in Seq(Message) /\ (sockets[s].open => q \in Seq(Request))
    BY <1>1 DEF SocketOK
  <2>2. CASE ~sockets[s].open
    <3>1. sockets'[s].incoming = a /\ ~sockets'[s].open
      BY <1>5, <2>2
    <3>2. \A i \in DOMAIN a : IsBet(a[i]) => ItsBet(s, a[i])
      BY <1>7 DEF BetsFine
    <3>3. \A i \in DOMAIN a : IsBet(a[i]) => sockets'[s].mu = Bettor /\ a[i].id = go'[Bettor].id
      BY <1>2, <1>5, <3>2 DEF ItsBet
    <3> QED
      BY <3>1, <3>3 DEF BetsFine, ItsBet
  <2>3. CASE sockets[s].open
    <3> DEFINE p == sockets'[s].requests
               b == sockets'[s].incoming
    <3>1. /\ q \in Seq(Request) /\ q # <<>> /\ p = Tail(q)
      BY <1>2, <1>5, <2>1, <2>3
    <3>2. /\ \A i \in DOMAIN a : IsBet(a[i]) => ItsBet(s, a[i])
          /\ \A i \in DOMAIN q : IsBet(q[i]) => ItsBet(s, q[i])
          /\ OneBet(q) /\ OneBet(a)
          /\ \A i \in DOMAIN q, j \in DOMAIN a : ~(IsBet(q[i]) /\ IsBet(a[j]))
      BY <1>7, <2>3 DEF BetsFine
    <3>3. b = a \/ b = Append(a, message)
      BY <1>5
    <3>4. /\ 1 \in DOMAIN q /\ request = q[1]
          /\ \A i \in DOMAIN p : i \in Nat /\ i + 1 \in DOMAIN q /\ i + 1 # 1 /\ p[i] = q[i + 1]
      <4>1. request = Head(q)
        OBVIOUS
      <4> HIDE DEF q, p, request
      <4> QED
        BY <3>1, <4>1
    <3>5. IsBet(message) => IsBet(q[1]) /\ ItsBet(s, message)
      BY <1>9, <3>2, <3>4 DEF IsBet, ItsBet
    <3>6. \A j \in DOMAIN b : \/ j \in DOMAIN a /\ b[j] = a[j]
                              \/ j \notin DOMAIN a /\ j = Len(a) + 1 /\ b[j] = message
      <4> HIDE DEF a, b, message
      <4> QED
        BY <2>1, <3>3
    <3> HIDE DEF p, b, q, a
    <3>7. \A j \in DOMAIN b : IsBet(b[j]) => ItsBet(s, b[j])
      BY <3>2, <3>5, <3>6
    <3>8. \A i \in DOMAIN p : IsBet(p[i]) => ItsBet(s, p[i])
      BY <3>2, <3>4
    <3>9. OneBet(p)
      <4> SUFFICES ASSUME NEW i \in DOMAIN p, NEW j \in DOMAIN p, IsBet(p[i]), IsBet(p[j])
                   PROVE  i = j
        BY DEF OneBet
      <4>1. i + 1 = j + 1
        BY <3>2, <3>4 DEF OneBet
      <4> QED
        BY <3>4, <4>1
    <3>10. OneBet(b)
      BY <3>2, <3>4, <3>5, <3>6 DEF OneBet
    <3>11. \A i \in DOMAIN p, j \in DOMAIN b : ~(IsBet(p[i]) /\ IsBet(b[j]))
      <4> SUFFICES ASSUME NEW i \in DOMAIN p, NEW j \in DOMAIN b, IsBet(p[i]), IsBet(b[j])
                   PROVE  FALSE
        OBVIOUS
      <4>1. IsBet(q[i + 1]) /\ i + 1 \in DOMAIN q /\ i + 1 # 1
        BY <3>4
      <4>2. ~IsBet(q[1])
        BY <3>2, <3>4, <4>1 DEF OneBet
      <4> QED
        BY <3>2, <3>5, <3>6, <4>1, <4>2
    <3>12. \A m : ItsBet(s, m) => m.id = go'[Bettor].id /\ sockets'[s].mu = Bettor
      BY <1>2, <1>5 DEF ItsBet
    <3> QED
      BY <3>7, <3>8, <3>9, <3>10, <3>11, <3>12 DEF BetsFine, ItsBet, p, b
  <2> QED
    BY <2>2, <2>3
<1> QED
  BY <1>5, <1>6, <1>8, BoundStep

\* Whoever gets the mutex finds no bet on its way.
LEMMA WriteBound ==
  ASSUME Work, Bound, NEW g \in Callers, Write(g)
  PROVE  Bound'
<1>1. PICK s : s = go[g].socket
  OBVIOUS
<1>2. /\ s \in Sockets /\ sockets[s].mu = Nobody
      /\ go' \in [Callers -> Caller] /\ CallersKeep({g}) /\ Keeps(g, go'[g])
      /\ Touched(s) /\ SocketOK(sockets'[s])
      /\ sockets'[s].mu = g /\ sockets'[s].open = sockets[s].open
      /\ sockets'[s].incoming = sockets[s].incoming
      /\ Asked(g, s)
  <2>1. WriteDoes(g, s)
    BY <1>1, WriteEffect
  <2> QED
    BY <2>1 DEF WriteDoes
<1>3. BettorKept
  BY <1>2, MoverKeepsBettor
<1>4. NoBets(s)
  BY <1>2, NotTheBettors, Names DEF Bound
<1> DEFINE a == sockets[s].incoming
           q == sockets[s].requests
           p == sockets'[s].requests
           r == [kind |-> Kind(g), id |-> go[g].id]
<1>5. \A i \in DOMAIN a : ~IsBet(a[i])
  BY <1>4 DEF NoBets
<1>6. CASE sockets[s].open => p = q
  <2>1. NoBets(s)'
    BY <1>2, <1>4, <1>6 DEF NoBets
  <2> QED
    BY <1>2, <1>3, <2>1, NoBetsFineNext, BoundStep
<1>7. CASE sockets[s].open /\ p = Append(q, r)
  <2>1. (\A i \in DOMAIN q : ~IsBet(q[i])) /\ q \in Seq(Request)
    BY <1>2, <1>4, <1>7 DEF NoBets, Work, Typed, SocketOK
  <2>2. r.id = go[g].id /\ (IsBet(r) => g = Bettor)
    BY DEF IsBet, Kind
  <2> HIDE DEF r
  <2>3. \A i \in DOMAIN p : \/ i \in DOMAIN q /\ p[i] = q[i]
                            \/ i = Len(q) + 1 /\ p[i] = r
    <3> HIDE DEF p, q
    <3> QED
      BY <1>7, <2>1
  <2>4. \A i \in DOMAIN p : IsBet(p[i]) => i = Len(q) + 1 /\ p[i] = r /\ g = Bettor
    <3> HIDE DEF p, q
    <3> QED
      BY <2>1, <2>2, <2>3
  <2>5. OneBet(p)
    BY <2>4 DEF OneBet
  <2>6. OneBet(a) /\ \A i \in DOMAIN p, j \in DOMAIN a : ~(IsBet(p[i]) /\ IsBet(a[j]))
    BY <1>5 DEF OneBet
  <2>7. \A i \in DOMAIN p : IsBet(p[i]) => sockets'[s].mu = Bettor /\ p[i].id = go'[Bettor].id
    BY <1>2, <1>3, <2>2, <2>4 DEF BettorKept
  <2>8. BetsFine(s)'
    BY <1>2, <1>5, <2>5, <2>6, <2>7 DEF BetsFine, ItsBet
  <2> QED
    BY <1>2, <1>3, <2>8, BoundStep
<1>8. CASE ~sockets[s].open
  <2>1. NoBets(s)'
    BY <1>2, <1>5, <1>8 DEF NoBets
  <2> QED
    BY <1>2, <1>3, <2>1, NoBetsFineNext, BoundStep
<1> QED
  BY <1>2, <1>6, <1>7, <1>8 DEF Asked

\* A call that gives the mutex back, and is not a bet.
LEMMA BackBound ==
  ASSUME Work, Bound, BettorKept, NEW g \in Callers \ {Bettor}, NEW s \in Sockets,
         Touched(s), Quiet(s), sockets'[s].mu = Back(g, s)
  PROVE  Bound'
BY BoundSocket1 DEF Back

LEMMA CloseBound ==
  ASSUME Work, Bound, NEW g \in Callers, Close(g)
  PROVE  Bound'
<1>1. Typed /\ CallerWorks(g)
  BY DEF Work
<1>10. PICK s : s = go[g].socket
  OBVIOUS
<1>2. /\ go[g].pc = "close" /\ sockets' = Unlocked(Stop(s), g, s)
      /\ go' = Scheduled([go EXCEPT ![g] = Failed(g)])
  BY <1>10 DEF Close, bounds, At, Own
<1>3. s \in Sockets
  BY <1>1, <1>2, <1>10 DEF CallerWorks
<1>4. Settles(g, Failed(g))
  BY <1>1, FailedSettles DEF Typed
<1>5. /\ go' \in [Callers -> Caller] /\ CallersKeep({g}) /\ go'[g] = Failed(g)
  BY <1>1, <1>2, <1>4, OneChangesAndLoopStarts DEF Typed, Settles
<1>6. /\ Socket1(s, Back(g, s), FALSE, sockets[s].reader)
      /\ sockets[s].mu \in {g, Nobody} => sockets'[s].incoming = <<>>
  BY <1>1, <1>2, <1>3, ClosedSocket
<1>7. BettorKept
  BY <1>4, <1>5, MoverKeepsBettor
<1>8. CASE sockets[s].mu \in {g, Nobody}
  <2>0. sockets'[s].incoming = <<>> /\ sockets'[s].open = FALSE /\ Touched(s)
    BY <1>6, <1>8 DEF Socket1
  <2>1. NoBets(s)'
    BY <2>0 DEF NoBets
  <2>2. BetsFine(s)'
    BY <2>1, NoBetsFineNext
  <2> QED
    BY <1>3, <1>7, <2>0, <2>2, BoundStep
<1>9. CASE sockets[s].mu \notin {g, Nobody}
  <2>1. sockets'[s].mu = sockets[s].mu
    BY <1>6, <1>9 DEF Socket1, Back
  <2> QED
    BY <1>3, <1>6, <1>7, <2>1, BoundSocket1 DEF Socket1
<1> QED
  BY <1>8, <1>9

LEMMA CancelBound ==
  ASSUME Work, Bound, NEW g \in Callers, Cancel(g)
  PROVE  Bound'
<1>1. Typed /\ CallerWorks(g)
  BY DEF Work
<1> DEFINE s == go[g].socket
<1>2. /\ go[g].pc = "wait" /\ sockets' = Unlocked(sockets, g, s)
      /\ go' = [go EXCEPT ![g] = Refused(g)] /\ g \in Readers \cup {Viewer}
  BY DEF Cancel, asking, bounds, At, Own
<1>3. s \in Sockets /\ g # Bettor
  BY <1>1, <1>2, Names DEF CallerWorks
<1> HIDE DEF s
<1>4. Settles(g, Refused(g))
  BY <1>1, RefusedSettles DEF Typed
<1>5. /\ go' \in [Callers -> Caller] /\ CallersKeep({g}) /\ go'[g] = Refused(g)
  BY <1>1, <1>2, <1>4, OneChanges DEF Typed, Settles
<1>6. Socket1(s, Back(g, s), sockets[s].open, sockets[s].reader)
  BY <1>1, <1>2, <1>3, UnlockedSocket
<1>7. BettorKept
  BY <1>4, <1>5, MoverKeepsBettor
<1> QED
  BY <1>3, <1>6, <1>7, BackBound DEF Socket1

LEMMA BlankBound ==
  ASSUME Work, Bound, NEW g \in Readers, ReceiveBlank(g)
  PROVE  Bound'
<1>1. Typed /\ CallerWorks(g) /\ g \in Callers
  BY Names DEF Work
<1> DEFINE s == go[g].socket
<1>2. /\ go[g].pc = "wait" /\ sockets' = Unlocked([sockets EXCEPT ![s].incoming = Tail(@)], g, s)
      /\ sockets[s].incoming # <<>>
      /\ go' = [go EXCEPT ![g] = Failed(g)]
  BY DEF ReceiveBlank, asking, bounds, At, Own
<1>3. s \in Sockets /\ g # Bettor
  BY <1>1, <1>2, Names DEF CallerWorks
<1> HIDE DEF s
<1>4. Settles(g, Failed(g))
  BY <1>1, FailedSettles DEF Typed
<1>5. /\ go' \in [Callers -> Caller] /\ CallersKeep({g}) /\ go'[g] = Failed(g)
  BY <1>1, <1>2, <1>4, OneChanges DEF Typed, Settles
<1>6. Socket1(s, Back(g, s), sockets[s].open, sockets[s].reader)
  BY <1>1, <1>2, <1>3, ReceivedSocket
<1>7. BettorKept
  BY <1>1, <1>4, <1>5, MoverKeepsBettor
<1> QED
  BY <1>1, <1>3, <1>6, <1>7, BackBound DEF Socket1

LEMMA StoreSeenBound ==
  ASSUME Work, Bound, StoreSeen
  PROVE  Bound'
<1>1. Typed /\ CallerWorks(Viewer) /\ Viewer \in Callers /\ Viewer # Bettor
  BY Names DEF Work
<1> DEFINE s == go[Viewer].socket
<1>2. /\ go[Viewer].pc = "store" /\ sockets' = Unlocked(sockets, Viewer, s)
      /\ go' = [go EXCEPT ![Viewer] = Idle]
  BY DEF StoreSeen, bounds, At, Own
<1>3. s \in Sockets
  BY <1>1, <1>2 DEF CallerWorks
<1> HIDE DEF s
<1>5. /\ go' \in [Callers -> Caller] /\ CallersKeep({Viewer})
  BY <1>1, <1>2, IdleEffect DEF Typed
<1>6. Socket1(s, Back(Viewer, s), sockets[s].open, sockets[s].reader)
  BY <1>1, <1>2, <1>3, UnlockedSocket
<1>7. BettorKept
  BY <1>1, <1>5, OthersKeepBettor
<1> QED
  BY <1>1, <1>3, <1>6, <1>7, BackBound DEF Socket1

LEMMA DialBound ==
  ASSUME Work, Bound, NEW g \in Callers, Dial(g)
  PROVE  Bound'
<1>1. Typed
  BY DEF Work
<1>2. /\ go' \in [Callers -> Caller] /\ CallersKeep({g})
      /\ \/ /\ made' \in Sockets
            /\ sockets' = [sockets EXCEPT ![made'] = NewSocket]
            /\ Keeps(g, go'[g])
         \/ UNCHANGED sockets /\ Settles(g, go'[g])
  BY <1>1, DialEffect
<1>3. BettorKept
  BY <1>2, MoverKeepsBettor
<1>4. CASE /\ made' \in Sockets
           /\ sockets' = [sockets EXCEPT ![made'] = NewSocket]
  <2>1. PICK s \in Sockets : s = made'
    BY <1>4
  <2>2. /\ Touched(s) /\ sockets'[s].incoming = <<>> /\ sockets'[s].requests = <<>>
    BY <1>1, <1>4, <2>1, MadeSocket
  <2>3. NoBets(s)'
    BY <2>2 DEF NoBets
  <2> QED
    BY <1>3, <2>2, <2>3, NoBetsFineNext, BoundStep
<1>5. CASE UNCHANGED sockets
  BY <1>3, <1>5, BoundRests
<1> QED
  BY <1>2, <1>4, <1>5

\* The bettor reads the update of its own bet, and it was the last one on its way.
LEMMA ReceiveBound ==
  ASSUME Work, Bound, NEW g \in Callers, Receive(g)
  PROVE  Bound'
<1>1. Typed /\ CallerWorks(g)
  BY DEF Work
<1>2. PICK s : s = go[g].socket
  OBVIOUS
<1>3. PICK m : m = Head(sockets[s].incoming)
  OBVIOUS
<1>4. /\ go[g].pc = "wait" /\ sockets[s].incoming # <<>>
      /\ \/ /\ sockets' = [sockets EXCEPT ![s].incoming = Tail(@)]
            /\ UNCHANGED go
         \/ /\ g = Bettor /\ m.kind = Kind(g)
            /\ sockets' = Unlocked([sockets EXCEPT ![s].incoming = Tail(@)], g, s)
            /\ go' = [go EXCEPT ![g] = [Idle EXCEPT !.id = go[g].id, !.got = m.id]]
         \/ /\ g # Bettor
            /\ \/ sockets' = Unlocked([sockets EXCEPT ![s].incoming = Tail(@)], g, s)
               \/ sockets' = [sockets EXCEPT ![s].incoming = Tail(@)]
            /\ go' = [go EXCEPT ![g].pc = "store", ![g].ok = TRUE, ![g].value = m.value,
                                ![g].mine = m.id = go[g].id]
  <2>1. ReceiveDoes(g, s, m)
    BY <1>1, <1>2, <1>3, ReceiveEffect
  <2> QED
    BY <2>1 DEF ReceiveDoes
<1>5. s \in Sockets
  BY <1>1, <1>2, <1>4 DEF CallerWorks
<1>6. m.id \in Nat /\ m.value \in Nat /\ 1 \in DOMAIN sockets[s].incoming
      /\ m = sockets[s].incoming[1]
  BY <1>1, <1>3, <1>4, <1>5, HeadMessage
<1>7. ASSUME sockets' = [sockets EXCEPT ![s].incoming = Tail(@)], BettorKept
      PROVE  Bound'
  <2>1. Socket1(s, sockets[s].mu, sockets[s].open, sockets[s].reader)
    BY <1>1, <1>4, <1>5, <1>7, TakenSocket
  <2> QED
    BY <1>5, <1>7, <2>1, BoundSocket1 DEF Socket1
<1>8. CASE sockets' = [sockets EXCEPT ![s].incoming = Tail(@)] /\ UNCHANGED go
  BY <1>7, <1>8 DEF BettorKept
<1>9. CASE /\ g # Bettor
           /\ \/ sockets' = Unlocked([sockets EXCEPT ![s].incoming = Tail(@)], g, s)
              \/ sockets' = [sockets EXCEPT ![s].incoming = Tail(@)]
           /\ go' = [go EXCEPT ![g].pc = "store", ![g].ok = TRUE, ![g].value = m.value,
                               ![g].mine = m.id = go[g].id]
  <2> DEFINE b == m.id = go[g].id
  <2>1. b \in BOOLEAN
    OBVIOUS
  <2>2. go' = Answered(g, m.value, b)
    BY <1>9 DEF Answered
  <2> HIDE DEF b
  <2>3. CallersKeep({g})
    BY <1>1, <1>6, <2>1, <2>2, BalanceAnswered DEF Typed
  <2>4. BettorKept
    BY <1>9, <2>3, OthersKeepBettor
  <2>5. CASE sockets' = Unlocked([sockets EXCEPT ![s].incoming = Tail(@)], g, s)
    <3>1. Socket1(s, Back(g, s), sockets[s].open, sockets[s].reader)
      BY <1>1, <1>4, <1>5, <2>5, ReceivedSocket
    <3> QED
      BY <1>5, <1>9, <2>4, <3>1, BackBound DEF Socket1
  <2> QED
    BY <1>7, <1>9, <2>4, <2>5
<1>10. CASE /\ g = Bettor /\ m.kind = Kind(g)
            /\ sockets' = Unlocked([sockets EXCEPT ![s].incoming = Tail(@)], g, s)
            /\ go' = [go EXCEPT ![g] = [Idle EXCEPT !.id = go[g].id, !.got = m.id]]
  <2>1. CallersKeep({g}) /\ go'[g].id = go[g].id /\ go'[g].got = m.id
    <3>1. go' = BetDone(g, m.id)
      BY <1>10 DEF BetDone
    <3> QED
      BY <1>1, <1>6, <3>1, BetAnswered DEF Typed
  <2>2. /\ Socket1(s, Back(g, s), sockets[s].open, sockets[s].reader)
        /\ sockets'[s].incoming \in {<<>>, Tail(sockets[s].incoming)}
        /\ sockets[s].stopped /\ sockets[s].mu \in {g, Nobody} => sockets'[s].incoming = <<>>
    BY <1>1, <1>4, <1>5, <1>10, ReceivedSocket
  <2>3. IsBet(m) /\ BetsFine(s)
    BY <1>5, <1>10 DEF IsBet, Kind, Bound
  <2>4. sockets[s].mu = Bettor /\ m.id = go[Bettor].id
    BY <1>6, <2>3 DEF BetsFine, ItsBet
  <2>5. BettorKept
    BY <1>10, <2>1, <2>4 DEF BettorKept
  <2>6. NoBets(s)'
    <3>1. CASE sockets[s].stopped
      <4>1. ~sockets[s].open
        BY <1>1, <1>5, <3>1 DEF Typed, SocketOK
      <4>2. sockets'[s].incoming = <<>> /\ ~sockets'[s].open
        BY <1>10, <2>2, <2>4, <3>1, <4>1 DEF Socket1
      <4> QED
        BY <4>2 DEF NoBets
    <3>2. CASE ~sockets[s].stopped
      <4> DEFINE a == sockets[s].incoming
                 q == sockets[s].requests
      <4>1. sockets[s].open /\ a \in Seq(Message) /\ a # <<>>
        BY <1>1, <1>4, <1>5, <3>2 DEF Typed, SocketOK
      <4>2. OneBet(a) /\ \A i \in DOMAIN q, j \in DOMAIN a : ~(IsBet(q[i]) /\ IsBet(a[j]))
        BY <2>3, <4>1 DEF BetsFine
      <4>3. \A i \in DOMAIN q : ~IsBet(q[i])
        BY <1>6, <2>3, <4>2
      <4>4. \A i \in DOMAIN sockets'[s].incoming : ~IsBet(sockets'[s].incoming[i])
        <5> SUFFICES ASSUME NEW b, b \in {<<>>, Tail(a)}, NEW i \in DOMAIN b
                     PROVE  ~IsBet(b[i])
          BY <2>2
        <5> HIDE DEF a
        <5>1. b = Tail(a)
          OBVIOUS
        <5>2. i \in Nat \ {0} /\ i + 1 \in DOMAIN a /\ b[i] = a[i + 1]
          BY <4>1, <5>1
        <5>3. i + 1 # 1
          BY <5>2
        <5>4. IsBet(a[1]) /\ 1 \in DOMAIN a
          BY <1>6, <2>3 DEF a
        <5> QED
          BY <4>2, <5>2, <5>3, <5>4 DEF OneBet
      <4>5. sockets'[s].open => sockets'[s].requests = q
        BY <2>2 DEF Socket1, Quiet
      <4> QED
        BY <4>3, <4>4, <4>5 DEF NoBets
    <3> QED
      BY <3>1, <3>2
  <2> QED
    BY <1>5, <2>2, <2>5, <2>6, NoBetsFineNext, BoundStep DEF Socket1
<1> QED
  BY <1>4, <1>8, <1>9, <1>10, <1>7

LEMMA SocketsBound ==
  ASSUME Work, Bound, NEW s \in Sockets, Break(s) \/ ReaderDrops(s) \/ ReaderCloses(s)
  PROVE  Bound'
<1>1. Typed
  BY DEF Work
<1>2. CASE Break(s)
  <2>1. UNCHANGED go /\ sockets' = [sockets EXCEPT ![s].broken = TRUE]
    BY <1>2 DEF Break, calling
  <2>2. Socket1(s, sockets[s].mu, sockets[s].open, sockets[s].reader)
    BY <1>1, <2>1, BrokenSocket
  <2>3. BettorKept
    BY <2>1 DEF BettorKept
  <2> QED
    BY <2>2, <2>3, BoundSocket1 DEF Socket1
<1>3. CASE ReaderDrops(s)
  <2>1. UNCHANGED go /\ sockets' = [sockets EXCEPT ![s].reader = "close"]
    BY <1>3 DEF ReaderDrops
  <2>2. Socket1(s, sockets[s].mu, sockets[s].open, "close")
    BY <1>1, <2>1, ReaderSocket
  <2>3. BettorKept
    BY <2>1 DEF BettorKept
  <2> QED
    BY <2>2, <2>3, BoundSocket1 DEF Socket1
<1>4. CASE ReaderCloses(s)
  <2>1. go' = Scheduled(go) /\ sockets' = [Stop(s) EXCEPT ![s].reader = "over"]
    BY <1>4 DEF ReaderCloses
  <2>2. Socket1(s, sockets[s].mu, FALSE, "over")
    BY <1>1, <2>1, OverSocket
  <2>3. BettorKept
    BY <1>1, <2>1, LoopStarts, OthersKeepBettor DEF Typed
  <2> QED
    BY <2>2, <2>3, BoundSocket1 DEF Socket1
<1> QED
  BY <1>2, <1>3, <1>4

LEMMA MoversBound ==
  ASSUME Work, Bound, NEW g \in Callers, Ensure(g) \/ GivesUp(g) \/ Drop(g)
  PROVE  Bound'
<1>1. Typed /\ {"drop", "close"} \subseteq PC
  BY DEF Work, PC
<1>2. UNCHANGED sockets /\ CallersKeep({g}) /\ Keeps(g, go'[g])
  <2>1. CASE Ensure(g)
    BY <2>1, EnsureEffect
  <2>2. CASE GivesUp(g)
    BY <1>1, <2>2, Goes1 DEF GivesUp, Typed
  <2>3. CASE Drop(g)
    BY <1>1, <2>3, Goes1 DEF Drop, Typed
  <2> QED
    BY <2>1, <2>2, <2>3
<1> QED
  BY <1>2, MoverKeepsBettor, BoundRests

LEMMA ReadersBound ==
  ASSUME Work, Bound, NEW r \in Readers, Ask(r) \/ LeavesFlight(r) \/ Store(r)
  PROVE  Bound'
<1>1. Typed /\ r \in Callers /\ Bettor \notin Readers
  BY Names DEF Work
<1>2. CASE Ask(r)
  BY <1>1, <1>2, AskEffect, OthersKeepBettor, BoundRests
<1>3. CASE LeavesFlight(r)
  <2>1. UNCHANGED sockets /\ go' = [go EXCEPT ![r] = Idle]
    BY <1>3 DEF LeavesFlight, staying
  <2>2. CallersKeep({r})
    BY <1>1, <2>1, IdleEffect DEF Typed
  <2> QED
    BY <1>1, <2>1, <2>2, OthersKeepBettor, BoundRests
<1>4. CASE Store(r)
  <2> DEFINE G == Followers(r) \cup {r}
  <2>1. /\ G \subseteq Readers /\ UNCHANGED sockets
        /\ \A h \in Callers \ G : go'[h] = go[h]
    BY <1>1, <1>4, StoreEffect
  <2> HIDE DEF G
  <2>2. CallersKeep(G)
    BY <2>1 DEF CallersKeep
  <2>3. BettorKept
    BY <1>1, <2>1, <2>2, OthersKeepBettor
  <2> QED
    BY <2>1, <2>3, BoundRests
<1> QED
  BY <1>2, <1>3, <1>4

\* A new bet, when none holds a mutex.
LEMMA PlaceBetBound ==
  ASSUME Work, Bound, PlaceBet
  PROVE  Bound'
<1>1. /\ go[Bettor].pc = "idle" /\ go'[Bettor].got = 0
      /\ UNCHANGED sockets
  BY PlaceBetEffect DEF Work
<1>2. ASSUME NEW s \in Sockets
      PROVE  BetsFine(s)'
  <2>1. sockets[s].mu # Bettor
    BY <1>1, Names DEF Work, SocketWorks, Held, Holding
  <2>2. BetsFine(s)
    BY DEF Bound
  <2>3. NoBets(s) /\ Quiet(s)
    BY <1>1, <2>1, <2>2, NotTheBettors DEF Quiet
  <2> QED
    BY <2>3, NoBetsRests, NoBetsFineNext
<1> QED
  BY <1>1, <1>2 DEF Bound

LEMMA OthersBound ==
  ASSUME Work, Bound, Look \/ DropUserSocket \/ LoopEnds \/ Expire \/ UNCHANGED vars
  PROVE  Bound'
<1>1. /\ Typed /\ Viewer \in Callers /\ Login \in Callers /\ Loop \in Callers
      /\ Bettor \notin {Viewer, Login, Loop}
  BY Names DEF Work
<1>2. CASE Look
  BY <1>1, <1>2, LookEffect, OthersKeepBettor, BoundRests
<1>3. CASE DropUserSocket
  BY <1>1, <1>3, DropUserSocketEffect, OthersKeepBettor, BoundRests
<1>4. CASE LoopEnds
  <2>1. UNCHANGED sockets /\ go' = [go EXCEPT ![Loop] = Idle]
    BY <1>4 DEF LoopEnds, staying
  <2>2. CallersKeep({Loop})
    BY <1>1, <2>1, IdleEffect DEF Typed
  <2> QED
    BY <1>1, <2>1, <2>2, OthersKeepBettor, BoundRests
<1>5. CASE Expire \/ UNCHANGED vars
  <2>1. UNCHANGED <<sockets, go>>
    BY <1>5 DEF Expire, staying, vars
  <2> QED
    BY <2>1, BoundRests DEF BettorKept
<1> QED
  BY <1>2, <1>3, <1>4, <1>5

LEMMA InitBound ==
  ASSUME Init
  PROVE  Bound
<1>1. /\ sockets = [s \in Sockets |-> NoSocket] /\ go = [g \in Callers |-> Idle]
  BY DEF Init
<1>2. Idle.got = 0
  BY IdleTyped
<1>3. NoSocket.incoming = <<>> /\ NoSocket.open = FALSE
  BY DEF NoSocket
<1> HIDE DEF NoSocket, Idle
<1>4. \A s \in Sockets : NoBets(s)
  BY <1>1, <1>3 DEF NoBets
<1> QED
  BY <1>1, <1>2, <1>4, NoBetsFine, Names DEF Bound

LEMMA NextBound ==
  ASSUME Work, Bound, [Next]_vars
  PROVE  Bound'
<1>1. ASSUME NEW g \in Callers,
             \/ Ensure(g) \/ Dial(g) \/ Write(g) \/ Receive(g) \/ GivesUp(g)
             \/ Drop(g) \/ Close(g) \/ Cancel(g)
      PROVE  Bound'
  BY <1>1, MoversBound, DialBound, WriteBound, ReceiveBound, CloseBound, CancelBound
<1>2. ASSUME NEW s \in Sockets,
             Serve(s) \/ Break(s) \/ ReaderDrops(s) \/ ReaderCloses(s)
      PROVE  Bound'
  BY <1>2, ServeBound, SocketsBound
<1>3. ASSUME NEW r \in Readers, Ask(r) \/ LeavesFlight(r) \/ ReceiveBlank(r) \/ Store(r)
      PROVE  Bound'
  BY <1>3, ReadersBound, BlankBound
<1>4. CASE Look \/ StoreSeen \/ PlaceBet \/ DropUserSocket \/ LoopEnds \/ Expire
  BY <1>4, StoreSeenBound, PlaceBetBound, OthersBound
<1>5. CASE UNCHANGED vars
  BY <1>5, OthersBound
<1> QED
  BY <1>1, <1>2, <1>3, <1>4, <1>5, NextCases

\* The bets on their way belong to the call that has the mutex.
THEOREM BoundHolds == Spec => []Bound
BY InitBound, NextBound, WorkHolds, PTL DEF Spec

\* A bet is settled by its own update, also when the update of an earlier one comes
\* late (client.go PlaceBet drops the socket after a bet that timed out).
THEOREM OwnUpdateHolds == Spec => []OwnUpdate
<1>1. Bound => OwnUpdate
  BY DEF Bound, OwnUpdate
<1> QED
  BY <1>1, BoundHolds, PTL

-----------------------------------------------------------------------------
(* How old an answer is                                                    *)

\* What a call has been told is not from before it began.
CallerAged(g) ==
  /\ go[g].id <= events /\ go[g].since <= played
  /\ go[g].ok /\ go[g].mine => go[g].since <= go[g].value
  /\ g = Viewer /\ go[g].pc = "store" => go[g].ok

\* An answer to a call is not from before it began.
AnswerFine(m) ==
  /\ m.id <= events /\ m.value <= played
  /\ \A g \in Callers : m.id = go[g].id => go[g].since <= m.value

AnswersFine(s) ==
  /\ \A i \in DOMAIN sockets[s].incoming : AnswerFine(sockets[s].incoming[i])
  /\ sockets[s].open =>
       \A i \in DOMAIN sockets[s].requests : sockets[s].requests[i].id <= events

Aged ==
  /\ cleared <= played /\ StaleIsExplained
  /\ \A g \in Callers : CallerAged(g)
  /\ \A s \in Sockets : AnswersFine(s)

\* Time goes on; a call that changes its number takes a new one.
Later == events <= events' /\ played <= played'
Fresh(h) ==
  \/ go'[h].id = go[h].id /\ go'[h].since = go[h].since
  \/ go'[h].since = 0
  \/ events < go'[h].id

\* The answer is fine after the step, too.
StillFine(m) ==
  /\ m.id <= events' /\ m.value <= played'
  /\ \A g \in Callers : m.id = go'[g].id => go'[g].since <= m.value

LEMMA AnswerRests ==
  ASSUME Typed, Typed', Later, \A h \in Callers : Fresh(h), NEW m \in Message,
         AnswerFine(m)
  PROVE  StillFine(m)
<1>1. m.id \in Nat /\ m.value \in Nat
  BY DEF Message
<1>2. /\ events \in Nat /\ events' \in Nat /\ played \in Nat /\ played' \in Nat
      /\ events <= events' /\ played <= played'
  BY DEF Typed, Later
<1>3. m.id <= events' /\ m.value <= played'
  BY <1>1, <1>2 DEF AnswerFine
<1>4. ASSUME NEW h \in Callers, m.id = go'[h].id
      PROVE  go'[h].since <= m.value
  <2>1. \/ go'[h].id = go[h].id /\ go'[h].since = go[h].since
        \/ go'[h].since = 0
        \/ events < go'[h].id
    BY DEF Fresh
  <2>2. m.id <= events
    BY DEF AnswerFine
  <2> QED
    BY <1>1, <1>2, <1>4, <2>1, <2>2 DEF AnswerFine
<1> QED
  BY <1>3, <1>4 DEF StillFine

\* The answers and the requests over s are fine again.
LEMMA AnswersFineNext ==
  ASSUME NEW s,
         \A i \in DOMAIN sockets'[s].incoming : StillFine(sockets'[s].incoming[i]),
         sockets'[s].open =>
           \A i \in DOMAIN sockets'[s].requests : sockets'[s].requests[i].id <= events'
  PROVE  AnswersFine(s)'
BY DEF AnswersFine, AnswerFine, StillFine

LEMMA AnswersRest ==
  ASSUME Work, Work', Later, \A h \in Callers : Fresh(h), NEW s \in Sockets, Quiet(s),
         AnswersFine(s)
  PROVE  AnswersFine(s)'
<1>1. Typed /\ Typed'
  BY DEF Work
<1>2. ASSUME NEW i \in DOMAIN sockets'[s].incoming
      PROVE  StillFine(sockets'[s].incoming[i])
  <2>1. PICK k \in DOMAIN sockets[s].incoming :
              sockets'[s].incoming[i] = sockets[s].incoming[k]
    BY QuietMessages
  <2>2. PICK m : m = sockets[s].incoming[k]
    OBVIOUS
  <2>3. m \in Message
    BY <1>1, <2>2 DEF Typed, SocketOK
  <2>4. AnswerFine(m)
    BY <2>2 DEF AnswersFine
  <2>5. StillFine(m)
    BY <1>1, <2>3, <2>4, AnswerRests
  <2> QED
    BY <2>1, <2>2, <2>5
<1>3. ASSUME sockets'[s].open, NEW i \in DOMAIN sockets'[s].requests
      PROVE  sockets'[s].requests[i].id <= events'
  <2>1. sockets[s].open /\ sockets'[s].requests = sockets[s].requests
    BY <1>3 DEF Quiet
  <2>2. sockets[s].requests[i].id \in Nat
    <3>1. sockets[s].requests \in Seq(Request) /\ i \in DOMAIN sockets[s].requests
      BY <1>1, <1>3, <2>1 DEF Typed, SocketOK
    <3>2. sockets[s].requests[i] \in Request
      BY <3>1
    <3> QED
      BY <3>2 DEF Request
  <2>3. sockets[s].requests[i].id <= events
    BY <1>3, <2>1 DEF AnswersFine
  <2> QED
    BY <1>1, <2>1, <2>2, <2>3 DEF Typed, Later
<1> QED
  BY <1>2, <1>3, AnswersFineNext

\* Whoever does nothing.
LEMMA OthersAged ==
  ASSUME Work, Work', Aged, Later, NEW G, CallersKeep(G)
  PROVE  \A h \in Callers \ G : CallerAged(h)' /\ Fresh(h)
<1> SUFFICES ASSUME NEW h \in Callers \ G
             PROVE  CallerAged(h)' /\ Fresh(h)
  OBVIOUS
<1>1. /\ events \in Nat /\ events' \in Nat /\ played \in Nat /\ played' \in Nat
      /\ events <= events' /\ played <= played'
  BY DEF Work, Typed, Later
<1>2. CallerAged(h) /\ go[h] \in Caller
  BY DEF Aged, Work, Typed
<1>3. CASE go'[h] = go[h]
  <2>1. go[h].id \in Nat /\ go[h].since \in Nat
    BY <1>2 DEF Caller
  <2>2. go'[h].id <= events' /\ go'[h].since <= played'
    BY <1>1, <1>2, <1>3, <2>1 DEF CallerAged
  <2> QED
    BY <1>2, <1>3, <2>2 DEF CallerAged, Fresh
<1>4. CASE Wakes(h)
  <2>1. /\ h = Loop /\ go'[h].pc = "ensure" /\ go'[h].id = 0 /\ go'[h].since = 0
        /\ go'[h].ok = FALSE
    BY <1>4, WokenTyped
  <2> QED
    BY <1>1, <2>1 DEF CallerAged, Fresh
<1> QED
  BY <1>3, <1>4 DEF CallersKeep

LEMMA MoverAged ==
  ASSUME Work, Work', Aged, Later, NEW g \in Callers, CallersKeep({g}),
         \/ Keeps(g, go'[g]) /\ ~(g = Viewer /\ go'[g].pc = "store")
         \/ Settles(g, go'[g])
  PROVE  \A h \in Callers : CallerAged(h)' /\ Fresh(h)
<1>1. /\ events \in Nat /\ events' \in Nat /\ played \in Nat /\ played' \in Nat
      /\ events <= events' /\ played <= played'
  BY DEF Work, Typed, Later
<1>2. CallerAged(g) /\ go[g].id \in Nat /\ go[g].since \in Nat
  BY DEF Aged, Work, Typed, Caller
<1>3. CASE Keeps(g, go'[g]) /\ ~(g = Viewer /\ go'[g].pc = "store")
  <2>1. go'[g].id <= events' /\ go'[g].since <= played'
    BY <1>1, <1>2, <1>3 DEF CallerAged, Keeps
  <2>2. CallerAged(g)' /\ Fresh(g)
    BY <1>2, <1>3, <2>1 DEF CallerAged, Fresh, Keeps
  <2> QED
    BY <2>2, OthersAged
<1>4. CASE Settles(g, go'[g]) /\ g \in Readers
  <2>1. Keeps(g, go'[g]) /\ g # Viewer
    BY <1>4, Names DEF Settles
  <2> QED
    BY <1>3, <2>1
<1>5. CASE Settles(g, go'[g]) /\ g \notin Readers
  <2>1. /\ go'[g].id \in {0, go[g].id} /\ go'[g].since = 0 /\ go'[g].ok = FALSE
        /\ (g = Viewer => go'[g].pc = "idle")
    BY <1>5 DEF Settles
  <2>2. go'[g].id <= events' /\ go'[g].since <= played'
    BY <1>1, <1>2, <2>1 DEF CallerAged
  <2>3. CallerAged(g)' /\ Fresh(g)
    BY <2>1, <2>2 DEF CallerAged, Fresh
  <2> QED
    BY <2>3, OthersAged
<1> QED
  BY <1>3, <1>4, <1>5

\* A call that begins takes a new number; one that is over forgets its own.
LEMMA BeginnerAged ==
  ASSUME Work, Work', Aged, Later, NEW g \in Callers, CallersKeep({g}),
         go'[g].ok = FALSE, g = Viewer => go'[g].pc # "store",
         \/ go'[g].since = 0 /\ go'[g].id \in {0, go[g].id, events'}
         \/ events' = events + 1 /\ go'[g].id = events' /\ go'[g].since = cleared
  PROVE  \A h \in Callers : CallerAged(h)' /\ Fresh(h)
<1>1. /\ events \in Nat /\ events' \in Nat /\ played \in Nat /\ played' \in Nat
      /\ events <= events' /\ played <= played' /\ cleared \in Nat /\ cleared <= played
  BY DEF Work, Typed, Later, Aged
<1>2. CallerAged(g) /\ go[g].id \in Nat
  BY DEF Aged, Work, Typed, Caller
<1>3. go'[g].id <= events' /\ go'[g].since <= played'
  BY <1>1, <1>2 DEF CallerAged
<1>4. Fresh(g)
  BY <1>1 DEF Fresh
<1>5. CallerAged(g)'
  BY <1>3 DEF CallerAged
<1> QED
  BY <1>4, <1>5, OthersAged

LEMMA StaleRests ==
  ASSUME StaleIsExplained, UNCHANGED <<known, cleared>>
  PROVE  StaleIsExplained'
BY DEF StaleIsExplained

\* A step that brings nothing over a socket.
LEMMA AgedStep ==
  ASSUME Work, Work', Aged, Later, \A h \in Callers : CallerAged(h)' /\ Fresh(h),
         cleared' <= played', StaleIsExplained', NEW s \in Sockets, Touched(s), Quiet(s)
  PROVE  Aged'
<1>1. ASSUME NEW t \in Sockets
      PROVE  AnswersFine(t)'
  <2>1. Quiet(t)
    BY DEF Touched, Quiet
  <2>2. AnswersFine(t)
    BY DEF Aged
  <2> QED
    BY <2>1, <2>2, AnswersRest
<1> QED
  BY <1>1 DEF Aged

LEMMA AgedRests ==
  ASSUME Work, Work', Aged, Later, \A h \in Callers : CallerAged(h)' /\ Fresh(h),
         cleared' <= played', StaleIsExplained', UNCHANGED sockets
  PROVE  Aged'
<1>1. ASSUME NEW t \in Sockets
      PROVE  AnswersFine(t)'
  <2>1. Quiet(t)
    BY DEF Quiet
  <2>2. AnswersFine(t)
    BY DEF Aged
  <2> QED
    BY <2>1, <2>2, AnswersRest
<1> QED
  BY <1>1 DEF Aged

\* Nothing is cleared or remembered.
LEMMA ClearedRests ==
  ASSUME Work, Work', Aged, Later, UNCHANGED <<known, cleared>>
  PROVE  cleared' <= played' /\ StaleIsExplained'
<1>1. cleared \in Nat /\ played \in Nat /\ played' \in Nat
  BY DEF Work, Typed
<1> QED
  BY <1>1, StaleRests DEF Aged, Later

\* What is remembered is explained.
LEMMA RememberExplained ==
  ASSUME Work, Aged, NEW g \in Callers, Remember(g), go[g].ok, UNCHANGED cleared
  PROVE  StaleIsExplained'
<1>1. CallerAged(g) /\ go[g] \in Caller /\ cleared \in Nat
  BY DEF Aged, Work, Typed
<1>2. /\ known'.set = TRUE /\ known'.value = go[g].value
      /\ known'.overtaken = (go[g].since # cleared) /\ known'.borrowed = ~go[g].mine
  BY DEF Remember
<1>3. go[g].mine \in BOOLEAN /\ go[g].value \in Nat /\ go[g].since \in Nat
  BY <1>1 DEF Caller
<1>4. CASE go[g].since = cleared /\ go[g].mine
  <2>1. go[g].value >= cleared
    BY <1>1, <1>3, <1>4 DEF CallerAged
  <2> QED
    BY <1>2, <2>1 DEF StaleIsExplained
<1>5. CASE ~(go[g].since = cleared /\ go[g].mine)
  BY <1>2, <1>3, <1>5 DEF StaleIsExplained
<1> QED
  BY <1>4, <1>5

\* The actions.
LEMMA MoversAged ==
  ASSUME Work, Work', Aged, NEW g \in Callers, Ensure(g) \/ GivesUp(g) \/ Drop(g)
  PROVE  Aged'
<1>1. Typed /\ {"drop", "close"} \subseteq PC
  BY DEF Work, PC
<1>2. UNCHANGED <<sockets, known, cleared, played, events>> /\ CallersKeep({g})
      /\ Keeps(g, go'[g]) /\ go'[g].pc # "store"
  <2>1. CASE Ensure(g)
    BY <2>1, EnsureEffect
  <2>2. CASE GivesUp(g)
    BY <1>1, <2>2, Goes1 DEF GivesUp, Typed, asking, bounds
  <2>3. CASE Drop(g)
    BY <1>1, <2>3, Goes1 DEF Drop, Typed, bounds
  <2> QED
    BY <2>1, <2>2, <2>3
<1>3. Later
  BY <1>1, <1>2 DEF Later, Typed
<1> QED
  BY <1>2, <1>3, MoverAged, ClearedRests, AgedRests

LEMMA DialAged ==
  ASSUME Work, Work', Aged, NEW g \in Callers, Dial(g)
  PROVE  Aged'
<1>1. Typed
  BY DEF Work
<1>2. /\ CallersKeep({g}) /\ UNCHANGED <<known, cleared, played, events>>
      /\ \/ /\ made' \in Sockets
            /\ sockets' = [sockets EXCEPT ![made'] = NewSocket]
            /\ Keeps(g, go'[g]) /\ go'[g].pc # "store"
         \/ UNCHANGED sockets /\ Settles(g, go'[g])
  BY <1>1, DialEffect
<1>3. Later
  BY <1>1, <1>2 DEF Later, Typed
<1>4. \A h \in Callers : CallerAged(h)' /\ Fresh(h)
  BY <1>2, <1>3, MoverAged
<1>5. cleared' <= played' /\ StaleIsExplained'
  BY <1>2, <1>3, ClearedRests
<1>6. CASE made' \in Sockets /\ sockets' = [sockets EXCEPT ![made'] = NewSocket]
  <2>1. PICK s \in Sockets : s = made'
    BY <1>6
  <2>2. Touched(s) /\ sockets'[s].incoming = <<>> /\ sockets'[s].requests = <<>>
    BY <1>1, <1>6, <2>1, MadeSocket
  <2>3. AnswersFine(s)'
    BY <2>2 DEF AnswersFine
  <2>4. ASSUME NEW t \in Sockets \ {s}
        PROVE  AnswersFine(t)'
    <3>1. Quiet(t)
      BY <2>2 DEF Touched, Quiet
    <3>2. AnswersFine(t)
      BY DEF Aged
    <3> QED
      BY <1>3, <1>4, <3>1, <3>2, AnswersRest
  <2> QED
    BY <1>4, <1>5, <2>3, <2>4 DEF Aged
<1>7. CASE UNCHANGED sockets
  BY <1>3, <1>4, <1>5, <1>7, AgedRests
<1> QED
  BY <1>2, <1>6, <1>7

\* The request that is written carries a number that has been given.
LEMMA WriteAged ==
  ASSUME Work, Work', Aged, NEW g \in Callers, Write(g)
  PROVE  Aged'
<1>1. Typed /\ Typed' /\ go[g].id <= events
  BY DEF Work, Aged, CallerAged
<1>2. PICK s : s = go[g].socket
  OBVIOUS
<1>3. /\ s \in Sockets /\ UNCHANGED <<known, cleared, played, events>>
      /\ CallersKeep({g}) /\ Keeps(g, go'[g]) /\ go'[g].pc \in {"wait", "drop"}
      /\ Touched(s) /\ sockets'[s].open = sockets[s].open
      /\ sockets'[s].incoming = sockets[s].incoming
      /\ Asked(g, s)
  <2>1. WriteDoes(g, s)
    BY <1>2, WriteEffect
  <2> QED
    BY <2>1 DEF WriteDoes
<1>4. Later
  BY <1>1, <1>3 DEF Later, Typed
<1>5. \A h \in Callers : CallerAged(h)' /\ Fresh(h)
  BY <1>3, <1>4, MoverAged
<1>6. cleared' <= played' /\ StaleIsExplained'
  BY <1>3, <1>4, ClearedRests
<1>7. CASE sockets'[s].open => sockets'[s].requests = sockets[s].requests
  <2>1. Quiet(s)
    BY <1>3, <1>7 DEF Quiet
  <2> QED
    BY <1>3, <1>4, <1>5, <1>6, <2>1, AgedStep
<1>8. CASE /\ sockets'[s].open
           /\ sockets'[s].requests = Append(sockets[s].requests,
                                            [kind |-> Kind(g), id |-> go[g].id])
  <2> DEFINE q == sockets[s].requests
             p == sockets'[s].requests
             r == [kind |-> Kind(g), id |-> go[g].id]
  <2>1. sockets[s].open /\ q \in Seq(Request) /\ p = Append(q, r) /\ r.id = go[g].id
    BY <1>1, <1>3, <1>8 DEF Typed, SocketOK
  <2> HIDE DEF r, q, p
  <2>2. \A i \in DOMAIN p : (i \in DOMAIN q /\ p[i] = q[i]) \/ p[i] = r
    BY <2>1
  <2>3. \A i \in DOMAIN q : q[i].id <= events
    BY <1>3, <2>1 DEF Aged, AnswersFine, q
  <2>4. \A i \in DOMAIN p : p[i].id <= events'
    BY <1>1, <1>3, <2>1, <2>2, <2>3
  <2>5. ASSUME NEW i \in DOMAIN sockets'[s].incoming
        PROVE  StillFine(sockets'[s].incoming[i])
    <3>1. PICK m : m = sockets[s].incoming[i]
      OBVIOUS
    <3>2. m \in Message /\ AnswerFine(m)
      BY <1>1, <1>3, <2>5, <3>1 DEF Typed, SocketOK, Aged, AnswersFine
    <3> QED
      BY <1>1, <1>3, <1>4, <1>5, <3>1, <3>2, AnswerRests
  <2>6. AnswersFine(s)'
    BY <2>4, <2>5, AnswersFineNext DEF p
  <2>7. ASSUME NEW t \in Sockets \ {s}
        PROVE  AnswersFine(t)'
    <3>1. Quiet(t)
      BY <1>3 DEF Touched, Quiet
    <3>2. AnswersFine(t)
      BY DEF Aged
    <3> QED
      BY <1>4, <1>5, <3>1, <3>2, AnswersRest
  <2> QED
    BY <1>5, <1>6, <2>6, <2>7 DEF Aged
<1> QED
  BY <1>3, <1>7, <1>8 DEF Asked

LEMMA CloseAged ==
  ASSUME Work, Work', Aged, NEW g \in Callers, Close(g)
  PROVE  Aged'
<1>1. Typed /\ CallerWorks(g)
  BY DEF Work
<1>10. PICK s : s = go[g].socket
  OBVIOUS
<1>2. /\ go[g].pc = "close" /\ sockets' = Unlocked(Stop(s), g, s)
      /\ go' = Scheduled([go EXCEPT ![g] = Failed(g)])
      /\ UNCHANGED <<known, cleared, played, events>>
  BY <1>10 DEF Close, bounds, At, Own
<1>3. s \in Sockets
  BY <1>1, <1>2, <1>10 DEF CallerWorks
<1>4. Settles(g, Failed(g))
  BY <1>1, FailedSettles DEF Typed
<1>5. CallersKeep({g}) /\ go'[g] = Failed(g)
  BY <1>1, <1>2, <1>4, OneChangesAndLoopStarts DEF Typed, Settles
<1>6. Touched(s) /\ Quiet(s)
  BY <1>1, <1>2, <1>3, ClosedSocket DEF Socket1
<1>7. Later
  BY <1>1, <1>2 DEF Later, Typed
<1>8. \A h \in Callers : CallerAged(h)' /\ Fresh(h)
  BY <1>4, <1>5, <1>7, MoverAged
<1>9. cleared' <= played' /\ StaleIsExplained'
  BY <1>2, <1>7, ClearedRests
<1> QED
  BY <1>3, <1>6, <1>7, <1>8, <1>9, AgedStep

LEMMA CancelAged ==
  ASSUME Work, Work', Aged, NEW g \in Callers, Cancel(g)
  PROVE  Aged'
<1>1. Typed /\ CallerWorks(g)
  BY DEF Work
<1>10. PICK s : s = go[g].socket
  OBVIOUS
<1>2. /\ go[g].pc = "wait" /\ sockets' = Unlocked(sockets, g, s)
      /\ go' = [go EXCEPT ![g] = Refused(g)]
      /\ UNCHANGED <<known, cleared, played, events>>
  BY <1>10 DEF Cancel, asking, bounds, At, Own
<1>3. s \in Sockets
  BY <1>1, <1>2, <1>10 DEF CallerWorks
<1>4. Settles(g, Refused(g))
  BY <1>1, RefusedSettles DEF Typed
<1>5. CallersKeep({g}) /\ go'[g] = Refused(g)
  BY <1>1, <1>2, <1>4, OneChanges DEF Typed, Settles
<1>6. Touched(s) /\ Quiet(s)
  BY <1>1, <1>2, <1>3, UnlockedSocket DEF Socket1
<1>7. Later
  BY <1>1, <1>2 DEF Later, Typed
<1>8. \A h \in Callers : CallerAged(h)' /\ Fresh(h)
  BY <1>4, <1>5, <1>7, MoverAged
<1>9. cleared' <= played' /\ StaleIsExplained'
  BY <1>2, <1>7, ClearedRests
<1> QED
  BY <1>3, <1>6, <1>7, <1>8, <1>9, AgedStep

LEMMA BlankAged ==
  ASSUME Work, Work', Aged, NEW g \in Readers, ReceiveBlank(g)
  PROVE  Aged'
<1>1. Typed /\ CallerWorks(g) /\ g \in Callers
  BY Names DEF Work
<1>10. PICK s : s = go[g].socket
  OBVIOUS
<1>2. /\ go[g].pc = "wait" /\ sockets' = Unlocked([sockets EXCEPT ![s].incoming = Tail(@)], g, s)
      /\ sockets[s].incoming # <<>>
      /\ go' = [go EXCEPT ![g] = Failed(g)]
      /\ UNCHANGED <<known, cleared, played, events>>
  BY <1>10 DEF ReceiveBlank, asking, bounds, At, Own
<1>3. s \in Sockets
  BY <1>1, <1>2, <1>10 DEF CallerWorks
<1>4. Settles(g, Failed(g))
  BY <1>1, FailedSettles DEF Typed
<1>5. CallersKeep({g}) /\ go'[g] = Failed(g)
  BY <1>1, <1>2, <1>4, OneChanges DEF Typed, Settles
<1>6. Touched(s) /\ Quiet(s)
  BY <1>1, <1>2, <1>3, ReceivedSocket DEF Socket1
<1>7. Later
  BY <1>1, <1>2 DEF Later, Typed
<1>8. \A h \in Callers : CallerAged(h)' /\ Fresh(h)
  BY <1>1, <1>4, <1>5, <1>7, MoverAged
<1>9. cleared' <= played' /\ StaleIsExplained'
  BY <1>2, <1>7, ClearedRests
<1> QED
  BY <1>3, <1>6, <1>7, <1>8, <1>9, AgedStep

LEMMA StoreSeenAged ==
  ASSUME Work, Work', Aged, StoreSeen
  PROVE  Aged'
<1>1. Typed /\ CallerWorks(Viewer) /\ CallerAged(Viewer) /\ Viewer \in Callers
  BY Names DEF Work, Aged
<1>10. PICK s : s = go[Viewer].socket
  OBVIOUS
<1>2. /\ go[Viewer].pc = "store" /\ sockets' = Unlocked(sockets, Viewer, s)
      /\ go' = [go EXCEPT ![Viewer] = Idle] /\ Remember(Viewer)
      /\ UNCHANGED <<cleared, played, events>>
  BY <1>10 DEF StoreSeen, bounds, At, Own
<1>3. s \in Sockets /\ go[Viewer].ok
  BY <1>1, <1>2, <1>10 DEF CallerWorks, CallerAged
<1>5. CallersKeep({Viewer}) /\ go'[Viewer] = Idle
  BY <1>1, <1>2, IdleEffect DEF Typed
<1>6. Touched(s) /\ Quiet(s)
  BY <1>1, <1>2, <1>3, UnlockedSocket DEF Socket1
<1>7. Later
  BY <1>1, <1>2 DEF Later, Typed
<1>8. \A h \in Callers : CallerAged(h)' /\ Fresh(h)
  BY <1>1, <1>5, <1>7, IdleTyped, BeginnerAged
<1>9. StaleIsExplained'
  BY <1>1, <1>2, <1>3, RememberExplained
<1>11. cleared' <= played'
  BY <1>2 DEF Aged
<1> QED
  BY <1>3, <1>6, <1>7, <1>8, <1>9, <1>11, AgedStep

LEMMA StoreAged ==
  ASSUME Work, Work', Aged, NEW r \in Readers, Store(r)
  PROVE  Aged'
<1> DEFINE G == Followers(r) \cup {r}
<1>1. Typed /\ r \in Callers
  BY Names DEF Work
<1>2. /\ G \subseteq Readers /\ r \in G /\ UNCHANGED <<sockets, played, events, cleared>>
      /\ \A h \in Callers \ G : go'[h] = go[h]
      /\ \A h \in G : go'[h] = Idle
  BY <1>1, StoreEffect
<1> HIDE DEF G
<1>3. CallersKeep(G)
  BY <1>2 DEF CallersKeep
<1>4. Later
  BY <1>1, <1>2 DEF Later, Typed
<1>5. \A h \in Callers \ G : CallerAged(h)' /\ Fresh(h)
  BY <1>3, <1>4, OthersAged
<1>6. ASSUME NEW h \in G
      PROVE  CallerAged(h)' /\ Fresh(h)
  <2>1. go'[h] = Idle /\ events' \in Nat /\ played' \in Nat /\ h # Viewer
    BY <1>1, <1>2, Names DEF Typed
  <2> QED
    BY <2>1, IdleTyped DEF CallerAged, Fresh
<1>7. StaleIsExplained'
  <2>1. CASE go[r].ok
    <3>1. Remember(r)
      BY <2>1 DEF Store
    <3> QED
      BY <1>1, <1>2, <2>1, <3>1, RememberExplained
  <2>2. CASE ~go[r].ok
    <3>1. UNCHANGED known
      BY <2>2 DEF Store
    <3> QED
      BY <1>2, <3>1, StaleRests DEF Aged
  <2> QED
    BY <2>1, <2>2
<1>8. cleared' <= played'
  BY <1>2 DEF Aged
<1> QED
  BY <1>2, <1>4, <1>5, <1>6, <1>7, <1>8, AgedRests

\* What the provider answers counts what was played before the call began.
LEMMA ServeAged ==
  ASSUME Work, Work', Aged, NEW s \in Sockets, Serve(s)
  PROVE  Aged'
<1> DEFINE request == Head(sockets[s].requests)
           count == IF request.kind = "bet" THEN played + 1 ELSE played
           message == [kind |-> request.kind, id |-> request.id, value |-> count]
           q == sockets[s].requests
           a == sockets[s].incoming
<1>1. /\ Typed /\ Typed' /\ SocketOK(sockets[s])
      /\ played \in Nat /\ events \in Nat
  BY DEF Work, Typed
<1>2. /\ q # <<>>
      /\ sockets' = [sockets EXCEPT ![s].requests = Tail(@), ![s].incoming =
           IF sockets[s].open /\ ~sockets[s].broken THEN Append(@, message) ELSE @]
      /\ played' = count
      /\ UNCHANGED <<go, known, cleared, events>>
  BY DEF Serve, calling, bounds
<1>3. count \in Nat /\ played <= count
  BY <1>1
<1> HIDE DEF count
<1>4. sockets[s].open => request \in Request /\ message \in Message
  <2>1. sockets[s].open => request \in Request
    BY <1>1, <1>2 DEF SocketOK
  <2> QED
    BY <1>3, <2>1 DEF Request, Message
<1>5. message.id = request.id /\ message.value = played'
  BY <1>2
<1>6. Later
  BY <1>1, <1>2, <1>3 DEF Later
<1>7. \A h \in Callers : CallerAged(h)' /\ Fresh(h)
  <2>1. CallersKeep({})
    BY <1>2, NoneChanges
  <2> QED
    BY <1>6, <2>1, OthersAged
<1>8. cleared' <= played' /\ StaleIsExplained'
  BY <1>2, <1>6, ClearedRests
<1>14. request = Head(q)
  OBVIOUS
<1> HIDE DEF message, request
<1>9. /\ Touched(s) /\ sockets'[s].open = sockets[s].open
      /\ sockets'[s].requests = Tail(q)
      /\ \/ sockets'[s].incoming = a
         \/ (sockets[s].open /\ sockets'[s].incoming = Append(a, message))
  BY <1>1, <1>2, <1>4, ServedSocket
<1>10. ASSUME sockets[s].open
       PROVE  /\ StillFine(message)
              /\ \A i \in DOMAIN Tail(q) : Tail(q)[i].id <= events'
  <2>1. q \in Seq(Request) /\ q # <<>> /\ \A i \in DOMAIN q : q[i].id <= events
    BY <1>1, <1>2, <1>10 DEF SocketOK, Aged, AnswersFine
  <2> HIDE DEF q, a
  <2>2. 1 \in DOMAIN q /\ request = q[1]
    BY <1>14, <2>1
  <2>3. \A i \in DOMAIN Tail(q) : i + 1 \in DOMAIN q /\ Tail(q)[i] = q[i + 1]
    BY <2>1
  <2>4. \A i \in DOMAIN Tail(q) : Tail(q)[i].id <= events'
    BY <1>2, <2>1, <2>3
  <2>5. message.id <= events'
    BY <1>2, <1>5, <2>1, <2>2
  <2>6. message.value <= played'
    BY <1>2, <1>3, <1>5
  <2>7. \A h \in Callers : go'[h].since <= message.value
    BY <1>5, <1>7 DEF CallerAged
  <2> QED
    BY <2>4, <2>5, <2>6, <2>7 DEF StillFine
<1>11. \A i \in DOMAIN a : StillFine(a[i])
  <2> SUFFICES ASSUME NEW i \in DOMAIN a
               PROVE  StillFine(a[i])
    OBVIOUS
  <2>1. PICK m : m = a[i]
    OBVIOUS
  <2>2. m \in Message /\ AnswerFine(m)
    BY <1>1, <2>1 DEF SocketOK, Aged, AnswersFine
  <2> QED
    BY <1>1, <1>6, <1>7, <2>1, <2>2, AnswerRests
<1>12. AnswersFine(s)'
  <2>1. \A i \in DOMAIN sockets'[s].incoming : StillFine(sockets'[s].incoming[i])
    <3>1. CASE sockets'[s].incoming = a
      BY <1>11, <3>1
    <3>2. CASE sockets[s].open /\ sockets'[s].incoming = Append(a, message)
      <4>1. a \in Seq(Message) /\ StillFine(message)
        BY <1>1, <1>10, <3>2 DEF SocketOK
      <4> DEFINE b == sockets'[s].incoming
      <4> HIDE DEF a, b
      <4>2. b = Append(a, message)
        BY <3>2 DEF b
      <4>3. \A i \in DOMAIN b : (i \in DOMAIN a /\ b[i] = a[i]) \/ b[i] = message
        BY <4>1, <4>2
      <4>4. \A i \in DOMAIN b : StillFine(b[i])
        BY <1>11, <4>1, <4>3
      <4> QED
        BY <4>4 DEF b
    <3> QED
      BY <1>9, <3>1, <3>2
  <2>2. sockets'[s].open =>
          \A i \in DOMAIN sockets'[s].requests : sockets'[s].requests[i].id <= events'
    BY <1>9, <1>10
  <2> QED
    BY <2>1, <2>2, AnswersFineNext
<1>13. ASSUME NEW t \in Sockets \ {s}
       PROVE  AnswersFine(t)'
  <2>1. Quiet(t)
    BY <1>9 DEF Touched, Quiet
  <2>2. AnswersFine(t)
    BY DEF Aged
  <2> QED
    BY <1>6, <1>7, <2>1, <2>2, AnswersRest
<1> QED
  BY <1>7, <1>8, <1>12, <1>13 DEF Aged

LEMMA SocketsAged ==
  ASSUME Work, Work', Aged, NEW s \in Sockets, Break(s) \/ ReaderDrops(s) \/ ReaderCloses(s)
  PROVE  Aged'
<1>1. Typed
  BY DEF Work
<1>2. /\ Touched(s) /\ Quiet(s) /\ CallersKeep({}) /\ UNCHANGED <<known, cleared, played>>
      /\ events' \in {events, events + 1}
  <2>1. CASE Break(s)
    <3>1. UNCHANGED <<go, known, cleared, played>> /\ events' = events + 1
          /\ sockets' = [sockets EXCEPT ![s].broken = TRUE]
      BY <2>1 DEF Break, calling
    <3> QED
      BY <1>1, <3>1, BrokenSocket, NoneChanges DEF Socket1
  <2>2. CASE ReaderDrops(s)
    <3>1. UNCHANGED <<go, known, cleared, played, events>>
          /\ sockets' = [sockets EXCEPT ![s].reader = "close"]
      BY <2>2 DEF ReaderDrops, bounds
    <3> QED
      BY <1>1, <3>1, ReaderSocket, NoneChanges DEF Socket1
  <2>3. CASE ReaderCloses(s)
    <3>1. go' = Scheduled(go) /\ sockets' = [Stop(s) EXCEPT ![s].reader = "over"]
          /\ UNCHANGED <<known, cleared, played, events>>
      BY <2>3 DEF ReaderCloses, bounds
    <3>2. CallersKeep({})
      BY <1>1, <3>1, LoopStarts DEF Typed
    <3> QED
      BY <1>1, <3>1, <3>2, OverSocket DEF Socket1
  <2> QED
    BY <2>1, <2>2, <2>3
<1>3. Later
  BY <1>1, <1>2 DEF Later, Typed
<1>4. \A h \in Callers : CallerAged(h)' /\ Fresh(h)
  BY <1>2, <1>3, OthersAged
<1> QED
  BY <1>2, <1>3, <1>4, ClearedRests, AgedStep

\* What a call reads, if it is its own answer, is not from before the call began.
LEMMA ReceiveAged ==
  ASSUME Work, Work', Aged, NEW g \in Callers, Receive(g)
  PROVE  Aged'
<1>1. Typed /\ CallerWorks(g) /\ CallerAged(g)
  BY DEF Work, Aged
<1>2. PICK s : s = go[g].socket
  OBVIOUS
<1>3. PICK m : m = Head(sockets[s].incoming)
  OBVIOUS
<1>4. /\ go[g].pc = "wait" /\ sockets[s].incoming # <<>>
      /\ UNCHANGED <<played, events>>
      /\ \/ /\ sockets' = [sockets EXCEPT ![s].incoming = Tail(@)]
            /\ UNCHANGED <<go, known, cleared>>
         \/ /\ g = Bettor
            /\ sockets' = Unlocked([sockets EXCEPT ![s].incoming = Tail(@)], g, s)
            /\ go' = [go EXCEPT ![g] = [Idle EXCEPT !.id = go[g].id, !.got = m.id]]
            /\ known' = Nothing /\ cleared' = m.value
         \/ /\ g # Bettor
            /\ \/ sockets' = Unlocked([sockets EXCEPT ![s].incoming = Tail(@)], g, s)
               \/ sockets' = [sockets EXCEPT ![s].incoming = Tail(@)]
            /\ go' = [go EXCEPT ![g].pc = "store", ![g].ok = TRUE, ![g].value = m.value,
                                ![g].mine = m.id = go[g].id]
            /\ UNCHANGED <<known, cleared>>
  <2>1. ReceiveDoes(g, s, m)
    BY <1>1, <1>2, <1>3, ReceiveEffect
  <2> QED
    BY <2>1 DEF ReceiveDoes
<1>5. s \in Sockets
  BY <1>1, <1>2, <1>4 DEF CallerWorks
<1>6. m.id \in Nat /\ m.value \in Nat /\ 1 \in DOMAIN sockets[s].incoming
      /\ m = sockets[s].incoming[1]
  BY <1>1, <1>3, <1>4, <1>5, HeadMessage
<1>7. Later
  BY <1>1, <1>4 DEF Later, Typed
<1>8. Touched(s) /\ Quiet(s)
  <2>1. CASE sockets' = [sockets EXCEPT ![s].incoming = Tail(@)]
    BY <1>1, <1>4, <1>5, <2>1, TakenSocket DEF Socket1
  <2>2. CASE sockets' = Unlocked([sockets EXCEPT ![s].incoming = Tail(@)], g, s)
    BY <1>1, <1>4, <1>5, <2>2, ReceivedSocket DEF Socket1
  <2> QED
    BY <1>4, <2>1, <2>2
<1>9. AnswerFine(m)
  BY <1>5, <1>6 DEF Aged, AnswersFine
<1>10. CASE UNCHANGED <<go, known, cleared>>
  <2>1. CallersKeep({})
    BY <1>10, NoneChanges
  <2>2. \A h \in Callers : CallerAged(h)' /\ Fresh(h)
    BY <1>7, <2>1, OthersAged
  <2> QED
    BY <1>5, <1>7, <1>8, <1>10, <2>2, ClearedRests, AgedStep
<1>11. CASE /\ g = Bettor
            /\ go' = [go EXCEPT ![g] = [Idle EXCEPT !.id = go[g].id, !.got = m.id]]
            /\ known' = Nothing /\ cleared' = m.value
  <2>1. /\ CallersKeep({g}) /\ go'[g].id = go[g].id /\ go'[g].since = 0
        /\ go'[g].ok = FALSE /\ go'[g].pc = "idle"
    <3>1. go' = BetDone(g, m.id)
      BY <1>11 DEF BetDone
    <3> QED
      BY <1>1, <1>6, <3>1, BetAnswered DEF Typed
  <2>2. \A h \in Callers : CallerAged(h)' /\ Fresh(h)
    BY <1>7, <2>1, BeginnerAged
  <2>3. cleared' <= played'
    BY <1>4, <1>9, <1>11 DEF AnswerFine
  <2>4. StaleIsExplained'
    BY <1>11 DEF StaleIsExplained, Nothing
  <2> QED
    BY <1>5, <1>7, <1>8, <2>2, <2>3, <2>4, AgedStep
<1>12. CASE /\ go' = [go EXCEPT ![g].pc = "store", ![g].ok = TRUE, ![g].value = m.value,
                                ![g].mine = m.id = go[g].id]
            /\ UNCHANGED <<known, cleared>>
  <2> DEFINE b == m.id = go[g].id
  <2>1. b \in BOOLEAN
    OBVIOUS
  <2>2. go' = Answered(g, m.value, b)
    BY <1>12 DEF Answered
  <2>3. b => go[g].since <= m.value
    BY <1>9 DEF AnswerFine
  <2> HIDE DEF b
  <2>4. /\ CallersKeep({g}) /\ go'[g].id = go[g].id /\ go'[g].since = go[g].since
        /\ go'[g].ok = TRUE /\ go'[g].value = m.value /\ go'[g].mine = b
    BY <1>1, <1>6, <2>1, <2>2, BalanceAnswered DEF Typed
  <2>5. CallerAged(g)' /\ Fresh(g)
    BY <1>1, <1>4, <2>3, <2>4 DEF CallerAged, Fresh
  <2>6. \A h \in Callers : CallerAged(h)' /\ Fresh(h)
    BY <1>7, <2>4, <2>5, OthersAged
  <2> QED
    BY <1>5, <1>7, <1>8, <1>12, <2>6, ClearedRests, AgedStep
<1> QED
  BY <1>4, <1>10, <1>11, <1>12

LEMMA ReadersAged ==
  ASSUME Work, Work', Aged, NEW r \in Readers, Ask(r) \/ LeavesFlight(r)
  PROVE  Aged'
<1>1. Typed /\ r \in Callers /\ r # Viewer
  BY Names DEF Work
<1>2. CASE Ask(r)
  <2>1. /\ events' = events + 1 /\ CallersKeep({r})
        /\ \/ go' = go
           \/ go'[r].id = events' /\ go'[r].since = cleared /\ go'[r].ok = FALSE
        /\ UNCHANGED <<sockets, played, cleared, known>>
    BY <1>1, <1>2, AskEffect
  <2>2. Later
    BY <1>1, <2>1 DEF Later, Typed
  <2>3. \A h \in Callers : CallerAged(h)' /\ Fresh(h)
    <3>1. CASE go' = go
      <4>1. CallersKeep({})
        BY <3>1 DEF CallersKeep
      <4> QED
        BY <2>2, <4>1, OthersAged
    <3>2. CASE go'[r].id = events' /\ go'[r].since = cleared /\ go'[r].ok = FALSE
      BY <1>1, <2>1, <2>2, <3>2, BeginnerAged
    <3> QED
      BY <2>1, <3>1, <3>2
  <2> QED
    BY <2>1, <2>2, <2>3, ClearedRests, AgedRests
<1>3. CASE LeavesFlight(r)
  <2>1. UNCHANGED <<sockets, played, cleared, known, events>> /\ go' = [go EXCEPT ![r] = Idle]
    BY <1>3 DEF LeavesFlight, staying
  <2>2. CallersKeep({r}) /\ go'[r] = Idle
    BY <1>1, <2>1, IdleEffect DEF Typed
  <2>3. Later
    BY <1>1, <2>1 DEF Later, Typed
  <2>4. \A h \in Callers : CallerAged(h)' /\ Fresh(h)
    BY <1>1, <2>2, <2>3, IdleTyped, BeginnerAged
  <2> QED
    BY <2>1, <2>3, <2>4, ClearedRests, AgedRests
<1> QED
  BY <1>2, <1>3

LEMMA BeginnersAged ==
  ASSUME Work, Work', Aged, Look \/ PlaceBet
  PROVE  Aged'
<1>1. Typed /\ Viewer \in Callers /\ Bettor \in Callers /\ Viewer # Bettor
  BY Names DEF Work
<1>2. PICK g \in Callers :
        /\ events' = events + 1 /\ CallersKeep({g})
        /\ go'[g].pc = "ensure" /\ go'[g].id = events' /\ go'[g].ok = FALSE
        /\ go'[g].since \in {0, cleared}
        /\ UNCHANGED <<sockets, played, cleared, known>>
  <2>1. CASE Look
    BY <1>1, <2>1, LookEffect
  <2>2. CASE PlaceBet
    BY <1>1, <2>2, PlaceBetEffect
  <2> QED
    BY <2>1, <2>2
<1>3. Later
  BY <1>1, <1>2 DEF Later, Typed
<1>4. \A h \in Callers : CallerAged(h)' /\ Fresh(h)
  BY <1>2, <1>3, BeginnerAged
<1> QED
  BY <1>2, <1>3, <1>4, ClearedRests, AgedRests

LEMMA OthersStepAged ==
  ASSUME Work, Work', Aged, DropUserSocket \/ LoopEnds \/ Expire \/ UNCHANGED vars
  PROVE  Aged'
<1>1. Typed /\ Login \in Callers /\ Loop \in Callers /\ Viewer \notin {Login, Loop}
  BY Names DEF Work
<1>2. CASE DropUserSocket
  <2>1. /\ events' = events + 1 /\ CallersKeep({Login})
        /\ \/ go' = go
           \/ go'[Login].id = 0 /\ go'[Login].since = 0 /\ go'[Login].ok = FALSE
        /\ UNCHANGED <<sockets, played, cleared>> /\ known' = Nothing
    BY <1>1, <1>2, DropUserSocketEffect
  <2>2. Later
    BY <1>1, <2>1 DEF Later, Typed
  <2>3. \A h \in Callers : CallerAged(h)' /\ Fresh(h)
    <3>1. CASE go' = go
      <4>1. CallersKeep({})
        BY <3>1 DEF CallersKeep
      <4> QED
        BY <2>2, <4>1, OthersAged
    <3>2. CASE go'[Login].id = 0 /\ go'[Login].since = 0 /\ go'[Login].ok = FALSE
      BY <1>1, <2>1, <2>2, <3>2, BeginnerAged
    <3> QED
      BY <2>1, <3>1, <3>2
  <2>4. StaleIsExplained' /\ cleared' <= played'
    BY <2>1 DEF StaleIsExplained, Nothing, Aged
  <2> QED
    BY <2>1, <2>2, <2>3, <2>4, AgedRests
<1>3. CASE LoopEnds
  <2>1. UNCHANGED <<sockets, played, cleared, known, events>>
        /\ go' = [go EXCEPT ![Loop] = Idle]
    BY <1>3 DEF LoopEnds, staying
  <2>2. CallersKeep({Loop}) /\ go'[Loop] = Idle
    BY <1>1, <2>1, IdleEffect DEF Typed
  <2>3. Later
    BY <1>1, <2>1 DEF Later, Typed
  <2>4. \A h \in Callers : CallerAged(h)' /\ Fresh(h)
    BY <1>1, <2>2, <2>3, IdleTyped, BeginnerAged
  <2> QED
    BY <2>1, <2>3, <2>4, ClearedRests, AgedRests
<1>4. CASE Expire \/ UNCHANGED vars
  <2>1. UNCHANGED <<sockets, played, cleared, known, events, go>>
    BY <1>4 DEF Expire, staying, vars
  <2>2. CallersKeep({})
    BY <2>1, NoneChanges
  <2>3. Later
    BY <1>1, <2>1 DEF Later, Typed
  <2>4. \A h \in Callers : CallerAged(h)' /\ Fresh(h)
    BY <2>2, <2>3, OthersAged
  <2> QED
    BY <2>1, <2>3, <2>4, ClearedRests, AgedRests
<1> QED
  BY <1>2, <1>3, <1>4

LEMMA InitAged ==
  ASSUME Init
  PROVE  Aged
<1>1. /\ sockets = [s \in Sockets |-> NoSocket] /\ go = [g \in Callers |-> Idle]
      /\ played = 0 /\ cleared = 0 /\ events = 0 /\ known = Nothing
  BY DEF Init
<1>2. Idle.id = 0 /\ Idle.since = 0 /\ Idle.ok = FALSE /\ Idle.pc = "idle"
  BY IdleTyped
<1>3. NoSocket.incoming = <<>> /\ NoSocket.open = FALSE
  BY DEF NoSocket
<1> HIDE DEF NoSocket, Idle
<1>4. \A s \in Sockets : AnswersFine(s)
  BY <1>1, <1>3 DEF AnswersFine
<1>5. \A g \in Callers : CallerAged(g)
  BY <1>1, <1>2 DEF CallerAged
<1>6. StaleIsExplained
  BY <1>1 DEF StaleIsExplained, Nothing
<1> QED
  BY <1>1, <1>4, <1>5, <1>6 DEF Aged

LEMMA NextAged ==
  ASSUME Work, Work', Aged, [Next]_vars
  PROVE  Aged'
<1>1. ASSUME NEW g \in Callers,
             \/ Ensure(g) \/ Dial(g) \/ Write(g) \/ Receive(g) \/ GivesUp(g)
             \/ Drop(g) \/ Close(g) \/ Cancel(g)
      PROVE  Aged'
  BY <1>1, MoversAged, DialAged, WriteAged, ReceiveAged, CloseAged, CancelAged
<1>2. ASSUME NEW s \in Sockets,
             Serve(s) \/ Break(s) \/ ReaderDrops(s) \/ ReaderCloses(s)
      PROVE  Aged'
  BY <1>2, ServeAged, SocketsAged
<1>3. ASSUME NEW r \in Readers, Ask(r) \/ LeavesFlight(r) \/ ReceiveBlank(r) \/ Store(r)
      PROVE  Aged'
  BY <1>3, ReadersAged, BlankAged, StoreAged
<1>4. CASE Look \/ StoreSeen \/ PlaceBet \/ DropUserSocket \/ LoopEnds \/ Expire
  BY <1>4, StoreSeenAged, BeginnersAged, OthersStepAged
<1>5. CASE UNCHANGED vars
  BY <1>5, OthersStepAged
<1> QED
  BY <1>1, <1>2, <1>3, <1>4, <1>5, NextCases

\* An answer to a call counts every bet that was settled when the call began.
THEOREM AgedHolds == Spec => []Aged
BY InitAged, NextAged, WorkHolds, PTL DEF Spec

\* A balance kept from before the last bet is one whose read the bet overtook, or the
\* late answer to a request that was cancelled (client.go ClearBalanceCache).
THEOREM StaleIsExplainedHolds == Spec => []StaleIsExplained
<1>1. Aged => StaleIsExplained
  BY DEF Aged
<1> QED
  BY <1>1, AgedHolds, PTL

====
