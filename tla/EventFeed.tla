------------------------------ MODULE EventFeed ------------------------------
(***************************************************************************)
(* The live events of one user: rows of trading_events, the notification   *)
(* the insert sends at commit, the one listener of the process and the     *)
(* channels it publishes to (internal/trading/events.go), and the browsers *)
(* that read them: an event stream that is resumed after the last id it    *)
(* got (tradingEvents), and a websocket that is not (realtime,             *)
(* internal/user/trading.go).                                              *)
(*                                                                         *)
(* Ids are taken when a row is inserted and rows are seen when they are    *)
(* committed, so two workers may commit in the other order.  A connection  *)
(* may break at any time; the browser connects again.                      *)
(***************************************************************************)
EXTENDS Naturals, FiniteSets, FiniteSetsExt, SequencesExt

CONSTANTS
    Browsers,     \* connections of the user's open pages
    Resuming,     \* those that are event streams and send Last-Event-ID
    Capacity,     \* events a subscriber's channel holds (32 in the code)
    Limit,        \* rows EventsAfter returns at most (200 in the code)
    MaxEvents,    \* bound: events
    MaxBreaks,    \* bound: connections to a browser that break
    MaxOutages    \* bound: failures of the listener and of its queries

ASSUME FeedAssumption ==
    /\ Resuming \subseteq Browsers
    /\ {Capacity, Limit, MaxEvents} \subseteq Nat \ {0}
    /\ {MaxBreaks, MaxOutages} \subseteq Nat

VARIABLES
    inserted,   \* number of ids taken
    open,       \* ids whose row is not committed yet
    table,      \* ids of the committed rows
    listening,  \* the listener holds a connection on which it said LISTEN
    notices,    \* notifications on that connection, in order of commit
    stream,     \* state of each browser's connection
    channel,    \* events in each subscriber's channel
    lastId,     \* id of the event each browser received last
    seen,       \* ids each browser has received
    breaks, outages,
    excused     \* history: ids a browser may miss, each for a stated reason

vars == <<inserted, open, table, listening, notices, stream, channel,
          lastId, seen, breaks, outages, excused>>

Ids == 1..MaxEvents

TypeOK ==
    /\ inserted \in 0..MaxEvents
    /\ open \subseteq 1..inserted /\ table \subseteq (1..inserted) \ open
    /\ listening \in BOOLEAN
    /\ notices \in Seq(table) /\ (~listening => notices = <<>>)
    /\ stream \in [Browsers -> {"closed", "replay", "flush", "live"}]
    /\ \A b \in Browsers :
           /\ channel[b] \in Seq(table) /\ Len(channel[b]) <= Capacity
           /\ stream[b] = "closed" => channel[b] = <<>>
           /\ lastId[b] \in seen[b] \cup {0}
           /\ seen[b] \subseteq table /\ excused[b] \subseteq table
    /\ breaks \in 0..MaxBreaks /\ outages \in 0..MaxOutages

Init ==
    /\ inserted = 0 /\ open = {} /\ table = {}
    /\ listening = FALSE /\ notices = <<>>
    /\ stream = [b \in Browsers |-> "closed"]
    /\ channel = [b \in Browsers |-> <<>>]
    /\ lastId = [b \in Browsers |-> 0]
    /\ seen = [b \in Browsers |-> {}]
    /\ breaks = 0 /\ outages = 0
    /\ excused = [b \in Browsers |-> {}]

rows == <<inserted, open, table>>
listener == <<listening, notices>>
received == <<lastId, seen>>

Excuse(ids, browsers) ==
    excused' = [b \in Browsers |->
                   excused[b] \cup IF b \in browsers THEN ids ELSE {}]

-----------------------------------------------------------------------------
(* PublishEvent and the trigger on trading_events.                         *)

Insert ==
    /\ inserted < MaxEvents
    /\ inserted' = inserted + 1 /\ open' = open \cup {inserted'}
    /\ UNCHANGED <<table, listener, stream, channel, received, breaks, outages, excused>>

\* The row is committed and its id notified.  Excused: nobody listens, or a larger
\* id was committed before.
Commit(id) ==
    /\ id \in open
    /\ open' = open \ {id} /\ table' = table \cup {id}
    /\ notices' = IF listening THEN Append(notices, id) ELSE notices
    /\ IF ~listening \/ \E later \in table : later > id
       THEN Excuse({id}, Browsers) ELSE UNCHANGED excused
    /\ UNCHANGED <<inserted, listening, stream, channel, received, breaks, outages>>

-----------------------------------------------------------------------------
(* ListenEvents.                                                           *)

Listen ==
    /\ ~listening /\ listening' = TRUE
    /\ UNCHANGED <<rows, notices, stream, channel, received, breaks, outages, excused>>

\* WaitForNotification fails: what the connection still held is lost.
ListenerBreaks ==
    /\ listening /\ listening' = FALSE
    /\ outages < MaxOutages /\ outages' = outages + 1
    /\ Excuse(ToSet(notices), Browsers)
    /\ notices' = <<>>
    /\ UNCHANGED <<rows, stream, channel, received, breaks>>

\* mutant of Subscribed: the event stream subscribes after its replay
AfterReplay(b) == stream[b] = "live"

\* A connection's channel is in byUser from the moment it is served.
Subscribed(b) == stream[b] # "closed"

\* mutant of HasRoom: a full channel of one browser stops the publishing
AllHaveRoom(b) == \A a \in Browsers : Subscribed(a) => Len(channel[a]) < Capacity

HasRoom(b) == Len(channel[b]) < Capacity

\* publish offers the event to each channel and skips the full ones.
Forward ==
    /\ notices # <<>>
    /\ notices' = Tail(notices)
    /\ channel' = [b \in Browsers |-> IF Subscribed(b) /\ HasRoom(b)
                                      THEN Append(channel[b], Head(notices))
                                      ELSE channel[b]]
    /\ Excuse({Head(notices)}, {b \in Browsers : Subscribed(b) /\ Len(channel[b]) = Capacity})
    /\ UNCHANGED <<rows, listening, stream, received, breaks, outages>>

\* The row cannot be read again: the notification is dropped.
ForwardFails ==
    /\ notices # <<>>
    /\ notices' = Tail(notices)
    /\ outages < MaxOutages /\ outages' = outages + 1
    /\ Excuse({Head(notices)}, Browsers)
    /\ UNCHANGED <<rows, listening, stream, channel, received, breaks>>

-----------------------------------------------------------------------------
(* A browser's connection.                                                 *)

\* WHERE user_id=$1 AND id>$2
Missed(b) == {id \in table : id > lastId[b]}

\* ORDER BY id LIMIT n
FirstOf(ids, n) == {id \in ids : Cardinality({e \in ids : e < id}) < n}

Receive(b, ids) ==
    /\ seen' = [seen EXCEPT ![b] = @ \cup ids]
    /\ lastId' = [lastId EXCEPT ![b] = IF ids = {} THEN @ ELSE Max(ids)]

\* A websocket starts with what comes next: what was committed so far is
\* excused.
ConnectSocket(b) ==
    /\ b \notin Resuming /\ stream[b] = "closed"
    /\ stream' = [stream EXCEPT ![b] = "live"]
    /\ Excuse(table, {b})
    /\ UNCHANGED <<rows, listener, channel, received, breaks, outages>>

\* An event stream subscribes before it replays.
ConnectStream(b) ==
    /\ b \in Resuming /\ stream[b] = "closed"
    /\ stream' = [stream EXCEPT ![b] = "replay"]
    /\ UNCHANGED <<rows, listener, channel, received, breaks, outages, excused>>

\* EventsAfter(lastID) and the rows it returned, sent one by one; the
\* connection may break after any of them.  Excused: without a Last-Event-ID
\* everything so far, and what is past the LIMIT.
Replay(b) ==
    LET replayed == IF lastId[b] = 0 THEN {} ELSE FirstOf(Missed(b), Limit) IN
    /\ stream[b] = "replay"
    /\ \/ /\ Receive(b, replayed)
          /\ Excuse(Missed(b) \ replayed, {b})
          /\ stream' = [stream EXCEPT ![b] = "flush"]
          /\ UNCHANGED <<channel, breaks>>
       \/ \E n \in 0..Cardinality(replayed) :
              /\ Receive(b, FirstOf(replayed, n))
              /\ stream' = [stream EXCEPT ![b] = "closed"]
              /\ channel' = [channel EXCEPT ![b] = <<>>]
              /\ breaks < MaxBreaks /\ breaks' = breaks + 1
              /\ UNCHANGED excused
    /\ UNCHANGED <<rows, listener, outages>>

\* EventsAfter fails: the stream goes on without a replay.
ReplayFails(b) ==
    /\ stream[b] = "replay" /\ lastId[b] # 0
    /\ outages < MaxOutages /\ outages' = outages + 1
    /\ Excuse(Missed(b), {b})
    /\ stream' = [stream EXCEPT ![b] = "flush"]
    /\ UNCHANGED <<rows, listener, channel, received, breaks>>

\* The replay is flushed and the loop over the live events begins.
Flush(b) ==
    /\ stream[b] = "flush"
    /\ stream' = [stream EXCEPT ![b] = "live"]
    /\ UNCHANGED <<rows, listener, channel, received, breaks, outages, excused>>

\* case event := <-events
Deliver(b) ==
    /\ stream[b] = "live" /\ channel[b] # <<>>
    /\ Receive(b, {Head(channel[b])})
    /\ channel' = [channel EXCEPT ![b] = Tail(@)]
    /\ UNCHANGED <<rows, listener, stream, breaks, outages, excused>>

\* The connection ends, the channel is taken out of byUser with what is in it.
\* What a websocket loses is excused when it connects again.
Disconnect(b) ==
    /\ stream[b] = "live"
    /\ breaks < MaxBreaks /\ breaks' = breaks + 1
    /\ stream' = [stream EXCEPT ![b] = "closed"]
    /\ channel' = [channel EXCEPT ![b] = <<>>]
    /\ UNCHANGED <<rows, listener, received, outages, excused>>

Browser(b) ==
    \/ ConnectSocket(b)
    \/ ConnectStream(b)
    \/ Replay(b)
    \/ ReplayFails(b)
    \/ Flush(b)
    \/ Deliver(b)

Next ==
    \/ Insert
    \/ \E id \in Ids : Commit(id)
    \/ Listen \/ ListenerBreaks \/ Forward \/ ForwardFails
    \/ \E b \in Browsers : Browser(b) \/ Disconnect(b)

\* The listener's loop tries again after a second, takes the notifications
\* that are there, and a page that is open connects again and reads.
Fairness ==
    /\ WF_vars(Listen) /\ WF_vars(Forward)
    /\ \A b \in Browsers : WF_vars(Browser(b))

Spec == Init /\ [][Next]_vars /\ Fairness

-----------------------------------------------------------------------------
(* Properties.                                                             *)

\* An event stream that has moved past an event without receiving it has lost
\* it for one of the stated reasons: the listener was down or could not read
\* it, the channel was full, a larger id was committed first, the replay was
\* cut at its limit or failed, or there was no Last-Event-ID yet.  The gap
\* between a replay and the live events is none of them (subscribe comes
\* before EventsAfter).
GapIsExplained ==
    \A b \in Resuming : \A id \in table :
        id < lastId[b] /\ id \notin seen[b] => id \in excused[b]

\* A browser that does not read delays no other: every committed event reaches
\* each open page or is excused for it (publish's default case, the replay,
\* the retry of ListenEvents).
EveryEventArrives ==
    \A b \in Browsers, id \in Ids : id \in table ~> id \in seen[b] \cup excused[b]
=============================================================================
