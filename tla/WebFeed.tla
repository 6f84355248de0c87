------------------------------ MODULE WebFeed ------------------------------
(***************************************************************************)
(* The transcript of one world in a paired browser: the history that the   *)
(* web Gateway (gateway_web.py) sends when the browser connects, the live  *)
(* events that follow, connections that break at any message, and what the *)
(* browser (web/app.mjs) keeps.  The history itself is EventHistory; here  *)
(* it is a log of which the oldest events are dropped at any time.         *)
(***************************************************************************)
EXTENDS Naturals, Sequences, FiniteSets, FiniteSetsExt

CONSTANTS
    SnapshotLimit,      \* snapshot_events
    FitLimit,           \* events that fit into MAX_WEB_SNAPSHOT_BYTES
    QueueLimit,         \* subscriber_queue_size
    MaxLog,             \* bound: events published
    MaxWorldGenerations,\* bound: connections of the world
    MaxConnects,        \* bound: connections of the browser
    MaxEvicted          \* bound: events dropped from the history

ASSUME WebFeedAssumption ==
    /\ SnapshotLimit \in Nat \ {0} /\ FitLimit \in Nat /\ QueueLimit \in Nat \ {0} /\ MaxLog \in Nat
    /\ MaxWorldGenerations \in Nat /\ MaxConnects \in Nat /\ MaxEvicted \in Nat

VARIABLES
    log,         \* ghost: all events, each with its generation and whether a browser may see it
    worldGen,    \* connection_generation of the world
    evicted,     \* events 1..evicted are no longer in the history
    snapshot,    \* the snapshot of the subscription, until the hello
    liveQueue,   \* subscription.queue; 0 is the end of the stream
    stream,      \* messages of the Gateway on their way to the browser
    session,     \* "closed", "subscribed" or "sending"
    browser,     \* the page: cursor (0: none), ready, generation, events
    blind,       \* ghost: it connected without a cursor although it had events
    connects     \* connections so far, bounded

webFeedVars == <<log, worldGen, evicted, snapshot, liveQueue, stream, session, browser, blind,
                 connects>>

NoSnapshot == [after |-> 0, cursor |-> 0, selected |-> {}, gaps |-> {}]

WebFeedInit ==
    /\ log = <<>> /\ worldGen = 1 /\ evicted = 0
    /\ snapshot = NoSnapshot /\ liveQueue = <<>> /\ stream = <<>> /\ session = "closed"
    /\ browser = [cursor |-> 0, ready |-> FALSE, generation |-> 0, events |-> <<>>]
    /\ blind = FALSE /\ connects = 0

-----------------------------------------------------------------------------
(* The history *)

\* A full queue is emptied and closed, so that the browser connects again.
PublishEvent(visible) ==
    /\ Len(log) < MaxLog
    /\ log' = Append(log, [generation |-> worldGen, visible |-> visible])
    /\ liveQueue' = IF session = "closed" \/ (liveQueue # <<>> /\ Head(liveQueue) = 0) THEN liveQueue
                    ELSE IF Len(liveQueue) = QueueLimit THEN <<0>>
                    ELSE Append(liveQueue, Len(log) + 1)
    /\ UNCHANGED <<worldGen, evicted, snapshot, stream, session, browser, blind, connects>>

NewConnection ==
    /\ worldGen < MaxWorldGenerations /\ worldGen' = worldGen + 1
    /\ UNCHANGED <<log, evicted, snapshot, liveQueue, stream, session, browser, blind, connects>>

EvictOldest ==
    /\ evicted < Len(log) /\ evicted < MaxEvicted /\ evicted' = evicted + 1
    /\ UNCHANGED <<log, worldGen, snapshot, liveQueue, stream, session, browser, blind, connects>>

Of(S, g) == {i \in S : log[i].generation = g}
Newest(S, n) == {i \in S : Cardinality({j \in S : j > i}) < n}
Nth(S, n) == CHOOSE i \in S : Cardinality({j \in S : j <= i}) = n

-----------------------------------------------------------------------------
(* WebGatewayServer._websocket *)

\* history.subscribe: the newest events after the cursor; after a cursor also the
\* generations of which something is missing.
ConnectPage ==
    LET visible == {i \in DOMAIN log : log[i].visible /\ i > browser.cursor}
        retained == {i \in visible : i > evicted}
        selected == Newest(retained, SnapshotLimit)
        missing == {log[i].generation : i \in retained \ selected}
                     \cup {log[i].generation : i \in Of(visible \ retained, worldGen)}
    IN /\ session = "closed" /\ connects < MaxConnects /\ connects' = connects + 1
       /\ session' = "subscribed" /\ liveQueue' = <<>> /\ stream' = <<>>
       /\ snapshot' = [after |-> browser.cursor, cursor |-> Len(log), selected |-> selected,
                       gaps |-> IF browser.cursor = 0 THEN {} ELSE missing]
       /\ browser' = [browser EXCEPT !.ready = FALSE]
       /\ blind' = (blind \/ (browser.cursor = 0 /\ browser.events # <<>>))
       /\ UNCHANGED <<log, worldGen, evicted>>

\* Seeded fault: events left out for their size are not taken for a gap.
GapSelectedOnly(shown) == worldGen \in snapshot.gaps

\* snapshot_gap of the generation that the world is in by now
Gap(shown) ==
    \/ worldGen \in snapshot.gaps
    \/ snapshot.after > 0 /\ Cardinality(Of(snapshot.selected, worldGen))
                                > Cardinality(Of(shown, worldGen))

EventsOf(S) == [n \in 1..Cardinality(S) |-> [type |-> "event", cursor |-> Nth(S, n)]]

\* _send_initial_state: the newest events that fit, between hello and ready
SendInitialState ==
    LET shown == Newest(snapshot.selected, FitLimit) IN
    /\ session = "subscribed"
    /\ stream' = <<[type |-> "hello", generation |-> worldGen, gap |-> Gap(shown)]>>
                    \o EventsOf(shown) \o <<[type |-> "ready", cursor |-> snapshot.cursor]>>
    /\ session' = "sending" /\ snapshot' = NoSnapshot
    /\ UNCHANGED <<log, worldGen, evicted, liveQueue, browser, blind, connects>>

\* _send_events: an event, or its cursor alone when a browser may not see it
SendEvent ==
    /\ session = "sending" /\ liveQueue # <<>> /\ Head(liveQueue) # 0
    /\ stream' = Append(stream, [type |-> IF log[Head(liveQueue)].visible THEN "event" ELSE "cursor",
                                 cursor |-> Head(liveQueue)])
    /\ liveQueue' = Tail(liveQueue)
    /\ UNCHANGED <<log, worldGen, evicted, snapshot, session, browser, blind, connects>>

\* The connection breaks, is closed as too slow, or ends with the stream of events.
BreakPage ==
    /\ session # "closed"
    /\ session' = "closed" /\ stream' = <<>> /\ liveQueue' = <<>> /\ snapshot' = NoSnapshot
    /\ browser' = [browser EXCEPT !.ready = FALSE]
    /\ UNCHANGED <<log, worldGen, evicted, blind, connects>>

-----------------------------------------------------------------------------
(* handleMessage and addEvent of the page *)

Without(events, g) ==
    LET kept == {k \in DOMAIN events : log[events[k]].generation # g}
    IN [n \in 1..Cardinality(kept) |-> events[Nth(kept, n)]]

AfterHello(m) ==
    [browser EXCEPT !.ready = FALSE, !.generation = m.generation,
                    !.events = IF m.gap THEN Without(@, m.generation) ELSE @]

\* An event that the page has already is dropped; the cursor moves once it is ready.
AfterEvent(i) ==
    IF \E k \in DOMAIN browser.events : browser.events[k] = i THEN browser
    ELSE [browser EXCEPT !.generation = IF log[i].generation > @ THEN log[i].generation ELSE @,
                         !.cursor = IF browser.ready THEN i ELSE @, !.events = Append(@, i)]

HandleMessage ==
    /\ stream # <<>> /\ stream' = Tail(stream)
    /\ LET m == Head(stream) IN
       browser' = CASE m.type = "hello" -> AfterHello(m)
                    [] m.type = "event" -> AfterEvent(m.cursor)
                    [] m.type = "cursor" -> [browser EXCEPT !.cursor = m.cursor]
                    [] OTHER -> [browser EXCEPT !.cursor = m.cursor, !.ready = TRUE]
    /\ UNCHANGED <<log, worldGen, evicted, snapshot, liveQueue, session, blind, connects>>

WebFeedNext ==
    \/ \E visible \in BOOLEAN : PublishEvent(visible)
    \/ NewConnection \/ EvictOldest \/ ConnectPage
    \/ SendInitialState \/ SendEvent \/ BreakPage \/ HandleMessage

WebFeedSpec == WebFeedInit /\ [][WebFeedNext]_webFeedVars

-----------------------------------------------------------------------------
(* Properties *)

Transcript == {browser.events[k] : k \in DOMAIN browser.events}

\* The transcript of a page is in order and without doubles.  Once it is ready it has no
\* hole in the current connection of the world: from its first event of it up to the cursor
\* it has all that a browser may see, however often connections broke in the middle of a
\* snapshot, events were dropped, or left out for their size (gateway_web.py
\* _send_initial_state, app.mjs addEvent).  A page that lost its first connection before
\* "ready" has events without a cursor and is excepted: it may get a hole.
TranscriptHasNoHole ==
    /\ \A j, k \in DOMAIN browser.events : j < k => browser.events[j] < browser.events[k]
    /\ browser.ready /\ ~blind =>
         \A i \in Of(DOMAIN log, browser.generation) :
             /\ log[i].visible /\ i <= browser.cursor
             /\ \E j \in Of(Transcript, browser.generation) : j < i
             => i \in Transcript
=============================================================================
