--------------------------- MODULE WorldConnector ---------------------------
(***************************************************************************)
(* The connector process that owns the world sockets (world_connector.py)  *)
(* and the Gateway application that attaches to it (ConnectorSessionBridge *)
(* of sessions.py).  Every line of a world becomes a frame of the replay   *)
(* buffer, which keeps it until the Gateway acknowledges it, drops the     *)
(* oldest frames beyond a per-world and a global limit and remembers what  *)
(* it dropped in overflow notices.  A Gateway may crash and attach again   *)
(* at any moment; what the buffer holds is then replayed.                  *)
(*                                                                         *)
(* A frame is represented by its insertion number, an index of the history *)
(* variable `log'; the sequence number of a frame within its world is the  *)
(* rank of that number, so the two order the frames of a world alike.  An  *)
(* overflow notice is the set of the frames it names.  asyncio runs a task *)
(* until it waits: writing to a Gateway waits while its pipe is full, and  *)
(* the delivery lock is held meanwhile.                                    *)
(***************************************************************************)
EXTENDS Integers, Sequences, FiniteSets, FiniteSetsExt, SequencesExt

CONSTANTS
  Worlds,
  Connections,        (* sockets between Gateway and connector, reused        *)
  Sizes,              (* possible sizes of a frame                            *)
  PerWorldSize,       (* limits of the replay buffer                          *)
  GlobalSize,
  PipeSize,           (* messages a writer may leave unread before it waits   *)
  AckPipeSize,        (* acknowledgements the Gateway may leave unread        *)
  None,
  MaxFrames,          (* bounds of a behaviour: frames published,             *)
  MaxCrashes,         (* Gateway processes that die or are restarted,         *)
  MaxAborts           (* and publishers cancelled                             *)

ASSUME ConnectorAssumption ==
  /\ Sizes \subseteq Nat \ {0}
  /\ PerWorldSize \in Nat \ {0} /\ GlobalSize \in Nat \ {0}
  /\ PipeSize \in Nat \ {0} /\ AckPipeSize \in Nat \ {0}
  /\ Worlds \cap Connections = {}
  /\ None \notin Worlds \cup Connections
  /\ MaxFrames \in Nat /\ MaxCrashes \in Nat /\ MaxAborts \in Nat

VARIABLES
  log,             (* every frame appended, with its world and size          *)
  buffer,          (* the frames still in the replay buffer                  *)
  notices,         (* unacknowledged overflow notices, oldest first          *)
  gatewayWriter,   (* the connection of the attached Gateway, or None        *)
  holder,          (* who holds the delivery lock and what it has to write   *)
  waiters,         (* who waits for the delivery lock, first come first      *)
  handler,         (* what the connector's task of each connection does      *)
  down, up,        (* the messages under way to and from the Gateway         *)
  open,            (* the connections whose Gateway end is open              *)
  gateway,         (* the Gateway process                                    *)
  seen,            (* the frames and notices this Gateway handled, in order  *)
  handled,         (* the frames and the notices any Gateway handled         *)
  torn,            (* worlds whose publishing a dying Gateway made fail      *)
  aborted,         (* frames whose publisher was cancelled before writing    *)
  used,            (* bounds used up: crashes and cancelled publishers       *)
  phase            (* running, expired (about to exit), exited               *)

store == <<log, buffer, notices>>
lock == <<holder, waiters>>
wires == <<down, up, open>>
past == <<seen, handled>>
vars == <<store, gatewayWriter, lock, handler, wires, gateway, past, torn, aborted, used, phase>>

Message(type, ids) == [type |-> type, ids |-> ids]
Frame(c) == Message("frame", {c})
Overflow(n) == Message("overflow", n)
Ids == 1 .. Len(log)

MessageTypes ==
  {"attached", "rejected", "frame", "overflow", "ack", "ack_overflow", "shutdown"}

(* None is neither a message nor a job under the delivery lock.            *)
ASSUME NoneAssumption ==
  LET AnyMessage == [type : MessageTypes, ids : SUBSET Nat]
  IN  /\ None \notin AnyMessage
      /\ None \notin [who : Worlds \cup Connections, to : Connections, todo : Seq(AnyMessage)]

(* The elements of a finite set in the order of their keys.                *)
InOrder(S, Key(_)) ==
  CHOOSE q \in [1 .. Cardinality(S) -> S] :
    \A i, j \in DOMAIN q : i < j => Key(q[i]) < Key(q[j])
Ascending(B) == InOrder(B, LAMBDA c : c)
-----------------------------------------------------------------------------
(* The replay buffer.                                                      *)

OfWorld(S, l, w) == {c \in S : l[c].world = w}
Newest(S, l, size) ==
  {c \in S : MapThenSumSet(LAMBDA d : l[d].size, {d \in S : d >= c}) <= size}

(* What ReplayBuffer.append keeps of B, whose newest frame is of world w.  *)
Kept(B, l, w) ==
  LET mine == OfWorld(B, l, w)
  IN  Newest((B \ mine) \cup Newest(mine, l, PerWorldSize), l, GlobalSize)

(* Seeded fault: only the world that published gets a notice.              *)
NewNoticesOwn(B, l, w) ==
  LET lost == OfWorld(B \ Kept(B, l, w), l, w)
  IN  IF lost = {} THEN <<>> ELSE <<lost>>

(* One notice for each world that lost frames, in the order of the drops.  *)
NewNotices(B, l, w) ==
  LET lost == B \ Kept(B, l, w)
      mine == OfWorld(B, l, w)
      First(n) == IF n \cap (mine \ Newest(mine, l, PerWorldSize)) # {} THEN 0 ELSE Min(n)
  IN  InOrder({OfWorld(lost, l, v) : v \in {l[c].world : c \in lost}}, First)

(* An acknowledgement covers the earlier frames of its world.              *)
Acknowledge(c) ==
  buffer' = {d \in buffer : d > c \/ log[d].world # log[c].world}

(* Seeded fault: frames are replayed world by world.                       *)
ReplayByWorld(B, ns) ==
  [i \in DOMAIN ns |-> Overflow(ns[i])] \o
  FlattenSeq([v \in 1 .. Cardinality(Worlds) |->
                LET w == SetToSeq(Worlds)[v]
                    q == Ascending(OfWorld(B, log, w))
                IN  [i \in DOMAIN q |-> Frame(q[i])]])

(* Seeded fault: notices follow the frames.                                *)
ReplayFramesFirst(B, ns) ==
  LET q == Ascending(B)
  IN  [i \in DOMAIN q |-> Frame(q[i])] \o [i \in DOMAIN ns |-> Overflow(ns[i])]

Replay(B, ns) ==
  LET q == Ascending(B)
  IN  [i \in DOMAIN ns |-> Overflow(ns[i])] \o [i \in DOMAIN q |-> Frame(q[i])]
-----------------------------------------------------------------------------
(* Writing under the delivery lock.  A job is a holder of the lock: a      *)
(* world that publishes or a connection whose task attaches a Gateway.     *)

(* What becomes of the task of an attaching connection; when it ends it    *)
(* gives up the Gateway's place.                                           *)
TaskIs(job, state) ==
  IF job.who \in Connections
  THEN /\ handler' = [handler EXCEPT ![job.who] = state]
       /\ gatewayWriter' = IF state = "none" THEN None ELSE job.who
  ELSE UNCHANGED <<handler, gatewayWriter>>

Done(job) == holder' = None /\ TaskIs(job, "serving")

(* Messages are written until the pipe holds more than PipeSize.  Writing  *)
(* to a closed connection raises in the task.                              *)
Write(job) ==
  LET room == Max({1, PipeSize + 1 - Len(down[job.to])})
      n == Min({Len(job.todo), room})
      written == down[job.to] \o SubSeq(job.todo, 1, n)
  IN  IF job.to \in open
      THEN /\ down' = [down EXCEPT ![job.to] = written]
           /\ IF Len(written) <= PipeSize
              THEN Done(job)
              ELSE /\ holder' = [job EXCEPT !.todo = SubSeq(@, n + 1, Len(@))]
                   /\ TaskIs(job, "waiting")
           /\ UNCHANGED torn
      ELSE /\ holder' = None
           /\ torn' = torn \cup ({job.who} \cap Worlds)
           /\ TaskIs(job, "none")
           /\ UNCHANGED down

(* publish: the frame is appended, then written to the attached Gateway    *)
(* after the notices of the frames it displaced.                           *)
AppendFrame(w, size) ==
  LET l == Append(log, [world |-> w, size |-> size])
      c == Len(l)
      new == NewNotices(buffer \cup {c}, l, w)
  IN  /\ log' = l
      /\ buffer' = Kept(buffer \cup {c}, l, w)
      /\ notices' = notices \o new
      /\ IF gatewayWriter = None
         THEN holder' = None /\ UNCHANGED <<handler, gatewayWriter, down, torn>>
         ELSE Write([who |-> w, to |-> gatewayWriter,
                     todo |-> [i \in DOMAIN new |-> Overflow(new[i])] \o <<Frame(c)>>])

(* The reply to an attach message and the replay are one job.              *)
Attach(c) ==
  /\ Write([who |-> c, to |-> c,
            todo |-> <<Message("attached", {})>> \o Replay(buffer, notices)])
  /\ UNCHANGED store
-----------------------------------------------------------------------------
Free == holder = None /\ waiters = <<>>
Busy == {waiters[i].who : i \in DOMAIN waiters} \cup
        (IF holder = None THEN {} ELSE {holder.who})

(* A world has something to publish: a line, a state or telnet event.      *)
Publish(w, size) ==
  /\ phase # "exited"
  /\ w \notin Busy
  /\ Len(log) + Len(waiters) < MaxFrames
  /\ IF Free
     THEN AppendFrame(w, size) /\ UNCHANGED waiters
     ELSE /\ waiters' = Append(waiters, [who |-> w, size |-> size])
          /\ UNCHANGED <<store, holder, handler, gatewayWriter, down, torn>>
  /\ UNCHANGED <<up, open, gateway, past, aborted, used, phase>>

(* The delivery lock was released and its first waiter runs.               *)
Acquire ==
  /\ phase # "exited"
  /\ holder = None
  /\ waiters # <<>>
  /\ waiters' = Tail(waiters)
  /\ IF Head(waiters).who \in Worlds
     THEN AppendFrame(Head(waiters).who, Head(waiters).size)
     ELSE Attach(Head(waiters).who)
  /\ UNCHANGED <<up, open, gateway, past, aborted, used, phase>>

(* A writer that waited for its pipe goes on, or learns that it is gone.   *)
Drained ==
  /\ phase # "exited"
  /\ holder # None
  /\ holder.to \in open => Len(down[holder.to]) <= PipeSize
  /\ IF holder.to \in open /\ holder.todo = <<>>
     THEN Done(holder) /\ UNCHANGED <<down, torn>>
     ELSE Write(holder)
  /\ UNCHANGED <<store, waiters, up, open, gateway, past, aborted, used, phase>>

(* The task that publishes for a world is cancelled, because the world is  *)
(* stopped or its other tasks failed.                                      *)
Abort(w) ==
  /\ phase # "exited"
  /\ used.aborts < MaxAborts
  /\ w \in Busy
  /\ IF holder # None /\ holder.who = w
     THEN /\ holder' = None
          /\ aborted' = aborted \cup
               UNION {m.ids : m \in {n \in ToSet(holder.todo) : n.type = "frame"}}
          /\ UNCHANGED waiters
     ELSE /\ \E i \in DOMAIN waiters :
               waiters[i].who = w /\ waiters' = RemoveAt(waiters, i)
          /\ UNCHANGED <<holder, aborted>>
  /\ used' = [used EXCEPT !.aborts = @ + 1]
  /\ UNCHANGED <<store, gatewayWriter, handler, wires, gateway, past, torn, phase>>
-----------------------------------------------------------------------------
(* The connector's task of a connection.                                   *)

(* The attach message was read and names this build and configuration.     *)
Accept(c) ==
  /\ phase # "exited"
  /\ handler[c] = "accepting"
  /\ IF gatewayWriter # None
     THEN /\ down' = [down EXCEPT ![c] = IF c \in open THEN <<Message("rejected", {})>> ELSE @]
          /\ handler' = [handler EXCEPT ![c] = "none"]
          /\ UNCHANGED <<store, gatewayWriter, lock, torn>>
     ELSE IF Free
     THEN Attach(c) /\ UNCHANGED waiters
     ELSE /\ gatewayWriter' = c
          /\ waiters' = Append(waiters, [who |-> c, size |-> 0])
          /\ handler' = [handler EXCEPT ![c] = "waiting"]
          /\ UNCHANGED <<store, holder, down, torn>>
  /\ UNCHANGED <<up, open, gateway, past, aborted, used, phase>>

(* _handle_gateway_message.  An unknown overflow notice is an error.       *)
HandleMessage(c) ==
  /\ phase # "exited"
  /\ handler[c] = "serving"
  /\ up[c] # <<>>
  /\ up' = [up EXCEPT ![c] = Tail(@)]
  /\ LET m == Head(up[c])
     IN  CASE m.type = "ack" ->
                /\ Acknowledge(Max(m.ids))
                /\ UNCHANGED <<notices, handler, gatewayWriter, phase>>
           [] m.type = "ack_overflow" ->
                /\ \/ /\ \E i \in DOMAIN notices :
                            notices[i] = m.ids /\ notices' = RemoveAt(notices, i)
                      /\ UNCHANGED <<handler, gatewayWriter>>
                   \/ /\ m.ids \notin ToSet(notices)
                      /\ gatewayWriter' = None /\ handler' = [handler EXCEPT ![c] = "none"]
                      /\ UNCHANGED notices
                /\ UNCHANGED <<buffer, phase>>
           [] m.type = "shutdown" ->
                /\ phase' = "expired"
                /\ UNCHANGED <<buffer, notices, handler, gatewayWriter>>
  /\ UNCHANGED <<log, lock, down, open, gateway, past, torn, aborted, used>>

(* Seeded fault: the connection stays registered as the Gateway's.         *)
EndKeepingWriter(c) ==
  /\ phase # "exited"
  /\ handler[c] = "serving" /\ up[c] = <<>> /\ c \notin open
  /\ handler' = [handler EXCEPT ![c] = "none"]
  /\ UNCHANGED <<store, gatewayWriter, lock, wires, gateway, past, torn, aborted, used, phase>>

(* The task has read all that a vanished Gateway wrote; it gives up the    *)
(* Gateway's place and closes its socket.                                  *)
End(c) ==
  /\ phase # "exited"
  /\ handler[c] = "serving" /\ up[c] = <<>> /\ c \notin open
  /\ gatewayWriter' = None
  /\ handler' = [handler EXCEPT ![c] = "none"]
  /\ UNCHANGED <<store, lock, wires, gateway, past, torn, aborted, used, phase>>

(* The grace period ends without a Gateway, or a Gateway of another build  *)
(* or configuration replaces the connector.                                *)
Expire ==
  /\ phase = "running"
  /\ gatewayWriter = None \/ gateway.state = "down"
  /\ phase' = "expired"
  /\ UNCHANGED <<store, gatewayWriter, lock, handler, wires, gateway, past, torn, aborted, used>>

Exit ==
  /\ phase = "expired"
  /\ phase' = "exited"
  /\ UNCHANGED <<store, gatewayWriter, lock, handler, wires, gateway, past, torn, aborted, used>>
-----------------------------------------------------------------------------
(* The Gateway process.                                                    *)
Down == [state |-> "down", conn |-> None, pending |-> None]

Close(c) == open' = open \ {c} /\ down' = [down EXCEPT ![c] = <<>>]

(* The connection is a new one: nobody is writing to it.                   *)
GatewayStart(c) ==
  /\ phase # "exited"
  /\ gateway.state = "down"
  /\ handler[c] = "none"
  /\ holder # None => holder.to # c
  /\ gateway' = [state |-> "attaching", conn |-> c, pending |-> None]
  /\ open' = open \cup {c}
  /\ down' = [down EXCEPT ![c] = <<>>]
  /\ up' = [up EXCEPT ![c] = <<>>]
  /\ handler' = [handler EXCEPT ![c] = "accepting"]
  /\ seen' = <<>>
  /\ UNCHANGED <<store, gatewayWriter, lock, handled, torn, aborted, used, phase>>

(* Anything but the attached message fails the attachment; the Gateway     *)
(* process exits and its supervisor starts another.                        *)
GatewayAttach ==
  /\ gateway.state = "attaching"
  /\ down[gateway.conn] # <<>>
  /\ IF Head(down[gateway.conn]).type = "attached"
     THEN /\ gateway' = [gateway EXCEPT !.state = "attached"]
          /\ down' = [down EXCEPT ![gateway.conn] = Tail(@)]
          /\ UNCHANGED open
     ELSE gateway' = Down /\ Close(gateway.conn)
  /\ UNCHANGED <<store, gatewayWriter, lock, handler, up, past, torn, aborted, used, phase>>

(* The bridge hands a frame or a notice to the world's session, which      *)
(* publishes it on the event bus ...                                       *)
GatewayHandle ==
  /\ gateway.state = "attached"
  /\ gateway.pending = None
  /\ down[gateway.conn] # <<>>
  /\ LET m == Head(down[gateway.conn])
     IN  /\ gateway' = [gateway EXCEPT !.pending = m]
         /\ seen' = Append(seen, m)
         /\ handled' = IF m.type = "frame"
                       THEN [handled EXCEPT !.frames = @ \cup m.ids]
                       ELSE [handled EXCEPT !.notices = @ \cup {m.ids}]
  /\ down' = [down EXCEPT ![gateway.conn] = Tail(@)]
  /\ UNCHANGED <<store, gatewayWriter, lock, handler, up, open, torn, aborted, used, phase>>

(* ... and acknowledges it afterwards.                                     *)
GatewayAcknowledge ==
  /\ gateway.state = "attached"
  /\ gateway.pending # None
  /\ Len(up[gateway.conn]) < AckPipeSize
  /\ gateway' = [gateway EXCEPT !.pending = None]
  /\ up' = [up EXCEPT ![gateway.conn] =
              Append(@, Message(IF gateway.pending.type = "frame"
                                THEN "ack" ELSE "ack_overflow", gateway.pending.ids))]
  /\ UNCHANGED <<store, gatewayWriter, lock, handler, down, open, past, torn, aborted, used,
                 phase>>

(* The Gateway crashes or is restarted; what it wrote is still read.       *)
GatewayCrash ==
  /\ gateway.state # "down"
  /\ used.crashes < MaxCrashes
  /\ used' = [used EXCEPT !.crashes = @ + 1]
  /\ gateway' = Down
  /\ Close(gateway.conn)
  /\ UNCHANGED <<store, gatewayWriter, lock, handler, up, past, torn, aborted, phase>>

(* A clean service stop takes the worlds down as well.                     *)
GatewayShutdown ==
  /\ gateway.state = "attached"
  /\ used.crashes < MaxCrashes
  /\ used' = [used EXCEPT !.crashes = @ + 1]
  /\ up' = [up EXCEPT ![gateway.conn] = Append(@, Message("shutdown", {}))]
  /\ gateway' = Down
  /\ Close(gateway.conn)
  /\ UNCHANGED <<store, gatewayWriter, lock, handler, past, torn, aborted, phase>>

(* The connector closed the connection: the Gateway process exits.         *)
GatewayLost ==
  /\ gateway.state # "down"
  /\ handler[gateway.conn] = "none" \/ phase = "exited"
  /\ down[gateway.conn] = <<>>
  /\ gateway' = Down
  /\ Close(gateway.conn)
  /\ UNCHANGED <<store, gatewayWriter, lock, handler, up, past, torn, aborted, used, phase>>
-----------------------------------------------------------------------------
Init ==
  /\ log = <<>> /\ buffer = {} /\ notices = <<>>
  /\ gatewayWriter = None
  /\ holder = None /\ waiters = <<>>
  /\ handler = [c \in Connections |-> "none"]
  /\ down = [c \in Connections |-> <<>>]
  /\ up = [c \in Connections |-> <<>>]
  /\ open = {}
  /\ gateway = Down
  /\ seen = <<>>
  /\ handled = [frames |-> {}, notices |-> {}]
  /\ torn = {} /\ aborted = {}
  /\ used = [crashes |-> 0, aborts |-> 0]
  /\ phase = "running"

ConnectorStep ==
  \/ Acquire \/ Drained
  \/ \E c \in Connections : Accept(c) \/ HandleMessage(c) \/ End(c)

GatewayStep ==
  \/ \E c \in Connections : GatewayStart(c)
  \/ GatewayAttach \/ GatewayHandle \/ GatewayAcknowledge \/ GatewayLost

Next ==
  \/ \E w \in Worlds, size \in Sizes : Publish(w, size)
  \/ \E w \in Worlds : Abort(w)
  \/ ConnectorStep
  \/ GatewayStep
  \/ GatewayCrash \/ GatewayShutdown
  \/ Expire \/ Exit

(* The connector's event loop and the Gateway's run every task that can    *)
(* go on, and the supervisor starts a Gateway whenever none runs.          *)
Fairness ==
  /\ WF_vars(Acquire) /\ WF_vars(Drained)
  /\ \A c \in Connections : WF_vars(Accept(c)) /\ WF_vars(HandleMessage(c)) /\ WF_vars(End(c))
  /\ WF_vars(\E c \in Connections : GatewayStart(c))
  /\ WF_vars(GatewayAttach) /\ WF_vars(GatewayHandle)
  /\ WF_vars(GatewayAcknowledge) /\ WF_vars(GatewayLost)

Spec == Init /\ [][Next]_vars /\ Fairness
-----------------------------------------------------------------------------
Messages == [type : MessageTypes, ids : SUBSET Ids]

(* The last conjunct: the connection that holds the Gateway's place has a  *)
(* task that will give it up.                                              *)
TypeOK ==
  /\ log \in Seq([world : Worlds, size : Sizes])
  /\ buffer \subseteq Ids
  /\ notices \in Seq((SUBSET Ids) \ {{}})
  /\ gatewayWriter \in Connections \cup {None}
  /\ holder \in [who : Worlds \cup Connections, to : Connections, todo : Seq(Messages)] \cup {None}
  /\ waiters \in Seq([who : Worlds \cup Connections, size : Nat])
  /\ handler \in [Connections -> {"none", "accepting", "waiting", "serving"}]
  /\ down \in [Connections -> Seq(Messages)]
  /\ up \in [Connections -> Seq(Messages)]
  /\ open \subseteq Connections
  /\ gateway \in [state : {"down", "attaching", "attached"}, conn : Connections \cup {None},
                  pending : Messages \cup {None}]
  /\ seen \in Seq(Messages)
  /\ handled \in [frames : SUBSET Ids, notices : SUBSET SUBSET Ids]
  /\ torn \subseteq Worlds
  /\ aborted \subseteq Ids
  /\ used \in [crashes : 0 .. MaxCrashes, aborts : 0 .. MaxAborts]
  /\ phase \in {"running", "expired", "exited"}
  /\ gatewayWriter # None => handler[gatewayWriter] # "none"

(* Frames the connector no longer holds, that no Gateway handled and that  *)
(* no pending or handled overflow notice names.                            *)
Lost == {c \in Ids : /\ c \notin buffer \cup handled.frames
                     /\ \A n \in ToSet(notices) \cup handled.notices : c \notin n}

(* Crashes, reconnections, slow Gateways and overflows lose no frame       *)
(* silently; only cancelling a publisher that holds the delivery lock can  *)
(* (publish, acknowledge, _send_replay and the bridge's acknowledgement    *)
(* after handling, together).                                              *)
OnlyAbortedLost == Lost \subseteq aborted

(* A Gateway handles frames in the order in which the connector received   *)
(* them, across worlds, and none twice: the replay and the live frames do  *)
(* not overlap or overtake one another.                                    *)
SeenInOrder ==
  \A i, j \in DOMAIN seen :
    i < j /\ seen[i].type = "frame" /\ seen[j].type = "frame" =>
      Max(seen[i].ids) < Max(seen[j].ids)

(* A gap is announced before what follows it: when a Gateway handled a     *)
(* frame, every earlier frame of that world was handled or named by a      *)
(* notice a Gateway handled.                                               *)
GapAnnouncedFirst ==
  \A c \in handled.frames : \A d \in OfWorld(1 .. c - 1, log, log[c].world) :
    d \in handled.frames \cup (UNION handled.notices) \cup aborted

(* "Normal updates replace only the application process, so worlds stay    *)
(* connected" (README.md): publishing for a world never fails because a    *)
(* Gateway went away.                                                      *)
WorldsStayConnected == torn = {}

(* As long as the connector runs, every frame reaches a Gateway or is      *)
(* named by a notice that does.                                            *)
FramesDelivered ==
  \A c \in 1 .. MaxFrames :
    (c \in Ids) ~> (c \in handled.frames \cup (UNION handled.notices) \cup aborted
                    \/ phase # "running")
=============================================================================
