----------------------------- MODULE GatewayFeed -----------------------------
(***************************************************************************)
(* A native UI (GatewayClient of gateway_client.py) attached to the event  *)
(* history of a Gateway.  A connection is a subscription of EventHistory;  *)
(* what its sender task took is what the Gateway wrote.  Connections break *)
(* with or without anyone noticing, the Gateway overflows and restarts,    *)
(* and the UI reconnects with the cursor of the last event it read.        *)
(* EventFeed says what the UI may rely on through all of this.             *)
(*                                                                         *)
(* The gag policy is fixed here; subscribing as the Gateway reads a hello  *)
(* is one step, because the UI does nothing between sending its hello and  *)
(* reading the reply.                                                      *)
(***************************************************************************)
EXTENDS EventHistory

CONSTANTS
  MaxRestarts,   (* bounds: restarts of the Gateway                          *)
  MaxCancels     (* and publications cancelled by a reconnection             *)

ASSUME FeedAssumption == MaxRestarts \in Nat /\ MaxCancels \in Nat

VARIABLES
  gatewayId,   (* identifies the running Gateway process                     *)
  alive,       (* connections that still carry data                          *)
  client,      (* the UI's connection and cursor                             *)
  displayed,   (* what the UI published on its event bus                     *)
  reported,    (* events the UI said are missing                             *)
  cancelled    (* events whose publication a reconnection cancelled          *)

ui == <<alive, client, displayed, reported, cancelled>>
allVars == <<vars, gatewayId, ui>>

FreshClient == [gateway |-> None, cursor |-> 0, conn |-> None, position |-> 0,
                mode |-> "offline", truncated |-> FALSE, pending |-> {}]

Unused == {s \in Subscribers : status[s] = "unused"}
-----------------------------------------------------------------------------
(* Connecting.                                                             *)

(* A cursor is resumed only at the Gateway process it came from.           *)
Resume == IF client.gateway = gatewayId THEN client.cursor ELSE None

(* The Gateway answers the UI's hello with a snapshot.                     *)
Hello(s, r) ==
  /\ phase # "stopped"
  /\ client.mode = "offline"
  /\ Subscribe(s, r, Resume)
  /\ client' = [client EXCEPT !.mode = "dialing", !.conn = s, !.position = 0,
                              !.truncated = Truncated(r, Resume)]
  /\ alive' = alive \cup {s}
  /\ UNCHANGED <<gatewayId, displayed, reported, cancelled>>

(* The connection breaks before the UI has read the whole snapshot.        *)
DialFails ==
  /\ client.mode = "dialing"
  /\ client.conn \notin alive
  /\ client' = [client EXCEPT !.mode = "offline"]
  /\ UNCHANGED <<vars, gatewayId, alive, displayed, reported, cancelled>>

(* The UI takes over cursor and snapshot and reports a truncated history.  *)
(* Turning to another process it announces that, and what this process no  *)
(* longer retains counts as reported.                                      *)
Adopt ==
  LET snapshot == sub[client.conn]
      known == client.gateway = gatewayId
      missing == ((IF known THEN client.cursor ELSE 0) + 1 .. snapshot.cursor)
                   \ snapshot.events
  IN  /\ client' = [client EXCEPT !.gateway = gatewayId, !.cursor = snapshot.cursor,
                                  !.mode = "restoring",
                                  !.pending = snapshot.events]
      /\ displayed' = IF known THEN displayed ELSE <<>>
      /\ reported' = IF known /\ ~client.truncated THEN reported
                     ELSE IF known THEN reported \cup missing ELSE missing

(* Seeded fault: the truncation flag of the new connection is not read.    *)
InstallUnreported(restarting) ==
  /\ client.mode = "dialing"
  /\ client.conn \in alive
  /\ IF client.gateway \in {None, gatewayId} \/ restarting
     THEN /\ client' = [client EXCEPT !.gateway = gatewayId, !.mode = "restoring",
                          !.cursor = sub[client.conn].cursor,
                          !.pending = sub[client.conn].events]
          /\ displayed' = IF client.gateway = gatewayId THEN displayed ELSE <<>>
          /\ UNCHANGED <<alive, reported>>
     ELSE /\ client' = [client EXCEPT !.mode = "stale"]
          /\ alive' = alive \ {client.conn}
          /\ UNCHANGED <<displayed, reported>>
  /\ UNCHANGED <<vars, gatewayId, cancelled>>

(* Another Gateway process is adopted by a new UI or by one that asked for *)
(* the restart; any other UI gives the connection up and has to be         *)
(* reloaded.                                                               *)
Install(restarting) ==
  /\ client.mode = "dialing"
  /\ client.conn \in alive
  /\ IF client.gateway \in {None, gatewayId} \/ restarting
     THEN Adopt /\ UNCHANGED alive
     ELSE /\ client' = [client EXCEPT !.mode = "stale"]
          /\ alive' = alive \ {client.conn}
          /\ UNCHANGED <<displayed, reported>>
  /\ UNCHANGED <<vars, gatewayId, cancelled>>

(* /reload: the UI process is replaced.                                    *)
Reload ==
  /\ client.mode = "stale"
  /\ client' = FreshClient
  /\ displayed' = <<>>
  /\ reported' = {}
  /\ UNCHANGED <<vars, gatewayId, alive, cancelled>>
-----------------------------------------------------------------------------
(* Reading.  Publishing on the UI's event bus waits for plugins; what is   *)
(* pending, a snapshot or one event, is published in the order of the      *)
(* cursors.                                                                *)

Publishing ==
  /\ \E c \in client.pending :
       /\ \A d \in client.pending : c <= d
       /\ client' = [client EXCEPT !.pending = @ \ {c}]
       /\ displayed' = Append(displayed, c)
  /\ UNCHANGED <<vars, gatewayId, alive, reported, cancelled>>

(* reconnect() has published the snapshot and starts the reading task.     *)
StartReading ==
  /\ client.mode = "restoring"
  /\ client.pending = {}
  /\ client' = [client EXCEPT !.mode = "online"]
  /\ UNCHANGED <<vars, gatewayId, alive, displayed, reported, cancelled>>

Unread == client.position < Len(received[client.conn])

ReadEvent ==
  /\ client.mode = "online"
  /\ client.pending = {}
  /\ client.conn \in alive
  /\ Unread
  /\ LET c == received[client.conn][client.position + 1]
     IN  client' = IF c <= client.cursor
                   THEN [client EXCEPT !.position = @ + 1]
                   ELSE [client EXCEPT !.position = @ + 1, !.cursor = c, !.pending = {c}]
  /\ UNCHANGED <<vars, gatewayId, alive, displayed, reported, cancelled>>

(* Seeded fault: the message that ends a subscription is not acted on.     *)
ReadEndSilently ==
  /\ client.mode = "online"
  /\ client.pending = {}
  /\ client.conn \notin alive
  /\ client' = [client EXCEPT !.mode = "offline"]
  /\ UNCHANGED <<vars, gatewayId, alive, displayed, reported, cancelled>>

(* The reading task sees an error message or the end of the connection.    *)
ReadEnd ==
  /\ client.mode = "online"
  /\ client.pending = {}
  /\ \/ client.conn \notin alive
     \/ status[client.conn] \in {"told", "gone"} /\ ~Unread
  /\ client' = [client EXCEPT !.mode = "offline"]
  /\ alive' = alive \ {client.conn}
  /\ UNCHANGED <<vars, gatewayId, displayed, reported, cancelled>>

(* /gateway reconnect, or the heartbeat that got no answer: the reading    *)
(* task is cancelled, also while it publishes an event.                    *)
Reconnect ==
  /\ client.mode = "online"
  /\ Cardinality(cancelled) + Cardinality(client.pending) <= MaxCancels
  /\ Unused # {}
  /\ client' = [client EXCEPT !.mode = "offline", !.pending = {}]
  /\ cancelled' = cancelled \cup client.pending
  /\ alive' = alive \ {client.conn}
  /\ UNCHANGED <<vars, gatewayId, displayed, reported>>

(* A connection breaks; neither side has to notice.  The last one the      *)
(* bound allows is not broken.                                             *)
Break ==
  /\ client.conn \in alive
  /\ Unused # {}
  /\ alive' = alive \ {client.conn}
  /\ UNCHANGED <<vars, gatewayId, client, displayed, reported, cancelled>>
-----------------------------------------------------------------------------
(* The Gateway's side of a connection ends because the UI's did.           *)
Hangup(s) == s \notin alive /\ Unsubscribe(s) /\ UNCHANGED <<gatewayId, ui>>

(* The Gateway process dies or stops and another one starts, with an empty *)
(* history.                                                                *)
GatewayRestart ==
  /\ gatewayId < MaxRestarts
  /\ gatewayId' = gatewayId + 1
  /\ alive' = {}
  /\ ingress' = <<>> /\ log' = <<>> /\ shown' = {}
  /\ history' = [w \in Worlds |-> <<>>]
  /\ counts' = [w \in Worlds |-> [generation |-> -1, n |-> [k \in Classes |-> 0]]]
  /\ droppedThrough' = 0
  /\ genDropped' = [w \in Worlds |-> Unmarked]
  /\ sub' = [s \in Subscribers |-> NoSnapshot]
  /\ status' = [s \in Subscribers |-> IF status[s] = "unused" THEN "unused" ELSE "gone"]
  /\ queue' = [s \in Subscribers |-> <<>>]
  /\ received' = [s \in Subscribers |-> <<>>]
  /\ phase' = "running"
  /\ UNCHANGED <<gag, client, displayed, reported, cancelled>>

FeedInit ==
  /\ Init
  /\ gatewayId = 0
  /\ alive = {}
  /\ client = FreshClient
  /\ displayed = <<>>
  /\ reported = {}
  /\ cancelled = {}

HistoryStep ==
  /\ (\E e \in Event : Publish(e)) \/ Pump \/ (\E s \in Subscribers : Take(s))
       \/ StopJoin \/ StopClose
  /\ UNCHANGED <<gatewayId, ui>>

FeedNext ==
  \/ HistoryStep
  \/ \E s \in Subscribers, r \in Requests : Hello(s, r)
  \/ \E s \in Subscribers : Hangup(s)
  \/ DialFails \/ (\E restarting \in BOOLEAN : Install(restarting)) \/ Reload
  \/ Publishing \/ StartReading \/ ReadEvent \/ ReadEnd
  \/ Reconnect \/ Break
  \/ GatewayRestart

(* The event loops of both sides run their tasks; the UI's supervisor      *)
(* reconnects and its heartbeat notices a broken connection.               *)
FeedFairness ==
  /\ WF_allVars(Pump /\ UNCHANGED <<gatewayId, ui>>)
  /\ \A s \in Subscribers : WF_allVars(Take(s) /\ UNCHANGED <<gatewayId, ui>>)
  /\ WF_allVars(\E s \in Subscribers, r \in Requests : Hello(s, r))
  /\ WF_allVars(DialFails) /\ WF_allVars(\E restarting \in BOOLEAN : Install(restarting))
  /\ WF_allVars(Publishing) /\ WF_allVars(StartReading)
  /\ WF_allVars(ReadEvent) /\ WF_allVars(ReadEnd)
  /\ WF_allVars(client.conn \notin alive /\ Reconnect)

FeedSpec == FeedInit /\ [][FeedNext]_allVars /\ FeedFairness
-----------------------------------------------------------------------------
(* The UI's view of one Gateway process is a feed without silent gaps,     *)
(* duplicates or reordering, over overflows, broken connections, resumed   *)
(* cursors and restarts (subscribe's snapshot and truncation flag, the     *)
(* client's cursor check and reconnect() together).                        *)
Published == IF client.gateway = gatewayId THEN Cursor ELSE client.cursor
Abstract == INSTANCE EventFeed WITH published <- Published
UiGetsFeed == Abstract!Spec

(* An event of the running Gateway is displayed or reported missing,       *)
(* unless the Gateway stops, the UI must be reloaded or the bound on       *)
(* connections is used up.                                                 *)
EventReachesUi ==
  \A c \in 1 .. MaxEvents, g \in 0 .. MaxRestarts :
    (gatewayId = g /\ c <= Cursor) ~>
      \/ client.gateway = g /\ c \in ToSet(displayed) \cup reported
      \/ gatewayId # g \/ phase = "stopped" \/ client.mode = "stale"
      \/ client.mode = "offline" /\ Unused = {}
=============================================================================
