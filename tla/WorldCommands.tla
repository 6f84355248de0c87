---------------------------- MODULE WorldCommands ----------------------------
(***************************************************************************)
(* The way of a command from a UI to the world's socket, for one world:    *)
(* the Gateway's command queue and write loop (CommandBus of core.py,      *)
(* ConnectorWorldSession of sessions.py), the messages to the connector,   *)
(* and the connector's world connection (_WorldConnection of               *)
(* world_connector.py) with its own queue, its login and startup commands, *)
(* its reconnections, and the state events that tell the Gateway of them.  *)
(*                                                                         *)
(* A command is its index in `submitted'.  Frames reach the Gateway in     *)
(* order and are not lost (module WorldConnector); of the events only the  *)
(* state events matter here.  Messages to the connector are read before    *)
(* the next Gateway process is let in, so a restarted Gateway's messages   *)
(* follow its predecessor's.                                               *)
(***************************************************************************)
EXTENDS Integers, Sequences, FiniteSets, SequencesExt

CONSTANTS
  GatewayQueueSize,   (* command_queue_size of the session                   *)
  WorldQueueSize,     (* maxsize of the connector's _commands                *)
  PipeSize,           (* state events that fit the way to the Gateway        *)
  StartupCount,       (* login and startup commands of the world             *)
  AutoReconnect,      (* the world's reconnect setting                       *)
  Autoconnect,        (* the world's autoconnect setting                     *)
  Quits,              (* is a command a human's quit: the cases considered   *)
  None,
  MaxCommands,        (* bounds: commands submitted, connection attempts,    *)
  MaxAttempts,        (* control requests of UIs and Gateway restarts        *)
  MaxControls,
  MaxRestarts

ASSUME CommandsAssumption ==
  /\ GatewayQueueSize \in Nat \ {0} /\ WorldQueueSize \in Nat \ {0} /\ PipeSize \in Nat \ {0}
  /\ Quits \subseteq BOOLEAN
  /\ StartupCount \in Nat
  /\ AutoReconnect \in BOOLEAN /\ Autoconnect \in BOOLEAN
  /\ None \notin Nat \cup Seq(Nat)
  /\ {MaxCommands, MaxAttempts, MaxControls, MaxRestarts} \subseteq Nat

VARIABLES
  submitted,   (* the generation every accepted command expects, or None      *)
  session,     (* the Gateway's ConnectorWorldSession                        *)
  queue,       (* its command queue, None when not registered                *)
  control,     (* the control request under way                              *)
  toWorld,     (* messages to the connector                                  *)
  toGateway,   (* state events to the Gateway                                *)
  blocked,     (* a command for which the connector's reader waits, or None  *)
  world,       (* the connector's _WorldConnection                           *)
  commands,    (* its queue of commands                                      *)
  written,     (* what the world received, with the connection               *)
  used         (* bounds used up                                             *)

upstream == <<submitted, session, queue, control>>
vars == <<upstream, toWorld, toGateway, blocked, world, commands, written, used>>

Command(n) == [kind |-> "command", n |-> n]
Startup(g, k) == [kind |-> "startup", generation |-> g, n |-> k]
Note(state, g) == [state |-> state, generation |-> g]

-----------------------------------------------------------------------------
(* The Gateway: submit_command and the write loop.                         *)

(* A UI submits a command; a generation it names must be the one the       *)
(* Gateway knows.  Submitting waits while the queue is full.               *)
Submit(expected) ==
  /\ queue # None
  /\ expected \in {None, session.generation}
  /\ Len(submitted) < MaxCommands
  /\ Len(queue) < GatewayQueueSize
  /\ submitted' = Append(submitted, expected)
  /\ queue' = Append(queue, Len(submitted'))
  /\ UNCHANGED <<session, control, toWorld, toGateway, blocked, world, commands, written, used>>

(* Seeded fault: the write loop ends at a command it does not send.        *)
TakeCommandReturning ==
  /\ session.runner
  /\ session.holding = None
  /\ queue # None /\ queue # <<>>
  /\ queue' = Tail(queue)
  /\ LET n == Head(queue)
     IN  session' = IF submitted[n] \in {None, session.generation}
                    THEN [session EXCEPT !.holding = n]
                    ELSE [session EXCEPT !.runner = FALSE]
  /\ UNCHANGED <<submitted, control, toWorld, toGateway, blocked, world, commands, written, used>>

(* The write loop takes a command and drops it if its connection is over;  *)
(* otherwise it publishes the audit event, which may wait.                 *)
TakeCommand ==
  /\ session.runner
  /\ session.holding = None
  /\ queue # None /\ queue # <<>>
  /\ queue' = Tail(queue)
  /\ LET n == Head(queue)
     IN  session' = IF submitted[n] \in {None, session.generation}
                    THEN [session EXCEPT !.holding = n]
                    ELSE session
  /\ UNCHANGED <<submitted, control, toWorld, toGateway, blocked, world, commands, written, used>>

SendCommand ==
  /\ session.runner
  /\ session.holding # None
  /\ toWorld' = Append(toWorld, [type |-> "send", n |-> session.holding])
  /\ session' = [session EXCEPT !.holding = None]
  /\ UNCHANGED <<submitted, queue, control, toGateway, blocked, world, commands, written, used>>

(* handle_connector_event.                                                 *)
HandleState ==
  /\ toGateway # <<>>
  /\ toGateway' = Tail(toGateway)
  /\ session' = [session EXCEPT !.state = Head(toGateway).state,
                                !.generation = Head(toGateway).generation]
  /\ UNCHANGED <<submitted, queue, control, toWorld, blocked, world, commands, written, used>>
-----------------------------------------------------------------------------
(* The Gateway: control requests, one at a time.                           *)

Signal(type) == toWorld' = Append(toWorld, [type |-> type, n |-> 0])

(* start(): refused while the write loop runs.                             *)
Start ==
  IF session.runner
  THEN /\ control' = "refused"
       /\ UNCHANGED <<session, queue, toWorld>>
  ELSE /\ control' = "idle"
       /\ session' = [session EXCEPT !.runner = TRUE]
       /\ queue' = <<>>
       /\ Signal("start")

(* A UI asks to connect, which is refused unless the world is stopped, or  *)
(* to disconnect or reconnect, which tells the connector first.            *)
Control(action) ==
  /\ control \in {"idle", "refused"}
  /\ used.controls < MaxControls
  /\ used' = [used EXCEPT !.controls = @ + 1]
  /\ IF action = "connect"
     THEN session.state = "stopped" /\ Start
     ELSE /\ control' = action
          /\ Signal("stop")
          /\ UNCHANGED <<session, queue>>
  /\ UNCHANGED <<submitted, toGateway, blocked, world, commands, written>>

Stopped == [session EXCEPT !.runner = FALSE, !.holding = None, !.state = "stopped"]

(* _detach goes on: the write loop is cancelled with what it holds and the *)
(* queue is given up.                                                      *)
Detach ==
  /\ control \in {"disconnect", "reconnect"}
  /\ session' = Stopped
  /\ queue' = None
  /\ control' = IF control = "reconnect" THEN "starting" ELSE "idle"
  /\ UNCHANGED <<submitted, toWorld, toGateway, blocked, world, commands, written, used>>

Restart ==
  /\ control = "starting"
  /\ Start
  /\ UNCHANGED <<submitted, toGateway, blocked, world, commands, written, used>>

(* Another Gateway process takes over: its sessions know nothing, and it   *)
(* starts the worlds that are to connect by themselves.                    *)
GatewayRestart ==
  /\ used.restarts < MaxRestarts
  /\ used' = [used EXCEPT !.restarts = @ + 1]
  /\ blocked = None
  /\ session' = [runner |-> Autoconnect, holding |-> None, state |-> "stopped", generation |-> 0]
  /\ queue' = IF Autoconnect THEN <<>> ELSE None
  /\ control' = "idle"
  /\ IF Autoconnect THEN Signal("start") ELSE UNCHANGED toWorld
  /\ UNCHANGED <<submitted, toGateway, blocked, world, commands, written>>
-----------------------------------------------------------------------------
(* The connector.  Publishing a state event waits for room on the way to   *)
(* the Gateway.                                                            *)

Tell(states, g) ==
  /\ Len(toGateway) < PipeSize
  /\ toGateway' = toGateway \o [i \in DOMAIN states |-> Note(states[i], g)]

(* Seeded fault: starting a running world says nothing.                    *)
ResumedSilently == UNCHANGED toGateway

Resumed == Tell(<<world.state>>, world.generation)

Started == [world EXCEPT !.phase = "connecting", !.quit = FALSE]

(* Cancelling the runner cancels the writer; a command it took from the    *)
(* queue and did not write yet is lost.                                    *)
Abandon ==
  \/ UNCHANGED commands
  \/ world.phase = "serving" /\ commands # <<>> /\ commands' = Tail(commands)

(* _handle_gateway_message: start, stop or send.  Starting a running world *)
(* repeats its state.  Sending waits for room, and with it every later     *)
(* message.                                                                *)
Receive ==
  /\ blocked = None
  /\ toWorld # <<>>
  /\ toWorld' = Tail(toWorld)
  /\ LET m == Head(toWorld)
     IN  CASE m.type = "start" ->
                /\ IF world.phase # "none"
                   THEN Resumed /\ UNCHANGED world
                   ELSE world' = [Started EXCEPT !.state = "connecting"]
                        /\ Tell(<<"connecting">>, world.generation)
                /\ UNCHANGED <<commands, blocked>>
           [] m.type = "stop" ->
                /\ world' = [world EXCEPT !.phase = "none", !.state = "stopped"]
                /\ IF world.phase = "none" THEN UNCHANGED toGateway
                   ELSE Tell(<<"stopped">>, world.generation)
                /\ Abandon
                /\ UNCHANGED blocked
           [] m.type = "send" ->
                /\ \E quit \in Quits : world' = [world EXCEPT !.quit = @ \/ quit]
                /\ UNCHANGED toGateway
                /\ IF Len(commands) < WorldQueueSize
                   THEN commands' = Append(commands, Command(m.n)) /\ UNCHANGED blocked
                   ELSE blocked' = m.n /\ UNCHANGED commands
  /\ UNCHANGED <<upstream, written, used>>

(* Seeded fault: the reader puts its command again.                        *)
UnblockKeeping ==
  /\ blocked # None
  /\ Len(commands) < WorldQueueSize
  /\ commands' = Append(commands, Command(blocked))
  /\ UNCHANGED <<upstream, toWorld, toGateway, blocked, world, written, used>>

(* The reader's put goes on.                                               *)
Unblock ==
  /\ blocked # None
  /\ Len(commands) < WorldQueueSize
  /\ commands' = Append(commands, Command(blocked))
  /\ blocked' = None
  /\ UNCHANGED <<upstream, toWorld, toGateway, world, written, used>>

(* The connection is made; the startup commands follow.                    *)
Connect ==
  /\ world.phase = "connecting"
  /\ used.attempts < MaxAttempts
  /\ used' = [used EXCEPT !.attempts = @ + 1]
  /\ world' = [world EXCEPT !.phase = "startup", !.generation = @ + 1,
                            !.state = "connected", !.sent = 0]
  /\ Tell(<<"connected">>, world'.generation)
  /\ UNCHANGED <<upstream, toWorld, blocked, commands, written>>

(* The attempt or the connection ended.                                    *)
Ended ==
  LET again == AutoReconnect /\ ~world.quit
  IN  /\ world' = [world EXCEPT !.phase = IF again THEN "waiting" ELSE "none",
                                !.state = IF again THEN "reconnect_wait" ELSE "stopped"]
      /\ Tell(<<"disconnected", world'.state>>, world.generation)

ConnectFails ==
  /\ world.phase = "connecting"
  /\ used.attempts < MaxAttempts
  /\ used' = [used EXCEPT !.attempts = @ + 1]
  /\ Ended
  /\ UNCHANGED <<upstream, toWorld, blocked, commands, written>>

RemoteCloses ==
  /\ world.phase = "serving"
  /\ Ended
  /\ Abandon
  /\ UNCHANGED <<upstream, toWorld, blocked, written, used>>

(* The reconnect delay is over.                                            *)
Retry ==
  /\ world.phase = "waiting"
  /\ world' = [world EXCEPT !.phase = "connecting", !.state = "connecting"]
  /\ Tell(<<"connecting">>, world.generation)
  /\ UNCHANGED <<upstream, toWorld, blocked, commands, written, used>>

(* _send_startup puts each command on the queue; reader and writer start   *)
(* after it.                                                               *)
SendStartup ==
  /\ world.phase = "startup"
  /\ IF world.sent = StartupCount
     THEN world' = [world EXCEPT !.phase = "serving"] /\ UNCHANGED commands
     ELSE /\ Len(commands) < WorldQueueSize
          /\ commands' = Append(commands, Startup(world.generation, world.sent + 1))
          /\ world' = [world EXCEPT !.sent = @ + 1]
  /\ UNCHANGED <<upstream, toWorld, toGateway, blocked, written, used>>

(* _write_connection.                                                      *)
WriteCommand ==
  /\ world.phase = "serving"
  /\ commands # <<>>
  /\ commands' = Tail(commands)
  /\ written' = Append(written, [item |-> Head(commands), generation |-> world.generation])
  /\ UNCHANGED <<upstream, toWorld, toGateway, blocked, world, used>>
-----------------------------------------------------------------------------
Init ==
  /\ submitted = <<>>
  /\ session = [runner |-> Autoconnect, holding |-> None, state |-> "stopped", generation |-> 0]
  /\ queue = IF Autoconnect THEN <<>> ELSE None
  /\ control = "idle"
  /\ toWorld = IF Autoconnect THEN <<[type |-> "start", n |-> 0]>> ELSE <<>>
  /\ toGateway = <<>>
  /\ blocked = None
  /\ world = [phase |-> "none", state |-> "stopped", generation |-> 0, quit |-> FALSE, sent |-> 0]
  /\ commands = <<>>
  /\ written = <<>>
  /\ used = [attempts |-> 0, controls |-> 0, restarts |-> 0]

GatewayStep ==
  \/ \E expected \in {None, session.generation} : Submit(expected)
  \/ TakeCommand \/ SendCommand \/ HandleState
  \/ \E action \in {"connect", "disconnect", "reconnect"} : Control(action)
  \/ Detach \/ Restart
  \/ GatewayRestart

ConnectorStep ==
  \/ Receive \/ Unblock
  \/ Connect \/ ConnectFails \/ RemoteCloses \/ Retry
  \/ SendStartup \/ WriteCommand

Next == GatewayStep \/ ConnectorStep

(* The tasks of both processes run when they can: the Gateway's write loop, *)
(* its bridge and a control request, the connector's reader and the runner *)
(* of the world.  UIs, the world and restarts owe nothing.                 *)
Fairness ==
  /\ WF_vars(TakeCommand \/ SendCommand)
  /\ WF_vars(HandleState)
  /\ WF_vars(Detach \/ Restart)
  /\ WF_vars(Receive \/ Unblock)
  /\ WF_vars(Retry \/ SendStartup \/ WriteCommand)

Spec == Init /\ [][Next]_vars /\ Fairness
-----------------------------------------------------------------------------
States == {"stopped", "connecting", "connected", "disconnected", "reconnect_wait"}
Items == [kind : {"command"}, n : Nat] \cup
         [kind : {"startup"}, generation : Nat, n : 1 .. StartupCount]

(* A session that does not run holds no command and has no queue.          *)
TypeOK ==
  /\ submitted \in Seq(Nat \cup {None})
  /\ session \in [runner : BOOLEAN, holding : Nat \cup {None}, state : States, generation : Nat]
  /\ session.runner <=> queue # None
  /\ ~session.runner => session.holding = None
  /\ queue # None => queue \in Seq(Nat)
  /\ control \in {"idle", "refused", "disconnect", "reconnect", "starting"}
  /\ toWorld \in Seq([type : {"start", "stop", "send"}, n : Nat])
  /\ toGateway \in Seq([state : States, generation : Nat])
  /\ blocked \in Nat \cup {None}
  /\ world \in [phase : {"none", "connecting", "startup", "serving", "waiting"}, state : States,
                generation : Nat, quit : BOOLEAN, sent : 0 .. StartupCount]
  /\ commands \in Seq(Items) /\ Len(commands) <= WorldQueueSize
  /\ written \in Seq([item : Items, generation : Nat])
  /\ used \in [attempts : Nat, controls : Nat, restarts : Nat]

IsCommand(w) == w.item.kind = "command"

(* What the world receives of the UIs' commands is in the order of their   *)
(* submission and nothing twice, over waiting, disconnecting, reconnecting *)
(* and restarting (the three queues, the write loops and their             *)
(* cancellation together).                                                 *)
WrittenInOrder ==
  \A i, j \in DOMAIN written :
    i < j /\ IsCommand(written[i]) /\ IsCommand(written[j]) =>
      written[i].item.n < written[j].item.n

(* Once nothing is under way the Gateway knows the state and generation of *)
(* the world connection, also a Gateway that found it connected (start()'s *)
(* resumed state, handle_connector_event, _detach).                        *)
ViewAgrees ==
  toWorld = <<>> /\ toGateway = <<>> /\ control \in {"idle", "refused"} =>
    session.state = world.state /\ session.generation = world.generation

UnderWay(n) ==
  \/ session.holding = n \/ blocked = n
  \/ queue # None /\ n \in ToSet(queue)
  \/ n \in {m.n : m \in ToSet(toWorld)}
  \/ Command(n) \in ToSet(commands)

(* A command of a connected world does not stay in some queue: it is       *)
(* written, discarded or the connection ends (the two write loops and the  *)
(* connector's reader).                                                    *)
CommandsSettle ==
  \A n \in 1 .. MaxCommands : UnderWay(n) ~> ~UnderWay(n) \/ world.phase # "serving"
=============================================================================
