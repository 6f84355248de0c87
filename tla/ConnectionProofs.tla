-------------------------- MODULE ConnectionProofs --------------------------
(***************************************************************************)
(* Proofs about the two ends of a connection: ClientLifecycle, for any     *)
(* number of Gateway processes, attempts, faults and recoveries that run at*)
(* once; GatewaySupervisor, for every number of processes, restart         *)
(* requests, crashes and signals, in every order; and GatewayFeed, which   *)
(* implements EventFeed whatever happens to the connections and the        *)
(* Gateway.                                                                *)
(***************************************************************************)
EXTENDS ClientLifecycle, GatewaySupervisor, GatewayFeed, EventHistoryProofs,
        FiniteSetTheorems, TLAPS

-----------------------------------------------------------------------------
(* The client: ClientLifecycle.                                            *)

ActivitiesTypeOK ==
    pc \in [Tasks -> {"idle", "waiting", "insisting", "queued", "joining", "pause"}]

\* The UI shows a Gateway it does not read from only until the recovery of a restart, which
\* is already waiting for the runtime's lock, has got it.
LostIsNoticed == link = "none" /\ uiShows => \E r \in Recoveries : pc[r] = "waiting"

\* It shows none although it reads from one only until an activity, which is already waiting
\* for the client's lock, has cut that connection.
UnshownIsCut == link # "none" /\ ~uiShows => \E t \in Tasks : pc[t] = "queued"

LifecycleInv == ActivitiesTypeOK /\ LostIsNoticed /\ UnshownIsCut

LEMMA LifecycleInvInit == LifecycleInit => LifecycleInv
  BY DEF LifecycleInit, LifecycleInv, ActivitiesTypeOK, LostIsNoticed, UnshownIsCut

LEMMA FreshIsIdle ==
  ASSUME NEW tasks, Idle(tasks) # {}
  PROVE  Fresh(tasks) \in tasks /\ pc[Fresh(tasks)] = "idle"
  BY DEF Fresh, Idle

LEMMA RecoveriesAreTasks == Recoveries \subseteq Tasks /\ UpdateRecoveries \subseteq Tasks
  BY DEF Tasks

LEMMA KindsDiffer ==
  /\ Supervisor \in Tasks /\ Manual \in Tasks
  /\ Supervisor \notin Recoveries /\ Manual \notin Recoveries
  BY DEF Tasks, Supervisor, Manual, Recoveries

\* The end of the pump: whoever is told, a recovery that waited goes on waiting, and the one
\* that is started waits in turn.
LEMMA DisconnectedKeepsInv ==
  ASSUME ActivitiesTypeOK, NEW changes \in [Tasks -> {"idle", "waiting", "insisting", "queued",
                                                      "joining", "pause"}],
         \A r \in Tasks : pc[r] = "idle" => changes[r] = "idle",
         Disconnected(changes), link' = "none"
  PROVE  LifecycleInv'
<1>1. UnshownIsCut'  BY DEF UnshownIsCut
<1>2. CASE leaving /\ ~uiShows' /\ Idle(UpdateRecoveries) # {}
           /\ pc' = [changes EXCEPT ![Fresh(UpdateRecoveries)] = "queued"]
  <2>1. ActivitiesTypeOK'  BY <1>2 DEF ActivitiesTypeOK
  <2>2. QED  BY <1>1, <1>2, <2>1 DEF LifecycleInv, LostIsNoticed
<1>3. CASE ~leaving /\ Idle(Recoveries) # {}
           /\ pc' = [changes EXCEPT ![Fresh(Recoveries)] = "waiting"]
  <2>1. ActivitiesTypeOK'  BY <1>3 DEF ActivitiesTypeOK
  <2>2. Fresh(Recoveries) \in Recoveries /\ pc'[Fresh(Recoveries)] = "waiting"
    BY <1>3, FreshIsIdle, RecoveriesAreTasks
  <2>3. QED  BY <1>1, <2>1, <2>2 DEF LifecycleInv, LostIsNoticed
<1>4. CASE ~leaving /\ ~uiShows' /\ pc' = changes
  BY <1>1, <1>4 DEF LifecycleInv, LostIsNoticed, ActivitiesTypeOK
<1>5. QED  BY <1>2, <1>3, <1>4 DEF Disconnected

\* The steps of the Gateway, the network, restarts and updates move no activity, but for the
\* end of the pump.
LEMMA SurroundingsKeepInv ==
  ASSUME LifecycleInv,
         \/ GatewayStops \/ GatewayStarts \/ LinkFallsSilent \/ LinkBreaks \/ OtherAsksRestart
         \/ AskRestart \/ GatewayTakesRestart \/ ReadAnswer \/ RestartStalls
         \/ BeginUpdate \/ EndUpdate \/ CommitUpdate
  PROVE  LifecycleInv'
<1>1. PumpEnds => LifecycleInv'
  BY DisconnectedKeepsInv DEF PumpEnds, LifecycleInv, ActivitiesTypeOK
<1>2. UNCHANGED <<link, uiShows, pc>> => LifecycleInv'
  BY DEF LifecycleInv, ActivitiesTypeOK, LostIsNoticed, UnshownIsCut
<1>3. CASE GatewayStops
  BY <1>1, <1>2, <1>3 DEF GatewayStops, taskVars
<1>4. CASE LinkFallsSilent
  BY <1>4 DEF LinkFallsSilent, taskVars, LifecycleInv, ActivitiesTypeOK, LostIsNoticed,
              UnshownIsCut
<1>5. CASE LinkBreaks  BY <1>1, <1>5 DEF LinkBreaks
<1>6. CASE GatewayStarts \/ OtherAsksRestart \/ AskRestart \/ GatewayTakesRestart
           \/ ReadAnswer \/ RestartStalls \/ BeginUpdate \/ EndUpdate \/ CommitUpdate
  BY <1>2, <1>6
     DEF GatewayStarts, OtherAsksRestart, AskRestart, GatewayTakesRestart, ReadAnswer,
         RestartStalls, BeginUpdate, EndUpdate, CommitUpdate, taskVars
<1>7. QED  BY <1>3, <1>4, <1>5, <1>6

\* The heartbeat and the command of the user start an activity that was idle.
LEMMA StartKeepsInv ==
  ASSUME LifecycleInv, HeartbeatFails \/ AskReconnect
  PROVE  LifecycleInv'
<1>1. PICK t \in {Supervisor, Manual}, state \in {"waiting", "insisting"} :
        pc[t] = "idle" /\ pc' = [pc EXCEPT ![t] = state]
  BY DEF HeartbeatFails, AskReconnect
<1>2. UNCHANGED <<link, uiShows>>  BY DEF HeartbeatFails, AskReconnect
<1>3. t \in Tasks /\ t \notin Recoveries  BY KindsDiffer
<1>4. QED
  BY <1>1, <1>2, <1>3, RecoveriesAreTasks
     DEF LifecycleInv, ActivitiesTypeOK, LostIsNoticed, UnshownIsCut

LEMMA TaskKeepsInv ==
  ASSUME LifecycleInv, NEW t \in Tasks, TaskStep(t)
  PROVE  LifecycleInv'
<1> USE RecoveriesAreTasks DEF LifecycleInv, ActivitiesTypeOK
<1>1. CASE FindHealthy(t)
  <2>1. t \notin Recoveries  BY <1>1, KindsDiffer DEF FindHealthy
  <2>2. uiShows /\ pc' = [pc EXCEPT ![t] = "idle"] /\ UNCHANGED <<link, uiShows>>
    BY <1>1 DEF FindHealthy, Finish
  <2>3. QED  BY <2>1, <2>2 DEF LostIsNoticed, UnshownIsCut
<1>2. CASE TakeLock(t)
  <2>1. ~uiShows' /\ pc' = [pc EXCEPT ![t] = "queued"]  BY <1>2 DEF TakeLock
  <2>2. pc'[t] = "queued"  BY <2>1
  <2>3. QED  BY <2>1, <2>2 DEF LostIsNoticed, UnshownIsCut
<1>3. CASE Cut(t)
  <2> DEFINE changes == [pc EXCEPT ![t] = "joining"]
  <2>1. pc[t] = "queued" /\ link' = "none"  BY <1>3 DEF Cut
  <2>2. CASE link = "none" /\ pc' = changes /\ uiShows' = uiShows
    BY <2>1, <2>2 DEF LostIsNoticed, UnshownIsCut
  <2>3. CASE Disconnected(changes)
    <3>1. \A r \in Tasks : pc[r] = "idle" => changes[r] = "idle"  BY <2>1
    <3>2. changes \in [Tasks -> {"idle", "waiting", "insisting", "queued", "joining", "pause"}]
      OBVIOUS
    <3> HIDE DEF changes
    <3>3. QED  BY <2>1, <2>3, <3>1, <3>2, DisconnectedKeepsInv
  <2>4. QED  BY <1>3, <2>2, <2>3 DEF Cut
<1>4. CASE Join(t)
  <2>1. link' = "open" /\ uiShows' = TRUE /\ pc' = [pc EXCEPT ![t] = "idle"]
    BY <1>4 DEF Join, Finish
  <2>2. QED  BY <2>1 DEF LostIsNoticed, UnshownIsCut
<1>5. CASE FailToJoin(t)
  <2>1. pc[t] = "joining" /\ UNCHANGED <<link, uiShows>>  BY <1>5 DEF FailToJoin
  <2>2. PICK state \in {"pause", "idle"} : pc' = [pc EXCEPT ![t] = state]
    BY <1>5 DEF FailToJoin, Finish
  <2>3. QED  BY <2>1, <2>2 DEF LostIsNoticed, UnshownIsCut
<1>6. CASE TryAgain(t)
  <2>1. pc[t] = "pause" /\ pc' = [pc EXCEPT ![t] = "queued"] /\ UNCHANGED <<link, uiShows>>
    BY <1>6 DEF TryAgain
  <2>2. QED  BY <2>1 DEF LostIsNoticed, UnshownIsCut
<1>7. QED  BY <1>1, <1>2, <1>3, <1>4, <1>5, <1>6 DEF TaskStep

LEMMA LifecycleInvStep == LifecycleInv /\ [LifecycleNext]_lifeVars => LifecycleInv'
<1> SUFFICES ASSUME LifecycleInv, [LifecycleNext]_lifeVars PROVE LifecycleInv'
  OBVIOUS
<1>1. CASE UNCHANGED lifeVars
  BY <1>1 DEF lifeVars, taskVars, LifecycleInv, ActivitiesTypeOK, LostIsNoticed, UnshownIsCut
<1>2. ASSUME NEW t \in Tasks, TaskStep(t) PROVE LifecycleInv'  BY <1>2, TaskKeepsInv
<1>3. QED  BY <1>1, <1>2, SurroundingsKeepInv, StartKeepsInv DEF LifecycleNext

ShowsTypeOK == uiShows \in BOOLEAN

\* What is shown is a Boolean, which each step sets or leaves alone.
LEMMA ShowsStep == ShowsTypeOK /\ [LifecycleNext]_lifeVars => ShowsTypeOK'
<1> SUFFICES ASSUME uiShows \in BOOLEAN, [LifecycleNext]_lifeVars PROVE uiShows' \in BOOLEAN
  BY DEF ShowsTypeOK
<1>1. ASSUME NEW changes, Disconnected(changes) PROVE uiShows' \in {uiShows, FALSE}
  BY <1>1 DEF Disconnected
<1>2. ASSUME NEW t \in Tasks, TaskStep(t) PROVE uiShows' \in {uiShows, TRUE, FALSE}
  BY <1>1, <1>2 DEF TaskStep, FindHealthy, TakeLock, Cut, Join, FailToJoin, TryAgain
<1>3. CASE GatewayStops \/ LinkBreaks
  BY <1>1, <1>3 DEF GatewayStops, LinkBreaks, PumpEnds
<1>4. CASE \/ GatewayStarts \/ LinkFallsSilent \/ OtherAsksRestart
           \/ AskRestart \/ GatewayTakesRestart \/ ReadAnswer \/ RestartStalls
           \/ BeginUpdate \/ EndUpdate \/ CommitUpdate \/ HeartbeatFails \/ AskReconnect
           \/ UNCHANGED lifeVars
  <2>1. uiShows' = uiShows
    BY <1>4 DEF GatewayStarts, LinkFallsSilent, OtherAsksRestart, AskRestart,
                GatewayTakesRestart, ReadAnswer, RestartStalls, BeginUpdate, EndUpdate,
                CommitUpdate, HeartbeatFails, AskReconnect, lifeVars
  <2>2. QED  BY <2>1
<1>5. QED  BY <1>2, <1>3, <1>4, Zenon DEF LifecycleNext

\* However many disconnections, restarts, updates and recoveries overlap: once every
\* activity has ended, plugins were told last what is the case (gateway_client.py
\* _handle_disconnect, reconnect).
THEOREM ShownIsTrue == LifecycleSpec => []ShownAgrees
<1>1. LifecycleInit => ShowsTypeOK  BY DEF LifecycleInit, ShowsTypeOK
<1>2. LifecycleInv /\ ShowsTypeOK => ShownAgrees
  <2> SUFFICES ASSUME LifecycleInv, uiShows \in BOOLEAN, \A t \in Tasks : pc[t] = "idle"
               PROVE  uiShows = (link # "none")
    BY DEF ShownAgrees, ShowsTypeOK
  <2>1. ~(link = "none" /\ uiShows)  BY RecoveriesAreTasks DEF LifecycleInv, LostIsNoticed
  <2>2. ~(link # "none" /\ ~uiShows)  BY DEF LifecycleInv, UnshownIsCut
  <2>3. QED  BY <2>1, <2>2, Zenon
<1>3. QED
  BY LifecycleInvInit, LifecycleInvStep, ShowsStep, <1>1, <1>2, PTL DEF LifecycleSpec

-----------------------------------------------------------------------------
(* The supervisor: GatewaySupervisor.                                      *)

\* The types of the variables the argument depends on.
SupervisorTypeOK ==
    /\ sup \in {"watching", "handing", "reaping", "ended"}
    /\ child \in {"none", "booting", "serving", "stopping", "gone"}
    /\ exitStatus \in {Alright, Failed, Refused, RestartStatus}
    /\ errors \in Nat

\* What may close the worlds: a signal, the end of the lease, a reported error.
Excused == stop \/ lapsed \/ errors > 0

\* The supervisor reaps only a process that has ended.
ReapsTheDead ==
    /\ sup = "handing" => child # "none"
    /\ sup = "reaping" => child = "gone"

\* Everything that leads to the end of the supervisor has an excuse: the event _expired, a
\* child that stops for good, and the exit status of one that did.
EndIsExcused ==
    /\ expired => Excused
    /\ child = "stopping" /\ ~preserve => Excused
    /\ child = "gone" /\ exitStatus \in {Alright, Refused} => Excused
    /\ ~worlds => Excused

SupervisorInv == SupervisorTypeOK /\ ReapsTheDead /\ EndIsExcused

LEMMA SupervisorInvInit == SupervisorInit => SupervisorInv
  BY DEF SupervisorInit, SupervisorInv, SupervisorTypeOK, ReapsTheDead, EndIsExcused, Excused,
         Alright, Failed, Refused, RestartStatus

\* The steps of the child process, whoever caused them.
LEMMA ChildKeepsInv ==
  ASSUME SupervisorInv,
         Attach \/ Serve \/ Crash \/ Error \/ Detach \/ RestartForUpdate \/ StopChild
  PROVE  SupervisorInv'
<1> USE SupervisorAssumption
        DEF SupervisorInv, SupervisorTypeOK, ReapsTheDead, EndIsExcused, Excused, childVars,
            flagVars, ChildAlive, Exit, Alright, Failed, Refused, RestartStatus
<1>1. CASE Attach  BY <1>1 DEF Attach
<1>2. CASE Serve  BY <1>2 DEF Serve
<1>3. CASE Crash  BY <1>3 DEF Crash
<1>4. CASE Error  BY <1>4 DEF Error
<1>5. CASE Detach  BY <1>5 DEF Detach
<1>6. CASE RestartForUpdate  BY <1>6 DEF RestartForUpdate
<1>7. CASE StopChild
  <2>1. expired' => Excused'  BY <1>7 DEF StopChild
  <2>2. child' = "gone" /\ (exitStatus' = RestartStatus \/ ~preserve)  BY <1>7 DEF StopChild
  <2>3. QED  BY <1>7, <2>1, <2>2 DEF StopChild
<1>8. QED  BY <1>1, <1>2, <1>3, <1>4, <1>5, <1>6, <1>7

\* The steps of supervise_gateway.
LEMMA SupervisorKeepsInv ==
  ASSUME SupervisorInv, SupervisorStep
  PROVE  SupervisorInv'
<1> USE SupervisorAssumption
        DEF SupervisorInv, SupervisorTypeOK, ReapsTheDead, EndIsExcused, Excused, childVars,
            flagVars, ChildAlive, Exit, Signal, EndsSupervisor,
            Alright, Failed, Refused, RestartStatus
<1>1. CASE StartChild  BY <1>1 DEF StartChild
<1>2. CASE HandOver  BY <1>2 DEF HandOver
<1>3. CASE HandedOver  BY <1>3 DEF HandedOver
<1>4. CASE Terminate  BY <1>4 DEF Terminate
<1>5. CASE NoticeExit  BY <1>5 DEF NoticeExit
<1>6. CASE End
  <2>1. CASE sup = "reaping" /\ EndsSupervisor  BY <1>6, <2>1 DEF End
  <2>2. CASE sup = "watching" /\ child = "none" /\ (stop \/ expired)  BY <1>6, <2>2 DEF End
  <2>3. QED  BY <1>6, <2>1, <2>2 DEF End
<1>7. CASE Restart  BY <1>7 DEF Restart
<1>8. QED  BY <1>1, <1>2, <1>3, <1>4, <1>5, <1>6, <1>7 DEF SupervisorStep

\* Requests for a restart, signals to the service and the end of the lease.
LEMMA RequestKeepsInv ==
  ASSUME SupervisorInv, ChildAsksRestart \/ StopService \/ LeaseRunsOut
  PROVE  SupervisorInv'
  BY DEF SupervisorInv, SupervisorTypeOK, ReapsTheDead, EndIsExcused, Excused, childVars,
         flagVars, ChildAsksRestart, StopService, LeaseRunsOut

LEMMA SupervisorInvStep ==
  ASSUME SupervisorInv, [SupervisorNext]_supervisorVars
  PROVE  SupervisorInv'
<1>1. CASE SupervisorStep  BY <1>1, SupervisorKeepsInv
<1>2. CASE Attach \/ Serve \/ Crash \/ Error \/ Detach \/ RestartForUpdate \/ StopChild
  BY <1>2, ChildKeepsInv
<1>3. CASE ChildAsksRestart \/ StopService \/ LeaseRunsOut  BY <1>3, RequestKeepsInv
<1>4. CASE UNCHANGED supervisorVars
  BY <1>4 DEF supervisorVars, childVars, flagVars, SupervisorInv, SupervisorTypeOK,
              ReapsTheDead, EndIsExcused, Excused
<1>5. QED  BY <1>1, <1>2, <1>3, <1>4 DEF SupervisorNext, ChildStep

\* The worlds are closed only after a signal, the end of the lease or an error that the
\* Gateway reported (world_connector.py supervise_gateway).
THEOREM WorldsClosedForAReason == SupervisorSpec => [](~worlds => Excused)
<1>1. SupervisorInv => (~worlds => Excused)  BY DEF SupervisorInv, EndIsExcused
<1>2. QED  BY SupervisorInvInit, SupervisorInvStep, <1>1, PTL DEF SupervisorSpec

\* Without reported errors a Gateway that crashes, restarts or is replaced at whatever moment
\* leaves the worlds open (README.md:155).
THEOREM WorldsSurvive == ASSUME MaxErrors = 0 PROVE SupervisorSpec => []WorldsOutliveGateway
<1> DEFINE Spotless == SupervisorInv /\ errors = 0
<1>1. SupervisorInit => Spotless  BY SupervisorInvInit DEF SupervisorInit
<1>2. Spotless /\ [SupervisorNext]_supervisorVars => Spotless'
  <2> SUFFICES ASSUME Spotless, [SupervisorNext]_supervisorVars
               PROVE  errors' = 0
    BY SupervisorInvStep
  <2>1. ~Error  BY DEF Error
  <2>2. QED
    BY <2>1 DEF SupervisorNext, SupervisorStep, ChildStep, supervisorVars, childVars, flagVars,
         Attach, Serve, Crash, Detach, RestartForUpdate, StopChild, ChildAsksRestart,
         StopService, LeaseRunsOut, StartChild, HandOver, HandedOver, Terminate, NoticeExit,
         End, Restart
<1>3. Spotless => WorldsOutliveGateway
  BY DEF SupervisorInv, EndIsExcused, Excused, WorldsOutliveGateway
<1>4. QED  BY <1>1, <1>2, <1>3, PTL DEF SupervisorSpec

-----------------------------------------------------------------------------
(* The events: GatewayFeed implements EventFeed.                           *)

(* A UI that asks for everything, whose Gateway hides nothing and whose    *)
(* publications no reconnection cancels.                                   *)
Undisturbed ==
  /\ MaxCancels = 0
  /\ GagSettings = {{}}
  /\ \A r \in Requests : r.worlds = Worlds /\ r.classes = Classes /\ r.includeHistory

(* What the history no longer retains is not past the newest drop.         *)
NoneForgotten == \A c \in 1 .. Cursor : c \in Retained(log[c].world) \/ c <= droppedThrough

OpenHistory == FeedInv /\ gag = {} /\ shown = 1 .. Cursor /\ NoneForgotten

Client == [gateway : Nat \cup {None}, cursor : Nat, conn : Subscribers \cup {None},
           position : Nat, mode : {"offline", "dialing", "stale", "restoring", "online"},
           truncated : BOOLEAN, pending : SUBSET Nat]

UiTypeOK ==
  /\ gatewayId \in Nat
  /\ alive \subseteq Subscribers
  /\ client \in Client
  /\ client.gateway # None => client.gateway <= gatewayId
  /\ client.gateway = gatewayId => client.cursor <= Cursor
  /\ client.pending \subseteq 1 .. client.cursor
  /\ displayed \in Seq(1 .. client.cursor)
  /\ reported \subseteq 1 .. client.cursor
  /\ cancelled = {}

(* Every event up to the UI's cursor is displayed, reported missing or     *)
(* about to be displayed, and what is displayed came before the latter.    *)
Accounted ==
  /\ 1 .. client.cursor \subseteq ToSet(displayed) \cup reported \cup client.pending
  /\ \A d \in ToSet(displayed), p \in client.pending : d < p
  /\ client.mode \notin {"restoring", "online"} => client.pending = {}

(* The snapshot of a connection that is being made continues the UI's      *)
(* cursor.  Without truncation nothing is missing between them.            *)
SnapshotContinues(s) ==
  /\ sub[s].request \in Requests
  /\ client.position = 0
  /\ client.gateway = gatewayId =>
       /\ client.cursor <= sub[s].cursor
       /\ sub[s].events \subseteq client.cursor + 1 .. sub[s].cursor
       /\ ~client.truncated => client.cursor + 1 .. sub[s].cursor \subseteq sub[s].events
  /\ client.gateway # gatewayId => sub[s].events \subseteq 1 .. sub[s].cursor

(* The cursor of an established connection is that of the last event read. *)
CursorIsRead(s) ==
  /\ sub[s].request \in Requests
  /\ client.gateway = gatewayId
  /\ client.position <= Len(received[s])
  /\ client.cursor = IF client.position = 0 THEN sub[s].cursor
                     ELSE received[s][client.position]

Linked ==
  client.conn \in alive =>
    /\ client.mode = "dialing" => SnapshotContinues(client.conn)
    /\ client.mode \in {"restoring", "online"} => CursorIsRead(client.conn)

UiInv == OpenHistory /\ UiTypeOK /\ Accounted /\ Linked

LEMMA ToSetOfSeq ==
  ASSUME NEW S, NEW q \in Seq(S)
  PROVE  ToSet(q) \subseteq S
<1>1. DOMAIN q = 1 .. Len(q) /\ \A i \in 1 .. Len(q) : q[i] \in S
  BY LenProperties, ElementOfSeq
<1> QED
  BY <1>1 DEF ToSet

LEMMA ToSetAppend ==
  ASSUME NEW S, NEW q \in Seq(S), NEW x \in S
  PROVE  ToSet(Append(q, x)) = ToSet(q) \cup {x}
<1>1. /\ Append(q, x) \in Seq(S) /\ Len(Append(q, x)) = Len(q) + 1
      /\ \A i \in 1 .. Len(q) : Append(q, x)[i] = q[i]
      /\ Append(q, x)[Len(q) + 1] = x
  BY AppendProperties
<1>2. Len(q) \in Nat /\ DOMAIN q = 1 .. Len(q) /\ DOMAIN Append(q, x) = 1 .. Len(q) + 1
  BY <1>1, LenProperties
<1> QED
  BY <1>1, <1>2 DEF ToSet

LEMMA ToSetTail ==
  ASSUME NEW S, NEW q \in Seq(S), q # <<>>
  PROVE  ToSet(q) \subseteq {Head(q)} \cup ToSet(Tail(q))
<1>1. /\ Tail(q) \in Seq(S) /\ Len(Tail(q)) = Len(q) - 1
      /\ \A i \in 1 .. Len(Tail(q)) : Tail(q)[i] = q[i + 1]
      /\ Head(q) = q[1]
  BY HeadTailProperties
<1>2. Len(q) \in Nat /\ DOMAIN q = 1 .. Len(q) /\ DOMAIN Tail(q) = 1 .. Len(q) - 1
  BY <1>1, LenProperties
<1>3. ASSUME NEW i \in DOMAIN q, i # 1
      PROVE  i - 1 \in DOMAIN Tail(q) /\ Tail(q)[i - 1] = q[i]
  BY <1>1, <1>2, <1>3
<1> QED
  BY <1>1, <1>3 DEF ToSet

LEMMA PumpForgetsNone ==
  ASSUME TypeOK, gag = {}, NoneForgotten, Pump
  PROVE  NoneForgotten'
<1>1. PICK e \in Event : log' = Append(log, e) /\ Retain(e)
  <2>1. Head(ingress) \in Event
    BY HeadTailProperties DEF Pump, TypeOK
  <2> QED
    BY <2>1 DEF Pump
<1>2. /\ Cursor \in Nat /\ Cursor' = Cursor + 1
      /\ \A c \in 1 .. Cursor : log'[c] = log[c] /\ log[c] \in Event
      /\ log'[Cursor + 1] = e
  <2>1. log \in Seq(Event)
    BY DEF TypeOK
  <2>2. /\ Len(log) \in Nat /\ Len(log') = Len(log) + 1 /\ log'[Len(log) + 1] = e
        /\ \A c \in 1 .. Len(log) : log'[c] = log[c]
    BY <1>1, <2>1, AppendProperties, LenProperties
  <2>3. \A c \in 1 .. Len(log) : log[c] \in Event
    BY <2>1, ElementOfSeq
  <2> QED
    BY <2>2, <2>3 DEF Cursor
<1>3. PICK w \in Worlds : w = e.world
  BY DEF Event
<1>4. PICK q \in Seq(1 .. Cursor) : q = history[w]
  BY DEF TypeOK
<1>5. Len(q) = Limit[w] => q # <<>>
  BY <1>4, EmptySeq, HistoryAssumption
<1>6. \A v \in Worlds : v # w => history'[v] = history[v]
  BY <1>1, <1>3 DEF Retain, TypeOK
<1>7. /\ Cursor + 1 \in ToSet(history'[w])
      /\ \A c \in ToSet(q) : c \in ToSet(history'[w]) \/ (Len(q) = Limit[w] /\ c = Head(q))
  <2>0. PICK n \in Nat : n = Cursor + 1
    BY <1>2
  <2>1. CASE Len(q) = Limit[w]
    <3>1. PICK t \in Seq(Nat) : t = Tail(q)
      <4>1. Tail(q) \in Seq(1 .. Cursor)
        BY <1>4, <1>5, <2>1, HeadTailProperties
      <4> QED
        BY <1>2, <4>1, SeqWidens, 1 .. Cursor \subseteq Nat
    <3>2. history'[w] = Append(t, n)
      BY <1>1, <1>3, <1>4, <2>0, <2>1, <3>1 DEF Retain, TypeOK
    <3>3. ToSet(Append(t, n)) = ToSet(t) \cup {n}
      BY ToSetAppend
    <3>4. ToSet(q) \subseteq {Head(q)} \cup ToSet(t)
      BY <1>4, <1>5, <2>1, <3>1, ToSetTail
    <3>5. ToSet(history'[w]) = ToSet(t) \cup {n}
      BY <3>2, <3>3
    <3> QED
      BY <2>0, <2>1, <3>4, <3>5
  <2>2. CASE Len(q) # Limit[w]
    <3>1. history'[w] = Append(q, n)
      BY <1>1, <1>3, <1>4, <2>0, <2>2 DEF Retain, TypeOK
    <3>2. q \in Seq(Nat)
      BY <1>2, <1>4, SeqWidens, 1 .. Cursor \subseteq Nat
    <3>3. ToSet(Append(q, n)) = ToSet(q) \cup {n}
      BY <3>2, ToSetAppend
    <3>4. ToSet(history'[w]) = ToSet(q) \cup {n}
      BY <3>1, <3>3
    <3> QED
      BY <2>0, <3>4
  <2> QED
    BY <2>1, <2>2
<1>8. /\ droppedThrough \in Nat /\ droppedThrough <= droppedThrough'
      /\ droppedThrough' \in Int
      /\ Len(q) = Limit[w] => Head(q) <= droppedThrough'
  <2>1. droppedThrough \in Nat
    BY <1>2 DEF TypeOK
  <2>2. CASE Len(q) = Limit[w]
    <3>1. Drop(Head(q))
      BY <1>1, <1>3, <1>4, <2>2 DEF Retain
    <3>2. Head(q) \in Nat
      BY <1>2, <1>4, <1>5, <2>2, HeadTailProperties
    <3>3. Visible(Head(q))
      BY DEF Visible
    <3>4. PICK h \in Nat : h = Head(q)
      BY <3>2
    <3>5. droppedThrough' = IF h > droppedThrough THEN h ELSE droppedThrough
      BY <3>1, <3>3, <3>4 DEF Drop
    <3> QED
      BY <2>1, <3>4, <3>5
  <2>3. CASE Len(q) # Limit[w]
    BY <1>1, <1>3, <1>4, <2>1, <2>3 DEF Retain
  <2> QED
    BY <2>1, <2>2, <2>3
<1>9. SUFFICES ASSUME NEW c \in 1 .. Cursor + 1
               PROVE  c \in ToSet(history'[log'[c].world]) \/ c <= droppedThrough'
  BY <1>2 DEF NoneForgotten, Retained
<1>10. CASE c = Cursor + 1
  BY <1>2, <1>3, <1>7, <1>10
<1>11. CASE c # Cursor + 1
  <2>1. c \in 1 .. Cursor /\ log'[c] = log[c] /\ log[c].world \in Worlds
    BY <1>2, <1>11 DEF Event
  <2>2. c \in ToSet(history[log[c].world]) \/ c <= droppedThrough
    BY <2>1 DEF NoneForgotten, Retained
  <2>3. CASE c <= droppedThrough
    BY <1>8, <2>1, <2>3
  <2>4. CASE c \in ToSet(history[log[c].world])
    BY <1>4, <1>6, <1>7, <1>8, <2>1, <2>4
  <2> QED
    BY <2>2, <2>3, <2>4
<1> QED
  BY <1>10, <1>11

LEMMA HistoryStaysOpen == Undisturbed /\ OpenHistory /\ [Next]_vars => OpenHistory'
<1> SUFFICES ASSUME Undisturbed, OpenHistory, [Next]_vars PROVE OpenHistory'
  OBVIOUS
<1>1. FeedInv /\ TypeOK /\ gag = {} /\ shown = 1 .. Cursor /\ NoneForgotten
  BY DEF OpenHistory, FeedInv
<1>2. FeedInv' /\ TypeOK'
  BY <1>1, StepFeedInv DEF FeedInv
<1>3. gag' = {}
  BY <1>2 DEF TypeOK, Undisturbed
<1>4. CASE Pump
  <2>1. NoneForgotten'
    BY <1>1, <1>4, PumpForgetsNone
  <2>2. Cursor \in Nat /\ Cursor' = Cursor + 1
    <3>1. PICK e \in Event : log' = Append(log, e)
      <4>1. Head(ingress) \in Event
        BY <1>1, <1>4, HeadTailProperties DEF Pump, TypeOK
      <4> QED
        BY <1>4, <4>1 DEF Pump
    <3>2. log \in Seq(Event)
      BY <1>1 DEF TypeOK
    <3> QED
      BY <3>1, <3>2, AppendProperties, LenProperties DEF Cursor
  <2>3. shown' = shown \cup {Cursor + 1}
    BY <1>1, <1>4 DEF Pump
  <2>4. shown' = 1 .. Cursor'
    BY <1>1, <2>2, <2>3
  <2> QED
    BY <1>2, <1>3, <2>1, <2>4 DEF OpenHistory
<1>5. CASE UNCHANGED <<log, shown, history, droppedThrough>>
  <2>1. NoneForgotten'
    BY <1>1, <1>5 DEF NoneForgotten, Retained, Cursor
  <2> QED
    BY <1>1, <1>2, <1>3, <1>5, <2>1 DEF OpenHistory, Cursor
<1>6. Pump \/ UNCHANGED <<log, shown, history, droppedThrough>>
  BY DEF Next, vars, retention, Publish, Subscribe, Take, Unsubscribe, ManageGag, StopJoin,
         StopClose
<1> QED
  BY <1>4, <1>5, <1>6

LEMMA RestartedIsOpen == Undisturbed /\ OpenHistory /\ GatewayRestart => OpenHistory'
<1> SUFFICES ASSUME Undisturbed, OpenHistory, GatewayRestart PROVE OpenHistory'
  OBVIOUS
<1>1. TypeOK /\ gag = {}
  BY DEF OpenHistory, FeedInv
<1>2. /\ ingress' = <<>> /\ log' = <<>> /\ shown' = {} /\ droppedThrough' = 0
      /\ history' = [w \in Worlds |-> <<>>]
      /\ counts' = [w \in Worlds |-> [generation |-> -1, n |-> [k \in Classes |-> 0]]]
      /\ genDropped' = [w \in Worlds |-> Unmarked]
      /\ sub' = [s \in Subscribers |-> NoSnapshot]
      /\ queue' = [s \in Subscribers |-> <<>>] /\ received' = [s \in Subscribers |-> <<>>]
      /\ phase' = "running" /\ gag' = gag
  BY DEF GatewayRestart
<1>3. status' \in [Subscribers -> {"unused", "gone"}]
  BY <1>1 DEF GatewayRestart, TypeOK
<1>4. Cursor' = 0 /\ 0 .. Cursor' = {0} /\ 1 .. Cursor' = {}
  BY <1>2 DEF Cursor
<1>5. /\ ingress' \in Seq(Event) /\ log' \in Seq(Event)
      /\ history' \in [Worlds -> Seq(1 .. Cursor')]
      /\ received' \in [Subscribers -> Seq(1 .. Cursor')]
      /\ queue' \in [Subscribers -> Seq((1 .. Cursor') \cup {None})]
  BY <1>2, EmptySeq
<1>6. counts' \in [Worlds -> [generation : Generations \cup {-1}, n : [Classes -> Nat]]]
  BY <1>2
<1>7. genDropped' \in
        [Worlds -> [generation : Generations \cup {-1}, cursor : [Classes -> 0 .. Cursor']]]
  BY <1>2, <1>4 DEF Unmarked
<1>8. sub' \in [Subscribers -> [request : Requests \cup {None}, after : Nat \cup {None},
                                cursor : 0 .. Cursor', events : SUBSET (1 .. Cursor')]]
  BY <1>2, <1>4 DEF NoSnapshot
<1>9. /\ status' \in [Subscribers -> {"unused", "open", "closed", "told", "gone"}]
      /\ gag' \in GagSettings /\ phase' \in {"running", "draining", "stopped"}
      /\ droppedThrough' \in 0 .. Cursor' /\ shown' \subseteq 1 .. Cursor'
  BY <1>1, <1>2, <1>3, <1>4 DEF TypeOK
<1>10. TypeOK'
  BY <1>5, <1>6, <1>7, <1>8, <1>9 DEF TypeOK
<1>11. ASSUME NEW s \in Subscribers
       PROVE  Fed(s)'
  <2>1. /\ queue'[s] = <<>> /\ received'[s] = <<>> /\ status'[s] # "closed"
        /\ status'[s] # "open"
    BY <1>2, <1>3
  <2> QED
    BY <2>1 DEF Fed, Prefix, Ascending
<1>12. NoneForgotten' /\ shown' = 1 .. Cursor'
  BY <1>2, <1>4 DEF NoneForgotten
<1> QED
  BY <1>1, <1>2, <1>10, <1>11, <1>12 DEF OpenHistory, FeedInv

(* A step of the feed is a step of the history, or the Gateway restarts.   *)
LEMMA FeedStepOfHistory == FeedNext => [Next]_vars \/ GatewayRestart
<1> SUFFICES ASSUME FeedNext PROVE [Next]_vars \/ GatewayRestart
  OBVIOUS
<1>1. ASSUME NEW s \in Subscribers, NEW r \in Requests, Hello(s, r)
      PROVE  Next
  <2>1. Resume \in (0 .. Cursor) \cup {None}
    BY <1>1 DEF Hello, Subscribe
  <2> QED
    BY <1>1, <2>1 DEF Hello, Next
<1>2. ASSUME NEW s \in Subscribers, Hangup(s)
      PROVE  Next
  BY <1>2 DEF Hangup, Next
<1>3. CASE HistoryStep
  BY <1>3 DEF HistoryStep, Next
<1>4. CASE DialFails \/ (\E restarting \in BOOLEAN : Install(restarting)) \/ Reload
           \/ Publishing \/ StartReading \/ ReadEvent \/ ReadEnd \/ Reconnect \/ Break
  BY <1>4 DEF DialFails, Install, Reload, Publishing, StartReading, ReadEvent, ReadEnd,
              Reconnect, Break
<1> QED
  BY <1>1, <1>2, <1>3, <1>4 DEF FeedNext

LEMMA OpenHistoryKept == Undisturbed /\ OpenHistory /\ [FeedNext]_allVars => OpenHistory'
  BY HistoryStaysOpen, RestartedIsOpen, FeedStepOfHistory DEF allVars

(* A step that neither moves the UI's cursor nor writes its connection.    *)
LEMMA LinkFrame ==
  ASSUME Linked, UNCHANGED <<gatewayId, sub, received>>, alive' \subseteq alive,
         client'.gateway = client.gateway, client'.cursor = client.cursor,
         client'.conn = client.conn, client'.position = client.position,
         client'.truncated = client.truncated,
         \/ client'.mode = client.mode
         \/ client'.mode \in {"offline", "stale"}
         \/ client.mode = "restoring" /\ client'.mode = "online"
  PROVE  Linked'
  BY DEF Linked, SnapshotContinues, CursorIsRead

(* A step of the UI that reads and publishes nothing.                      *)
LEMMA UiFrame ==
  ASSUME UiInv, UNCHANGED <<vars, gatewayId, displayed, reported, cancelled>>,
         alive' \subseteq alive, client' \in Client,
         client'.gateway = client.gateway, client'.cursor = client.cursor,
         client'.conn = client.conn, client'.position = client.position,
         client'.truncated = client.truncated, client'.pending = client.pending,
         \/ client'.mode = client.mode
         \/ client'.mode \in {"offline", "stale"} /\ client.pending = {}
         \/ client.mode = "restoring" /\ client'.mode = "online"
  PROVE  UiTypeOK' /\ Accounted' /\ Linked'
<1>1. Linked'
  <2>1. Linked /\ UNCHANGED <<sub, received>>
    BY DEF UiInv, vars, feeds
  <2> QED
    BY <2>1, LinkFrame
<1>2. UiTypeOK'
  BY DEF UiInv, UiTypeOK, vars, Cursor
<1>3. Accounted'
  BY DEF UiInv, Accounted
<1> QED
  BY <1>1, <1>2, <1>3

LEMMA HistoryKeepsUi ==
  ASSUME UiInv, HistoryStep \/ \E s \in Subscribers : Hangup(s)
  PROVE  UiTypeOK' /\ Accounted' /\ Linked'
<1>1. UNCHANGED <<gatewayId, alive, client, displayed, reported, cancelled, sub>>
  BY DEF HistoryStep, Hangup, ui, Publish, Pump, Take, StopJoin, StopClose, Unsubscribe, feeds
<1>2. TypeOK /\ UiTypeOK /\ Accounted /\ Linked
  BY DEF UiInv, OpenHistory, FeedInv
<1>3. Cursor \in Nat /\ Cursor' \in Nat /\ Cursor <= Cursor'
  <2>1. Cursor \in Nat
    BY <1>2, LenProperties DEF TypeOK, Cursor
  <2>2. CASE Pump
    <3>1. PICK e \in Event : log' = Append(log, e)
      <4>1. Head(ingress) \in Event
        BY <1>2, <2>2, HeadTailProperties DEF Pump, TypeOK
      <4> QED
        BY <2>2, <4>1 DEF Pump
    <3>2. log \in Seq(Event)
      BY <1>2 DEF TypeOK
    <3> QED
      BY <2>1, <3>1, <3>2, AppendProperties DEF Cursor
  <2>3. CASE log' = log
    BY <2>1, <2>3 DEF Cursor
  <2>4. Pump \/ log' = log
    BY DEF HistoryStep, Hangup, Publish, Take, StopJoin, StopClose, Unsubscribe
  <2> QED
    BY <2>2, <2>3, <2>4
<1>4. ASSUME NEW s \in Subscribers
      PROVE  /\ Len(received[s]) \in Nat /\ Len(received'[s]) \in Nat
             /\ Len(received[s]) <= Len(received'[s])
             /\ \A i \in 1 .. Len(received[s]) : received'[s][i] = received[s][i]
  <2>1. received[s] \in Seq(Items) /\ queue[s] \in Seq(Items)
    BY <1>2, StreamTypes
  <2>2. received'[s] = received[s] \/ \E x \in Items : received'[s] = Append(received[s], x)
    <3>1. CASE received' = received
      BY <3>1
    <3>2. ASSUME NEW u \in Subscribers, Take(u), received' # received
          PROVE  \E x \in Items : received'[s] = Append(received[s], x) \/ received'[s] = received[s]
      <4>1. Head(queue[u]) \in Items
        BY <1>2, <3>2, StreamTypes, HeadTailProperties DEF Take
      <4>2. received' = [received EXCEPT ![u] = Append(@, Head(queue[u]))]
        BY <3>2 DEF Take
      <4>3. received \in [Subscribers -> Seq(1 .. Cursor)]
        BY <1>2 DEF TypeOK
      <4> QED
        BY <4>1, <4>2, <4>3
    <3>3. received' = received \/ \E u \in Subscribers : Take(u)
      BY DEF HistoryStep, Hangup, Publish, Pump, StopJoin, StopClose, Unsubscribe, feeds
    <3> QED
      BY <3>1, <3>2, <3>3
  <2>3. CASE received'[s] = received[s]
    BY <2>1, <2>3, LenProperties
  <2>4. ASSUME NEW x \in Items, received'[s] = Append(received[s], x)
        PROVE  /\ Len(received[s]) \in Nat /\ Len(received'[s]) = Len(received[s]) + 1
               /\ \A i \in 1 .. Len(received[s]) : received'[s][i] = received[s][i]
    BY <2>1, <2>4, AppendProperties, LenProperties
  <2> QED
    BY <2>2, <2>3, <2>4
<1>5. UiTypeOK'
  BY <1>1, <1>2, <1>3 DEF UiTypeOK, Client
<1>6. Accounted'
  BY <1>1, <1>2 DEF Accounted
<1>7. Linked'
  <2>1. SUFFICES ASSUME client.conn \in alive
                 PROVE  /\ client.mode = "dialing" => SnapshotContinues(client.conn)'
                        /\ client.mode \in {"restoring", "online"} => CursorIsRead(client.conn)'
    BY <1>1 DEF Linked, SnapshotContinues, CursorIsRead
  <2>2. client.mode = "dialing" => SnapshotContinues(client.conn)'
    BY <1>1, <1>2, <2>1 DEF Linked, SnapshotContinues
  <2>3. ASSUME client.mode \in {"restoring", "online"}
        PROVE  CursorIsRead(client.conn)'
    <3>1. PICK s \in Subscribers : s = client.conn
      BY <1>2, <2>1 DEF UiTypeOK
    <3>2. CursorIsRead(s)
      BY <1>2, <2>1, <2>3, <3>1 DEF Linked
    <3>3. client.position \in Nat
      BY <1>2 DEF UiTypeOK, Client
    <3> QED
      BY <1>1, <1>4, <3>1, <3>2, <3>3 DEF CursorIsRead
  <2> QED
    BY <2>2, <2>3
<1> QED
  BY <1>5, <1>6, <1>7

LEMMA RestartKeepsUi ==
  ASSUME UiInv, GatewayRestart
  PROVE  UiTypeOK' /\ Accounted' /\ Linked'
<1>1. /\ gatewayId' = gatewayId + 1 /\ alive' = {}
      /\ UNCHANGED <<client, displayed, reported, cancelled>>
  BY DEF GatewayRestart
<1>2. UiTypeOK /\ Accounted
  BY DEF UiInv
<1>3. client.gateway # gatewayId'
  BY <1>1, <1>2, HistoryAssumption DEF UiTypeOK, Client
<1> QED
  BY <1>1, <1>2, <1>3, HistoryAssumption DEF UiTypeOK, Accounted, Linked, Client

(* A resumed snapshot lies after the cursor; one that is not truncated     *)
(* holds everything after it.                                              *)
LEMMA SnapshotOfAll ==
  ASSUME Undisturbed, OpenHistory, NEW r \in Requests, NEW after \in 0 .. Cursor
  PROVE  /\ Selected(r, after) \subseteq after + 1 .. Cursor
         /\ ~Truncated(r, after) => after + 1 .. Cursor \subseteq Selected(r, after)
<1>1. TypeOK /\ gag = {} /\ NoneForgotten
  BY DEF OpenHistory, FeedInv
<1>2. Cursor \in Nat /\ \A c \in 1 .. Cursor : log[c] \in Event
  <2>1. log \in Seq(Event)
    BY <1>1 DEF TypeOK
  <2> QED
    BY <2>1, LenProperties, ElementOfSeq DEF Cursor
<1>3. Selected(r, after) \subseteq 1 .. Cursor
  BY <1>1, SelectedRetained
<1>4. Selected(r, after) \subseteq after + 1 .. Cursor
  <2>1. Selected(r, after) \subseteq Candidates(r, after)
    BY DEF Selected
  <2>2. \A c \in Candidates(r, after) : c > after
    BY HistoryAssumption DEF Candidates, After
  <2> QED
    BY <1>2, <1>3, <2>1, <2>2
<1>5. ASSUME ~Truncated(r, after), NEW c \in after + 1 .. Cursor
      PROVE  c \in Selected(r, after)
  <2>1. r.worlds = Worlds /\ r.classes = Classes /\ r.includeHistory
    BY DEF Undisturbed
  <2>2. Candidates(r, after) = Selected(r, after) /\ ~(after < droppedThrough)
    BY <1>5, <2>1, HistoryAssumption DEF Truncated
  <2>3. c \in 1 .. Cursor /\ c > after /\ droppedThrough \in Nat
    BY <1>1, <1>2 DEF TypeOK
  <2>4. log[c].world \in Worlds /\ log[c].class \in Classes
    BY <1>2, <2>3 DEF Event
  <2>5. c \in Retained(log[c].world)
    BY <1>1, <2>2, <2>3 DEF NoneForgotten
  <2>6. c \in Candidates(r, after)
    BY <1>1, <2>1, <2>3, <2>4, <2>5 DEF Candidates, Visible, After
  <2> QED
    BY <2>2, <2>6
<1> QED
  BY <1>4, <1>5

LEMMA HelloKeepsUi ==
  ASSUME Undisturbed, UiInv, NEW s \in Subscribers, NEW r \in Requests, Hello(s, r)
  PROVE  UiTypeOK' /\ Accounted' /\ Linked'
<1>1. OpenHistory /\ TypeOK /\ UiTypeOK /\ Accounted
  BY DEF UiInv, OpenHistory, FeedInv
<1>2. /\ client.mode = "offline" /\ UNCHANGED <<gatewayId, displayed, reported, cancelled, log>>
      /\ alive' = alive \cup {s}
      /\ sub' = [sub EXCEPT ![s] = Subscribed(r, Resume)]
      /\ Resume # None => Resume \in 0 .. Cursor
  BY DEF Hello, Subscribe
<1>3. client' = [client EXCEPT !.mode = "dialing", !.conn = s, !.position = 0,
                               !.truncated = Truncated(r, Resume)]
  BY DEF Hello
<1>4. Truncated(r, Resume) \in BOOLEAN
  BY DEF Truncated
<1>5. /\ client' \in Client /\ client'.mode = "dialing" /\ client'.conn = s
      /\ client'.position = 0 /\ client'.truncated = Truncated(r, Resume)
      /\ client'.gateway = client.gateway /\ client'.cursor = client.cursor
      /\ client'.pending = client.pending
  <2> DEFINE t == Truncated(r, Resume)
  <2>1. client \in Client /\ t \in BOOLEAN
    BY <1>1, <1>4 DEF UiTypeOK
  <2>2. client' = [client EXCEPT !.mode = "dialing", !.conn = s, !.position = 0, !.truncated = t]
    BY <1>3
  <2> HIDE DEF t
  <2>3. /\ client' \in Client /\ client'.mode = "dialing" /\ client'.conn = s
        /\ client'.position = 0 /\ client'.truncated = t
        /\ client'.gateway = client.gateway /\ client'.cursor = client.cursor
        /\ client'.pending = client.pending
    BY <2>1, <2>2 DEF Client
  <2> QED
    BY <2>3 DEF t
<1>6. UiTypeOK'
  BY <1>1, <1>2, <1>5 DEF UiTypeOK, Cursor
<1>7. Accounted'
  BY <1>1, <1>2, <1>5 DEF Accounted
<1>8. sub'[s] = Subscribed(r, Resume)
  BY <1>1, <1>2 DEF TypeOK
<1>9. SnapshotContinues(s)'
  <2>1. sub'[s].request = r /\ sub'[s].cursor = Cursor /\ sub'[s].events = Selected(r, Resume)
    BY <1>8 DEF Subscribed
  <2>2. CASE client.gateway = gatewayId
    <3>1. Resume = client.cursor /\ client.cursor \in 0 .. Cursor
      <4>1. Resume = client.cursor
        BY <2>2 DEF Resume
      <4>2. client.cursor \in Nat /\ client.cursor <= Cursor
        BY <1>1, <2>2 DEF UiTypeOK, Client
      <4>3. Cursor \in Nat
        BY <1>1, LenProperties DEF TypeOK, Cursor
      <4> QED
        BY <4>1, <4>2, <4>3
    <3>2. /\ Selected(r, client.cursor) \subseteq client.cursor + 1 .. Cursor
          /\ ~Truncated(r, client.cursor) =>
                client.cursor + 1 .. Cursor \subseteq Selected(r, client.cursor)
      BY <1>1, <3>1, SnapshotOfAll
    <3>3. client'.truncated = Truncated(r, client.cursor)
      BY <1>5, <3>1
    <3>4. client'.gateway = gatewayId' /\ client'.position = 0 /\ client'.cursor = client.cursor
      BY <1>2, <1>5, <2>2
    <3>5. /\ client.cursor <= Cursor
          /\ sub'[s].events \subseteq client.cursor + 1 .. Cursor
          /\ ~client'.truncated => client.cursor + 1 .. Cursor \subseteq sub'[s].events
      BY <2>1, <3>1, <3>2, <3>3
    <3> QED
      BY <2>1, <3>4, <3>5 DEF SnapshotContinues
  <2>3. CASE client.gateway # gatewayId
    <3>1. Resume = None
      BY <2>3 DEF Resume
    <3>2. Selected(r, Resume) \subseteq 1 .. Cursor
      BY <1>1, <3>1, SelectedRetained
    <3> QED
      BY <1>2, <1>5, <2>1, <2>3, <3>2 DEF SnapshotContinues
  <2> QED
    BY <2>2, <2>3
<1>10. Linked'
  BY <1>5, <1>9 DEF Linked
<1> QED
  BY <1>6, <1>7, <1>10

(* What the UI takes over from a snapshot.                                 *)
LEMMA AdoptKeepsUi ==
  ASSUME UiInv, client.mode = "dialing", client.conn \in alive, Adopt,
         UNCHANGED <<vars, gatewayId, alive, cancelled>>
  PROVE  UiTypeOK' /\ Accounted' /\ Linked'
<1>1. TypeOK /\ UiTypeOK /\ Accounted /\ Linked
  BY DEF UiInv, OpenHistory, FeedInv
<1>2. PICK s \in Subscribers : s = client.conn
  BY <1>1 DEF UiTypeOK
<1>3. SnapshotContinues(s)
  BY <1>1, <1>2 DEF Linked
<1>4. PICK n \in 0 .. Cursor : n = sub[s].cursor
  BY <1>1 DEF TypeOK
<1>5. PICK events \in SUBSET (1 .. Cursor) : events = sub[s].events
  BY <1>1 DEF TypeOK
<1>6. Cursor \in Nat /\ n \in Nat /\ events \subseteq Nat
  <2>1. Cursor \in Nat
    BY <1>1, LenProperties DEF TypeOK, Cursor
  <2> QED
    BY <2>1
<1>7. client' = [client EXCEPT !.gateway = gatewayId, !.cursor = n, !.mode = "restoring",
                               !.pending = events]
  BY <1>2, <1>4, <1>5 DEF Adopt
<1>8. /\ client' \in Client /\ client'.gateway = gatewayId /\ client'.cursor = n
      /\ client'.mode = "restoring" /\ client'.pending = events
      /\ client'.conn = client.conn /\ client'.position = client.position
  BY <1>1, <1>6, <1>7 DEF UiTypeOK, Client
<1>9. Linked'
  <2>1. CursorIsRead(s)'
    <3>1. /\ sub' = sub /\ received' = received /\ gatewayId' = gatewayId
          /\ sub[s].request \in Requests /\ client.position = 0
      BY <1>3 DEF SnapshotContinues, vars, feeds
    <3>2. Len(received[s]) \in Nat
      BY <1>1, StreamTypes, LenProperties
    <3> QED
      BY <1>4, <1>8, <3>1, <3>2 DEF CursorIsRead
  <2> QED
    BY <1>2, <1>8, <2>1 DEF Linked
<1>10. CASE client.gateway = gatewayId
  <2>1. /\ client.cursor \in Nat /\ client.cursor <= n
        /\ events \subseteq client.cursor + 1 .. n
        /\ ~client.truncated => client.cursor + 1 .. n \subseteq events
    BY <1>1, <1>3, <1>4, <1>5, <1>10 DEF SnapshotContinues, UiTypeOK, Client
  <2>2. /\ displayed' = displayed
        /\ \/ reported' = reported \cup ((client.cursor + 1 .. n) \ events)
           \/ reported' = reported /\ ~client.truncated
    BY <1>2, <1>4, <1>5, <1>10 DEF Adopt
  <2>3. /\ displayed \in Seq(1 .. client.cursor) /\ reported \subseteq 1 .. client.cursor
        /\ cancelled = {} /\ alive \subseteq Subscribers /\ gatewayId \in Nat
        /\ 1 .. client.cursor \subseteq ToSet(displayed) \cup reported
        /\ \A d \in ToSet(displayed) : d \in 1 .. client.cursor
    <3>1. /\ displayed \in Seq(1 .. client.cursor) /\ reported \subseteq 1 .. client.cursor
          /\ cancelled = {} /\ alive \subseteq Subscribers /\ gatewayId \in Nat
      BY <1>1 DEF UiTypeOK
    <3>2. 1 .. client.cursor \subseteq ToSet(displayed) \cup reported
      BY <1>1 DEF Accounted
    <3>3. \A d \in ToSet(displayed) : d \in 1 .. client.cursor
      BY <3>1, ToSetOfSeq
    <3> QED
      BY <3>1, <3>2, <3>3
  <2>4. UiTypeOK'
    <3>1. displayed' \in Seq(1 .. n) /\ reported' \subseteq 1 .. n /\ events \subseteq 1 .. n
      <4>1. 1 .. client.cursor \subseteq 1 .. n /\ client.cursor + 1 .. n \subseteq 1 .. n
        BY <1>6, <2>1
      <4>2. displayed' \in Seq(1 .. n)
        BY <2>2, <2>3, <4>1, SeqWidens
      <4> QED
        BY <2>1, <2>2, <2>3, <4>1, <4>2
    <3>2. n <= Cursor /\ log' = log /\ alive' = alive /\ gatewayId' = gatewayId
          /\ cancelled' = cancelled
      BY <1>6 DEF vars
    <3> QED
      BY <1>6, <1>8, <2>3, <3>1, <3>2 DEF UiTypeOK, Cursor
  <2>5. 1 .. n \subseteq ToSet(displayed) \cup reported' \cup events
    <3>1. \A c \in 1 .. n : c \in 1 .. client.cursor \/ c \in client.cursor + 1 .. n
      BY <1>6, <2>1
    <3>2. client.cursor + 1 .. n \subseteq reported' \cup events
      BY <2>1, <2>2
    <3>3. reported \subseteq reported'
      BY <2>2
    <3> QED
      BY <2>3, <3>1, <3>2, <3>3
  <2>6. \A d \in ToSet(displayed), p \in events : d < p
    BY <1>6, <2>1, <2>3
  <2>7. Accounted'
    BY <1>8, <2>2, <2>5, <2>6 DEF Accounted
  <2> QED
    BY <1>9, <2>4, <2>7
<1>11. CASE client.gateway # gatewayId
  <2>1. events \subseteq 1 .. n
    BY <1>3, <1>4, <1>5, <1>11 DEF SnapshotContinues
  <2>2. displayed' = <<>> /\ reported' = (1 .. n) \ events
    BY <1>2, <1>4, <1>5, <1>11 DEF Adopt
  <2>3. UiTypeOK'
    <3>1. displayed' \in Seq(1 .. n) /\ n <= Cursor /\ log' = log
      BY <1>6, <2>2, EmptySeq DEF vars
    <3> QED
      BY <1>1, <1>6, <1>8, <2>1, <2>2, <3>1 DEF UiTypeOK, Cursor
  <2>4. ToSet(displayed') = {}
    BY <2>2 DEF ToSet
  <2>5. Accounted'
    BY <1>8, <2>2, <2>4 DEF Accounted
  <2> QED
    BY <1>9, <2>3, <2>5
<1> QED
  BY <1>10, <1>11

LEMMA InstallKeepsUi ==
  ASSUME UiInv, NEW restarting \in BOOLEAN, Install(restarting)
  PROVE  UiTypeOK' /\ Accounted' /\ Linked'
<1>1. CASE Adopt /\ UNCHANGED alive
  BY <1>1, AdoptKeepsUi DEF Install
<1>2. CASE ~(Adopt /\ UNCHANGED alive)
  <2>1. client \in Client /\ client.pending = {}
    BY DEF UiInv, UiTypeOK, Accounted, Install
  <2>2. /\ client' = [client EXCEPT !.mode = "stale"] /\ alive' \subseteq alive
        /\ UNCHANGED <<vars, gatewayId, displayed, reported, cancelled>>
    BY <1>2 DEF Install
  <2>3. /\ client' \in Client
        /\ client'.gateway = client.gateway /\ client'.cursor = client.cursor
        /\ client'.conn = client.conn /\ client'.position = client.position
        /\ client'.truncated = client.truncated /\ client'.pending = client.pending
        /\ client'.mode = "stale"
    BY <2>1, <2>2 DEF Client
  <2> QED
    BY <2>1, <2>2, <2>3, UiFrame
<1> QED
  BY <1>1, <1>2

(* Ending a connection, whoever ends it, and starting to read from it.     *)
LEMMA ModeKeepsUi ==
  ASSUME UiInv, UNCHANGED <<vars, gatewayId, displayed, reported, cancelled>>,
         alive' \subseteq alive, NEW mode \in {"offline", "online"},
         client' = [client EXCEPT !.mode = mode],
         \/ mode = "offline" /\ client.pending = {}
         \/ mode = "online" /\ client.mode = "restoring"
  PROVE  UiTypeOK' /\ Accounted' /\ Linked'
<1>1. client \in Client
  BY DEF UiInv, UiTypeOK
<1>2. /\ client' \in Client
      /\ client'.gateway = client.gateway /\ client'.cursor = client.cursor
      /\ client'.conn = client.conn /\ client'.position = client.position
      /\ client'.truncated = client.truncated /\ client'.pending = client.pending
      /\ client'.mode = mode
  BY <1>1 DEF Client
<1> QED
  BY <1>2, UiFrame

LEMMA DialFailsKeepsUi ==
  ASSUME UiInv, DialFails
  PROVE  UiTypeOK' /\ Accounted' /\ Linked'
<1>1. client.pending = {}
  BY DEF UiInv, Accounted, DialFails
<1> QED
  BY <1>1, ModeKeepsUi DEF DialFails

LEMMA StartReadingKeepsUi ==
  ASSUME UiInv, StartReading
  PROVE  UiTypeOK' /\ Accounted' /\ Linked'
  BY ModeKeepsUi DEF StartReading

LEMMA ReadEndKeepsUi ==
  ASSUME UiInv, ReadEnd
  PROVE  UiTypeOK' /\ Accounted' /\ Linked'
  BY ModeKeepsUi DEF ReadEnd

(* A reconnection may only interrupt a task that publishes nothing.        *)
LEMMA NothingCancelled ==
  ASSUME Undisturbed, UiInv, Reconnect
  PROVE  client.pending = {} /\ cancelled' = cancelled
<1>1. client.pending \subseteq 1 .. client.cursor /\ client.cursor \in Nat /\ cancelled = {}
  BY DEF UiInv, UiTypeOK, Client
<1>2. IsFiniteSet(client.pending) /\ Cardinality(client.pending) \in Nat
  <2>1. IsFiniteSet(1 .. client.cursor)
    BY <1>1, FS_Interval
  <2>2. IsFiniteSet(client.pending)
    BY <1>1, <2>1, FS_Subset
  <2> QED
    BY <2>2, FS_CardinalityType
<1>3. Cardinality(cancelled) = 0
  BY <1>1, FS_EmptySet
<1>4. Cardinality(client.pending) = 0
  BY <1>2, <1>3 DEF Undisturbed, Reconnect
<1>5. client.pending = {}
  BY <1>2, <1>4, FS_EmptySet
<1> QED
  BY <1>1, <1>5 DEF Reconnect

LEMMA ReconnectKeepsUi ==
  ASSUME Undisturbed, UiInv, Reconnect
  PROVE  UiTypeOK' /\ Accounted' /\ Linked'
<1>1. client.pending = {} /\ cancelled' = cancelled
  BY NothingCancelled
<1>2. client \in Client
  BY DEF UiInv, UiTypeOK
<1>3. client' = [client EXCEPT !.mode = "offline", !.pending = {}]
  BY DEF Reconnect
<1>4. client' = [client EXCEPT !.mode = "offline"]
  BY <1>1, <1>2, <1>3 DEF Client
<1> QED
  BY <1>1, <1>4, ModeKeepsUi DEF Reconnect

LEMMA BreakKeepsUi ==
  ASSUME UiInv, Break
  PROVE  UiTypeOK' /\ Accounted' /\ Linked'
<1>1. client \in Client
  BY DEF UiInv, UiTypeOK
<1> QED
  BY <1>1, UiFrame DEF Break

LEMMA ReloadKeepsUi ==
  ASSUME UiInv, Reload
  PROVE  UiTypeOK' /\ Accounted' /\ Linked'
<1>1. /\ client' \in Client /\ client'.gateway = None /\ client'.cursor = 0
      /\ client'.mode = "offline" /\ client'.pending = {}
  BY DEF Reload, FreshClient, Client
<1>2. displayed' \in Seq(1 .. 0) /\ ToSet(displayed') = {} /\ reported' = {}
  BY EmptySeq DEF Reload, ToSet
<1>3. /\ alive' \subseteq Subscribers /\ cancelled' = {} /\ gatewayId' \in Nat
  BY DEF Reload, UiInv, UiTypeOK
<1>4. gatewayId' # None
  BY <1>3, HistoryAssumption
<1> QED
  BY <1>1, <1>2, <1>3, <1>4 DEF UiTypeOK, Accounted, Linked

LEMMA PublishingKeepsUi ==
  ASSUME UiInv, Publishing
  PROVE  UiTypeOK' /\ Accounted' /\ Linked'
<1>1. UiTypeOK /\ Accounted /\ Linked
  BY DEF UiInv
<1>2. PICK c \in client.pending : /\ \A d \in client.pending : c <= d
                                  /\ client' = [client EXCEPT !.pending = @ \ {c}]
                                  /\ displayed' = Append(displayed, c)
  BY DEF Publishing
<1>3. /\ client' \in Client
      /\ client'.gateway = client.gateway /\ client'.cursor = client.cursor
      /\ client'.conn = client.conn /\ client'.position = client.position
      /\ client'.truncated = client.truncated /\ client'.mode = client.mode
      /\ client'.pending = client.pending \ {c}
  BY <1>1, <1>2 DEF UiTypeOK, Client
<1>4. /\ UNCHANGED <<gatewayId, alive, reported, cancelled, log, sub, received>>
  BY DEF Publishing, vars, feeds
<1>5. c \in 1 .. client.cursor
  BY <1>1 DEF UiTypeOK
<1>6. displayed' \in Seq(1 .. client.cursor) /\ ToSet(displayed') = ToSet(displayed) \cup {c}
  <2>1. displayed \in Seq(1 .. client.cursor)
    BY <1>1 DEF UiTypeOK
  <2>2. Append(displayed, c) \in Seq(1 .. client.cursor)
    BY <1>5, <2>1, AppendProperties
  <2>3. ToSet(Append(displayed, c)) = ToSet(displayed) \cup {c}
    <3>1. PICK q \in Seq(Nat) : q = displayed
      <4>1. client.cursor \in Nat
        BY <1>1 DEF UiTypeOK, Client
      <4> QED
        BY <2>1, <4>1, SeqWidens, 1 .. client.cursor \subseteq Nat
    <3>2. c \in Nat
      BY <1>1, <1>5 DEF UiTypeOK, Client
    <3>3. ToSet(Append(q, c)) = ToSet(q) \cup {c}
      BY <3>2, ToSetAppend
    <3> QED
      BY <3>1, <3>3
  <2> QED
    BY <1>2, <2>2, <2>3
<1>7. UiTypeOK'
  BY <1>1, <1>3, <1>4, <1>6 DEF UiTypeOK, Cursor
<1>8. Accounted'
  <2>1. client.pending \subseteq Int
    BY <1>1 DEF UiTypeOK, Client
  <2>2. \A p \in client.pending \ {c} : c < p
    BY <1>2, <2>1
  <2> QED
    BY <1>1, <1>3, <1>4, <1>6, <2>2 DEF Accounted
<1>9. Linked'
  BY <1>1, <1>3, <1>4, LinkFrame
<1> QED
  BY <1>7, <1>8, <1>9

(* The event read next is the one after the cursor: the connection carries *)
(* a prefix of the feed, and the feed is everything after the snapshot.    *)
LEMMA NextRead ==
  ASSUME Undisturbed, UiInv, NEW s \in Subscribers, s = client.conn, ReadEvent
  PROVE  received[s][client.position + 1] = client.cursor + 1
<1>1. TypeOK /\ UiTypeOK /\ Linked /\ shown = 1 .. Cursor
  BY DEF UiInv, OpenHistory, FeedInv
<1>2. PICK p \in Nat : p = client.position
  BY <1>1 DEF UiTypeOK, Client
<1>3. PICK q \in Seq(1 .. Cursor) : q = received[s]
  BY <1>1 DEF TypeOK
<1>4. /\ CursorIsRead(s) /\ p < Len(q)
  BY <1>1, <1>2, <1>3 DEF ReadEvent, Unread, Linked
<1>5. PICK n \in 0 .. Cursor : n = sub[s].cursor
  BY <1>1 DEF TypeOK
<1>6. Cursor \in Nat /\ n \in Nat /\ \A c \in 1 .. Cursor : log[c] \in Event
  <2>1. log \in Seq(Event)
    BY <1>1 DEF TypeOK
  <2>2. Cursor \in Nat /\ \A c \in 1 .. Cursor : log[c] \in Event
    BY <2>1, LenProperties, ElementOfSeq DEF Cursor
  <2> QED
    BY <2>2
<1>7. Feed(s) = n + 1 .. Cursor
  <2>1. sub[s].request.worlds = Worlds /\ sub[s].request.classes = Classes
    BY <1>4 DEF CursorIsRead, Undisturbed
  <2>2. \A c \in 1 .. Cursor : Matches(s, log[c])
    BY <1>6, <2>1 DEF Matches, Event
  <2>3. Feed(s) = {c \in 1 .. Cursor : c > n}
    BY <1>1, <1>5, <2>2 DEF Feed
  <2> QED
    BY <1>6, <2>3
<1>8. /\ \A i, j \in DOMAIN q : i < j => q[i] < q[j]
      /\ \A i \in DOMAIN q : /\ q[i] \in n + 1 .. Cursor
                             /\ \A c \in n + 1 .. Cursor : c < q[i] => \E j \in DOMAIN q : q[j] = c
  <2>1. Prefix(s)
    BY DEF UiInv, OpenHistory, FeedInv, Fed
  <2> QED
    BY <1>3, <1>7, <2>1 DEF Prefix, Ascending
<1>9. DOMAIN q = 1 .. Len(q) /\ Len(q) \in Nat
  BY <1>3, LenProperties
<1>10. p + 1 \in DOMAIN q /\ \A i \in DOMAIN q : q[i] \in Nat
  BY <1>4, <1>6, <1>8, <1>9
<1>11. PICK m \in Nat : m = client.cursor
  BY <1>1 DEF UiTypeOK, Client
<1>12. m = IF p = 0 THEN n ELSE q[p]
  BY <1>2, <1>3, <1>4, <1>5, <1>11 DEF CursorIsRead
<1>13. m >= n /\ q[p + 1] > m
  <2>1. CASE p = 0
    BY <1>6, <1>8, <1>10, <1>12, <2>1
  <2>2. CASE p # 0
    <3>1. p \in DOMAIN q /\ p < p + 1
      BY <1>2, <1>4, <1>9, <2>2
    <3> QED
      BY <1>6, <1>8, <1>10, <1>12, <2>2, <3>1
  <2> QED
    BY <2>1, <2>2
<1>14. ASSUME q[p + 1] > m + 1
       PROVE  FALSE
  <2>1. m + 1 \in n + 1 .. Cursor
    BY <1>6, <1>8, <1>10, <1>13, <1>14
  <2>2. PICK j \in DOMAIN q : q[j] = m + 1
    BY <1>8, <1>10, <1>14, <2>1
  <2>3. j < p + 1
    BY <1>8, <1>9, <1>10, <1>14, <2>2, SMTT(30)
  <2>4. p \in DOMAIN q /\ p # 0 /\ j <= p /\ j \in Nat
    BY <1>2, <1>9, <1>10, <2>2, <2>3
  <2>5. q[j] <= q[p]
    <3>1. q[j] \in Int /\ q[p] \in Int
      BY <1>8, <1>10, <2>2, <2>4
    <3>2. CASE j < p
      BY <1>8, <1>10, <2>2, <2>4, <3>1, <3>2
    <3>3. CASE j = p
      BY <3>1, <3>3
    <3>4. p \in Nat
      BY <1>9
    <3> QED
      BY <2>4, <3>2, <3>3, <3>4
  <2> QED
    BY <1>10, <1>12, <2>2, <2>4, <2>5
<1> QED
  BY <1>2, <1>3, <1>10, <1>11, <1>13, <1>14

LEMMA ReadEventKeepsUi ==
  ASSUME Undisturbed, UiInv, ReadEvent
  PROVE  UiTypeOK' /\ Accounted' /\ Linked'
<1>1. TypeOK /\ UiTypeOK /\ Accounted /\ Linked
  BY DEF UiInv, OpenHistory, FeedInv
<1>2. PICK s \in Subscribers : s = client.conn
  BY <1>1 DEF UiTypeOK, ReadEvent
<1>3. /\ client.mode = "online" /\ client.pending = {} /\ s \in alive
      /\ client.position < Len(received[s])
      /\ UNCHANGED <<vars, gatewayId, alive, displayed, reported, cancelled>>
  BY <1>2 DEF ReadEvent, Unread
<1>4. PICK m \in Nat : m = client.cursor
  BY <1>1 DEF UiTypeOK, Client
<1>5. received[s][client.position + 1] = m + 1
  BY <1>2, <1>4, NextRead
<1>6. PICK p \in Nat : p = client.position
  BY <1>1 DEF UiTypeOK, Client
<1>7. client' = [client EXCEPT !.position = p + 1, !.cursor = m + 1, !.pending = {m + 1}]
  BY <1>2, <1>4, <1>5, <1>6 DEF ReadEvent
<1>8. /\ client' \in Client /\ client'.gateway = client.gateway /\ client'.conn = s
      /\ client'.mode = "online" /\ client'.position = p + 1
      /\ client'.cursor = m + 1 /\ client'.pending = {m + 1}
  <2>1. client \in Client
    BY <1>1 DEF UiTypeOK
  <2>2. PICK k \in Nat : k = m + 1
    OBVIOUS
  <2>3. PICK i \in Nat : i = p + 1
    OBVIOUS
  <2>4. PICK e \in SUBSET Nat : e = {k}
    OBVIOUS
  <2>5. client' = [client EXCEPT !.position = i, !.cursor = k, !.pending = e]
    BY <1>7, <2>2, <2>3, <2>4
  <2>6. /\ client' \in Client /\ client'.gateway = client.gateway
        /\ client'.conn = client.conn /\ client'.mode = client.mode
        /\ client'.position = i /\ client'.cursor = k /\ client'.pending = e
    BY <2>1, <2>5 DEF Client
  <2> QED
    BY <1>2, <1>3, <2>2, <2>3, <2>4, <2>6
<1>9. CursorIsRead(s)
  BY <1>1, <1>2, <1>3 DEF Linked
<1>10. Linked'
  <2>1. /\ received' = received /\ sub' = sub /\ gatewayId' = gatewayId
    BY <1>3 DEF vars, feeds
  <2>2. Len(received[s]) \in Nat
    BY <1>1, StreamTypes, LenProperties
  <2>3. CursorIsRead(s)'
    BY <1>3, <1>5, <1>6, <1>8, <1>9, <2>1, <2>2 DEF CursorIsRead
  <2> QED
    BY <1>8, <2>3 DEF Linked
<1>11. m + 1 <= Cursor
  <2>1. received[s] \in Seq(1 .. Cursor)
    BY <1>1 DEF TypeOK
  <2>2. Len(received[s]) \in Nat
    BY <2>1, LenProperties
  <2>3. p + 1 \in 1 .. Len(received[s])
    BY <1>3, <1>6, <2>2
  <2>4. received[s][p + 1] \in 1 .. Cursor
    BY <2>1, <2>3, ElementOfSeq
  <2>5. Cursor \in Nat
    BY <1>1, LenProperties DEF TypeOK, Cursor
  <2> QED
    BY <1>5, <1>6, <2>4, <2>5
<1>12. /\ displayed \in Seq(1 .. m) /\ reported \subseteq 1 .. m
       /\ ToSet(displayed) \subseteq 1 .. m
       /\ 1 .. m \subseteq ToSet(displayed) \cup reported
  <2>1. displayed \in Seq(1 .. m) /\ reported \subseteq 1 .. m
    BY <1>1, <1>4 DEF UiTypeOK
  <2>2. 1 .. m \subseteq ToSet(displayed) \cup reported
    BY <1>1, <1>3, <1>4 DEF Accounted
  <2> QED
    BY <2>1, <2>2, ToSetOfSeq
<1>13. UiTypeOK'
  <2>1. 1 .. m \subseteq 1 .. m + 1 /\ log' = log
    BY <1>3, <1>4 DEF vars
  <2>2. displayed' \in Seq(1 .. m + 1) /\ reported' \subseteq 1 .. m + 1
    BY <1>3, <1>12, <2>1, SeqWidens
  <2> QED
    BY <1>1, <1>3, <1>4, <1>8, <1>11, <2>1, <2>2 DEF UiTypeOK, Cursor
<1>14. Accounted'
  <2>1. 1 .. m + 1 = 1 .. m \cup {m + 1}
    BY <1>4
  <2>2. \A d \in ToSet(displayed) : d < m + 1
    BY <1>4, <1>12
  <2> QED
    BY <1>3, <1>8, <1>12, <2>1, <2>2 DEF Accounted
<1> QED
  BY <1>10, <1>13, <1>14

LEMMA InitUiInv == Undisturbed /\ FeedInit => UiInv
<1> SUFFICES ASSUME Undisturbed, FeedInit PROVE UiInv
  OBVIOUS
<1>1. FeedInv /\ TypeOK
  BY InitFeedInv DEF FeedInit, FeedInv
<1>2. gag = {}
  BY <1>1 DEF TypeOK, Undisturbed
<1>3. Cursor = 0 /\ 1 .. Cursor = {} /\ shown = {}
  BY DEF FeedInit, Init, Cursor
<1>4. OpenHistory
  BY <1>1, <1>2, <1>3 DEF OpenHistory, NoneForgotten
<1>5. client \in Client /\ client.gateway = None /\ client.cursor = 0
      /\ client.pending = {} /\ client.mode = "offline"
  BY DEF FeedInit, FreshClient, Client
<1>6. /\ displayed \in Seq(1 .. 0) /\ ToSet(displayed) = {} /\ reported = {} /\ cancelled = {}
      /\ alive = {} /\ gatewayId = 0
  BY EmptySeq DEF FeedInit, ToSet
<1> QED
  BY <1>4, <1>5, <1>6, HistoryAssumption DEF UiInv, UiTypeOK, Accounted, Linked

LEMMA StepUiInv == Undisturbed /\ UiInv /\ [FeedNext]_allVars => UiInv'
<1> SUFFICES ASSUME Undisturbed, UiInv, [FeedNext]_allVars PROVE UiInv'
  OBVIOUS
<1>1. OpenHistory'
  BY OpenHistoryKept DEF UiInv
<1>2. SUFFICES UiTypeOK' /\ Accounted' /\ Linked'
  BY <1>1 DEF UiInv
<1>3. CASE HistoryStep \/ \E s \in Subscribers : Hangup(s)
  BY <1>3, HistoryKeepsUi
<1>4. ASSUME NEW s \in Subscribers, NEW r \in Requests, Hello(s, r)
      PROVE  UiTypeOK' /\ Accounted' /\ Linked'
  BY <1>4, HelloKeepsUi
<1>5. ASSUME NEW restarting \in BOOLEAN, Install(restarting)
      PROVE  UiTypeOK' /\ Accounted' /\ Linked'
  BY <1>5, InstallKeepsUi
<1>6. CASE DialFails \/ Reload \/ Publishing \/ StartReading
  BY <1>6, DialFailsKeepsUi, ReloadKeepsUi, PublishingKeepsUi, StartReadingKeepsUi
<1>7. CASE ReadEvent \/ ReadEnd \/ Reconnect \/ Break
  BY <1>7, ReadEventKeepsUi, ReadEndKeepsUi, ReconnectKeepsUi, BreakKeepsUi
<1>8. CASE GatewayRestart
  BY <1>8, RestartKeepsUi
<1>9. CASE UNCHANGED allVars
  <2>1. UNCHANGED <<vars, gatewayId, alive, client, displayed, reported, cancelled>>
    BY <1>9 DEF allVars, ui
  <2>2. client \in Client
    BY DEF UiInv, UiTypeOK
  <2> QED
    BY <2>1, <2>2, UiFrame
<1> QED
  BY <1>3, <1>4, <1>5, <1>6, <1>7, <1>8, <1>9 DEF FeedNext

(* Each step of the UI and its Gateway is a step of the feed or stutters.  *)
LEMMA FeedSimulates ==
  Undisturbed /\ UiInv /\ UiInv' /\ [FeedNext]_allVars => [Abstract!Next]_(Abstract!feed)
<1> SUFFICES ASSUME Undisturbed, UiInv, UiInv', [FeedNext]_allVars
             PROVE  Abstract!Next \/ UNCHANGED <<Published, displayed, reported>>
  BY DEF Abstract!feed
<1>1. TypeOK /\ UiTypeOK /\ Accounted /\ Linked
  BY DEF UiInv, OpenHistory, FeedInv
<1>2. Cursor \in Nat /\ Cursor' \in Nat
  <2>1. TypeOK /\ TypeOK'
    BY DEF UiInv, OpenHistory, FeedInv
  <2> QED
    BY <2>1, LenProperties DEF TypeOK, Cursor
<1>3. client \in Client /\ client' \in Client
  BY DEF UiInv, UiTypeOK
<1>4. Published \in Nat /\ Published' \in Nat
  BY <1>2, <1>3 DEF Published, Client
<1>5. client.cursor <= Published
  BY <1>1, <1>2, <1>3 DEF Published, UiTypeOK, Client
<1>6. CASE UNCHANGED <<log, gatewayId, displayed, reported>> /\ client'.gateway = client.gateway
           /\ client'.cursor = client.cursor
  BY <1>6 DEF Published, Cursor
<1>7. CASE HistoryStep
  <2>1. UNCHANGED <<gatewayId, client, displayed, reported>>
    BY <1>7 DEF HistoryStep, ui
  <2>2. CASE Pump
    <3>1. Cursor' = Cursor + 1
      <4>1. PICK e \in Event : log' = Append(log, e)
        <5>1. Head(ingress) \in Event
          BY <1>1, <2>2, HeadTailProperties DEF Pump, TypeOK
        <5> QED
          BY <2>2, <5>1 DEF Pump
      <4>2. log \in Seq(Event)
        BY <1>1 DEF TypeOK
      <4> QED
        BY <4>1, <4>2, AppendProperties DEF Cursor
    <3>2. CASE client.gateway = gatewayId
      <4>1. Published' = Published + 1
        BY <2>1, <3>1, <3>2 DEF Published
      <4>2. Abstract!Publish
        BY <2>1, <4>1 DEF Abstract!Publish
      <4> QED
        BY <4>2 DEF Abstract!Next
    <3>3. CASE client.gateway # gatewayId
      BY <2>1, <3>3 DEF Published
    <3> QED
      BY <3>2, <3>3
  <2>3. CASE log' = log
    BY <1>6, <2>1, <2>3
  <2> QED
    BY <1>7, <2>2, <2>3 DEF HistoryStep, Publish, Take, StopJoin, StopClose
<1>8. ASSUME NEW s \in Subscribers, NEW r \in Requests, Hello(s, r)
      PROVE  UNCHANGED <<Published, displayed, reported>>
  <2>1. client' = [client EXCEPT !.mode = "dialing", !.conn = s, !.position = 0,
                                 !.truncated = Truncated(r, Resume)]
    BY <1>8 DEF Hello
  <2>2. client'.gateway = client.gateway /\ client'.cursor = client.cursor
    BY <1>3, <2>1 DEF Client
  <2>3. UNCHANGED <<log, gatewayId, displayed, reported>>
    BY <1>8 DEF Hello, Subscribe
  <2> QED
    BY <2>2, <2>3 DEF Published, Cursor
<1>9. ASSUME NEW s \in Subscribers, Hangup(s)
      PROVE  UNCHANGED <<Published, displayed, reported>>
  BY <1>9 DEF Hangup, Unsubscribe, ui, Published, Cursor
<1>10. ASSUME NEW restarting \in BOOLEAN, Install(restarting)
       PROVE  Abstract!Next \/ UNCHANGED <<Published, displayed, reported>>
  <2>1. client.mode = "dialing" /\ client.conn \in alive /\ UNCHANGED <<vars, gatewayId>>
    BY <1>10 DEF Install
  <2>2. CASE Adopt
    <3>1. PICK s \in Subscribers : s = client.conn
      BY <1>1, <2>1 DEF UiTypeOK
    <3>2. PICK n \in 0 .. Cursor : n = sub[s].cursor
      BY <1>1 DEF TypeOK
    <3>3. client'.gateway = gatewayId /\ client'.cursor = n
      BY <1>3, <2>2, <3>1, <3>2 DEF Adopt, Client
    <3>4. Published' = Cursor
      BY <2>1, <3>3 DEF Published, Cursor, vars
    <3>5. CASE client.gateway = gatewayId
      <4>1. Published = Cursor /\ displayed' = displayed
        BY <2>2, <3>5 DEF Published, Adopt
      <4>2. PICK missing \in SUBSET (client.cursor + 1 .. n) :
              reported' = reported \/ reported' = reported \cup missing
        BY <2>2, <3>1, <3>2, <3>5 DEF Adopt
      <4>3. missing \in SUBSET (1 .. Published)
        BY <1>2, <1>3, <3>2, <4>1, <4>2 DEF Client
      <4>4. missing \cap ToSet(displayed) = {}
        <5>1. ToSet(displayed) \subseteq 1 .. client.cursor
          BY <1>1, ToSetOfSeq DEF UiTypeOK
        <5> QED
          BY <1>2, <1>3, <4>2, <5>1 DEF Client
      <4>5. reported' = reported \cup missing => Abstract!Report(missing)
        BY <3>4, <4>1, <4>4 DEF Abstract!Report, ToSet, Abstract!ToSet
      <4> QED
        BY <3>4, <4>1, <4>2, <4>3, <4>5 DEF Abstract!Next
    <3>6. CASE client.gateway # gatewayId
      <4>1. displayed' = <<>> /\ reported' \subseteq 1 .. n
        BY <2>2, <3>1, <3>2, <3>6 DEF Adopt
      <4>2. reported' \subseteq 1 .. Published'
        BY <1>2, <3>2, <3>4, <4>1
      <4>3. Abstract!StartOver
        BY <1>4, <4>1, <4>2 DEF Abstract!StartOver
      <4> QED
        BY <4>3 DEF Abstract!Next
    <3> QED
      BY <3>5, <3>6
  <2>3. CASE ~Adopt
    <3>1. client' = [client EXCEPT !.mode = "stale"] /\ UNCHANGED <<displayed, reported>>
      BY <1>10, <2>3 DEF Install
    <3>2. client'.gateway = client.gateway /\ client'.cursor = client.cursor
      BY <1>3, <3>1 DEF Client
    <3> QED
      BY <1>6, <2>1, <3>1, <3>2 DEF vars
  <2> QED
    BY <2>2, <2>3
<1>11. CASE Reload
  <2>1. displayed' = <<>> /\ reported' = {}
    BY <1>11 DEF Reload
  <2>2. Abstract!StartOver
    BY <1>4, <2>1 DEF Abstract!StartOver
  <2> QED
    BY <2>2 DEF Abstract!Next
<1>12. CASE Publishing
  <2>1. PICK c \in client.pending : /\ \A d \in client.pending : c <= d
                                    /\ client' = [client EXCEPT !.pending = @ \ {c}]
                                    /\ displayed' = Append(displayed, c)
    BY <1>12 DEF Publishing
  <2>2. c \in 1 .. client.cursor /\ client.cursor \in Nat
    BY <1>1, <1>3 DEF UiTypeOK, Client
  <2>3. c \in 1 .. Published
    BY <1>4, <1>5, <2>2
  <2>4. UNCHANGED <<Published, reported>>
    <3>1. client'.gateway = client.gateway /\ client'.cursor = client.cursor
      BY <1>3, <2>1 DEF Client
    <3> QED
      BY <1>12, <3>1 DEF Publishing, Published, Cursor, vars
  <2>5. \A d \in ToSet(displayed) : d < c
    BY <1>1 DEF Accounted
  <2>6. 1 .. c - 1 \subseteq ToSet(displayed) \cup reported
    <3>1. SUFFICES ASSUME NEW d \in 1 .. c - 1 PROVE d \in ToSet(displayed) \cup reported
      OBVIOUS
    <3>2. d \in 1 .. client.cursor /\ d < c
      BY <2>2
    <3>3. d \notin client.pending
      BY <2>1, <2>2, <3>2
    <3> QED
      BY <1>1, <3>2, <3>3 DEF Accounted
  <2>7. Abstract!Display(c)
    BY <2>1, <2>4, <2>5, <2>6 DEF Abstract!Display, ToSet, Abstract!ToSet
  <2> QED
    BY <2>3, <2>7 DEF Abstract!Next
<1>13. CASE ReadEvent
  <2>1. PICK s \in Subscribers : s = client.conn
    BY <1>1, <1>13 DEF UiTypeOK, ReadEvent
  <2>2. CursorIsRead(s)
    BY <1>1, <1>13, <2>1 DEF ReadEvent, Linked
  <2>3. client.gateway = gatewayId /\ UNCHANGED <<vars, gatewayId, displayed, reported>>
    BY <1>13, <2>2 DEF ReadEvent, CursorIsRead
  <2>4. client'.gateway = client.gateway
    BY <1>3, <1>13 DEF ReadEvent, Client
  <2> QED
    BY <2>3, <2>4 DEF Published, Cursor, vars
<1>14. CASE DialFails \/ StartReading \/ ReadEnd \/ Reconnect \/ Break
  <2>1. UNCHANGED <<vars, gatewayId, displayed, reported>>
    BY <1>14 DEF DialFails, StartReading, ReadEnd, Reconnect, Break
  <2>2. client'.gateway = client.gateway /\ client'.cursor = client.cursor
    <3>1. \/ client' = client
          \/ \E mode \in {"offline", "online"} :
               \/ client' = [client EXCEPT !.mode = mode]
               \/ client' = [client EXCEPT !.mode = mode, !.pending = {}]
      BY <1>14 DEF DialFails, StartReading, ReadEnd, Reconnect, Break
    <3> QED
      BY <1>3, <3>1 DEF Client
  <2> QED
    BY <1>6, <2>1, <2>2 DEF vars
<1>15. CASE GatewayRestart
  <2>1. gatewayId' = gatewayId + 1 /\ UNCHANGED <<client, displayed, reported>>
    BY <1>15 DEF GatewayRestart
  <2>2. client.gateway # gatewayId'
    BY <1>1, <1>3, <2>1, HistoryAssumption DEF UiTypeOK, Client
  <2>3. Published' = client.cursor
    BY <2>1, <2>2 DEF Published
  <2>4. Abstract!GatewayGone
    BY <1>4, <1>5, <2>1, <2>3 DEF Abstract!GatewayGone
  <2> QED
    BY <2>4 DEF Abstract!Next
<1>16. CASE UNCHANGED allVars
  BY <1>16 DEF allVars, ui, vars, Published, Cursor
<1> QED
  BY <1>7, <1>8, <1>9, <1>10, <1>11, <1>12, <1>13, <1>14, <1>15, <1>16 DEF FeedNext

(* Through overflows, broken connections, resumed cursors and restarts of  *)
(* the Gateway, a UI displays the events of a Gateway process in order and *)
(* once each, and what it does not display it reports as missing: for any  *)
(* number of worlds, connections and restarts, retention and queues of any *)
(* size, and snapshots cut to any maximum.  The UI asks for every event,   *)
(* and no reconnection cancels the publication of one.                     *)
THEOREM UiIsToldOfEveryEvent ==
  ASSUME Undisturbed
  PROVE  FeedSpec => UiGetsFeed
<1>1. FeedInit => UiInv
  BY InitUiInv
<1>2. UiInv /\ [FeedNext]_allVars => UiInv'
  BY StepUiInv
<1>3. UiInv /\ UiInv' /\ [FeedNext]_allVars => [Abstract!Next]_(Abstract!feed)
  BY FeedSimulates
<1>4. FeedInit => Abstract!Init
  <2>1. FeedInit => Published = 0 /\ displayed = <<>> /\ reported = {}
    <3>1. FeedInit => client.gateway # gatewayId /\ client.cursor = 0
      BY HistoryAssumption DEF FeedInit, FreshClient
    <3> QED
      BY <3>1 DEF FeedInit, Published
  <2> QED
    BY <2>1 DEF Abstract!Init
<1> QED
  BY <1>1, <1>2, <1>3, <1>4, PTL DEF FeedSpec, UiGetsFeed, Abstract!Spec
=============================================================================
