-------------------------- MODULE ClientLifecycle --------------------------
(***************************************************************************)
(* The connection of one native UI to its Gateway: the read loop (pump),   *)
(* the heartbeat, restarts the UI asked for, and the activities that bring *)
(* the connection back.  Several of them run at once: the supervisor "S",  *)
(* the command /gateway reconnect "M", recoveries after a restart "R" and  *)
(* after an update "U".  S, M and R take the runtime's _reconnect_lock, U  *)
(* does not; every one takes the client's for an attempt.  asyncio locks   *)
(* are first come, first served, so each is a queue with its holder first. *)
(***************************************************************************)
EXTENDS Integers, Sequences, FiniteSets

CONSTANTS MaxGeneration,  \* bound: Gateway processes
          MaxAttempts,    \* max_attempts of a recovery (3 and 120 in R and U)
          MaxFaults,      \* bound: silent links, crashes, updates and user commands
          MaxRecoveries   \* bound: recoveries of one kind that run at once (never reached)

ASSUME LifecycleAssumption ==
    MaxGeneration \in Nat \ {0} /\ MaxAttempts \in Nat \ {0} /\ MaxFaults \in Nat
    /\ MaxRecoveries \in Nat \ {0}

VARIABLES
    gwGen, gwUp,   \* generation (gateway_id) of the Gateway process, whether it runs
    gwStopping,    \* it has accepted a restart and will exit
    link,          \* what the pump reads: "open", "silent", or "none" without a pump
    uiGen,         \* gateway_id of the UI
    uiShows,       \* _gateway_connected
    request,       \* the UI's own restart request: "none", "sent" or "answered"
    expected,      \* _restart_expected
    restart,       \* _restart_phase
    updating,      \* _update_transaction_active
    leaving,       \* _update_restart_expected
    pc,            \* what each activity does
    tries,         \* attempts each activity has made
    runtimeQueue, clientQueue,  \* the two locks
    faults

gwVars == <<gwGen, gwUp, gwStopping>>
restartVars == <<request, expected, restart>>
updateFlags == <<updating, leaving>>
taskVars == <<pc, tries, runtimeQueue, clientQueue>>
lifeVars == <<gwVars, link, uiGen, uiShows, restartVars, updateFlags, taskVars, faults>>

Recoveries == {"R"} \X (1..MaxRecoveries)
UpdateRecoveries == {"U"} \X (1..MaxRecoveries)
Tasks == {<<"S", 0>>, <<"M", 0>>} \cup Recoveries \cup UpdateRecoveries
Supervisor == <<"S", 0>>
Manual == <<"M", 0>>

LifecycleInit ==
    /\ gwGen = 1 /\ gwUp = TRUE /\ gwStopping = FALSE
    /\ link = "open" /\ uiGen = 1 /\ uiShows = TRUE
    /\ request = "none" /\ expected = FALSE /\ restart = "idle"
    /\ updating = FALSE /\ leaving = FALSE
    /\ pc = [t \in Tasks |-> "idle"] /\ tries = [t \in Tasks |-> 0]
    /\ runtimeQueue = <<>> /\ clientQueue = <<>>
    /\ faults = 0

Holds(queue, t) == queue # <<>> /\ Head(queue) = t
Idle(tasks) == {t \in tasks : pc[t] = "idle"}
Fresh(tasks) == CHOOSE t \in Idle(tasks) : TRUE
Spend == faults < MaxFaults /\ faults' = faults + 1

-----------------------------------------------------------------------------
(* The end of the pump *)

\* Seeded fault: a recovery that is on its way keeps another one from starting, and the
\* state shown is left to it.
DisconnectedOnce(changes) ==
    /\ updating' = (updating /\ leaving)
    /\ pc' = changes
    /\ UNCHANGED <<uiShows, expected, restart, request, runtimeQueue, clientQueue>>

\* _fail_pending and _handle_disconnect.  A restart request that was under way fails after
\* the handler has run, so that the recovery it started goes on.  "changes" is what else
\* happens to the activities in this step.
Disconnected(changes) ==
    /\ \/ /\ leaving /\ Idle(UpdateRecoveries) # {}
          /\ pc' = [changes EXCEPT ![Fresh(UpdateRecoveries)] = "queued"]
          /\ clientQueue' = Append(clientQueue, Fresh(UpdateRecoveries))
          /\ uiShows' = FALSE
          /\ UNCHANGED <<runtimeQueue, updating, restart>>
       \/ /\ ~leaving /\ expected /\ Idle(Recoveries) # {}
          /\ pc' = [changes EXCEPT ![Fresh(Recoveries)] = "waiting"]
          /\ runtimeQueue' = Append(runtimeQueue, Fresh(Recoveries))
          /\ restart' = IF request = "none" THEN "disconnected" ELSE "request-failed"
          /\ UNCHANGED <<clientQueue, updating, uiShows>>
       \/ /\ ~leaving /\ ~expected
          /\ updating' = FALSE
          /\ uiShows' = FALSE
          /\ pc' = changes
          /\ UNCHANGED <<runtimeQueue, clientQueue, restart>>
    /\ expected' = (expected /\ request = "none")
    /\ request' = "none"

PumpEnds ==
    /\ link' = "none"
    /\ Disconnected(pc)
    /\ UNCHANGED <<uiGen, leaving, tries>>

-----------------------------------------------------------------------------
(* The Gateway and the network *)

GatewayStops ==
    /\ gwUp
    /\ (gwStopping /\ UNCHANGED faults) \/ (~gwStopping /\ Spend)
    /\ gwUp' = FALSE /\ gwStopping' = FALSE
    /\ UNCHANGED gwGen
    /\ \/ link = "open" /\ PumpEnds
       \/ /\ link # "open"
          /\ UNCHANGED <<link, uiGen, uiShows, restartVars, updateFlags, taskVars>>

GatewayStarts ==
    /\ ~gwUp /\ gwGen < MaxGeneration
    /\ gwUp' = TRUE /\ gwGen' = gwGen + 1
    /\ UNCHANGED <<gwStopping, link, uiGen, uiShows, restartVars, updateFlags, taskVars, faults>>

\* the machine sleeps: the link stays open and nothing arrives
LinkFallsSilent ==
    /\ link = "open" /\ Spend
    /\ link' = "silent"
    /\ UNCHANGED <<gwVars, uiGen, uiShows, restartVars, updateFlags, taskVars>>

LinkBreaks ==
    /\ link = "open" /\ Spend
    /\ PumpEnds
    /\ UNCHANGED gwVars

\* another UI, or tfr admin, has the Gateway restarted
OtherAsksRestart ==
    /\ gwUp /\ ~gwStopping /\ gwGen < MaxGeneration /\ Spend
    /\ gwStopping' = TRUE
    /\ UNCHANGED <<gwGen, gwUp, link, uiGen, uiShows, restartVars, updateFlags, taskVars>>

-----------------------------------------------------------------------------
(* Restarts the UI asks for, and updates *)

AskRestart ==
    /\ link = "open" /\ request = "none" /\ ~expected /\ gwGen < MaxGeneration
    /\ Spend
    /\ request' = "sent" /\ expected' = TRUE /\ restart' = "requested"
    /\ UNCHANGED <<gwVars, link, uiGen, uiShows, updateFlags, taskVars>>

GatewayTakesRestart ==
    /\ request = "sent" /\ link = "open" /\ gwUp
    /\ request' = "answered" /\ gwStopping' = TRUE
    /\ UNCHANGED <<gwGen, gwUp, link, uiGen, uiShows, expected, restart, updateFlags, taskVars,
                   faults>>

ReadAnswer ==
    /\ request = "answered" /\ link = "open"
    /\ request' = "none" /\ restart' = "acknowledged"
    /\ UNCHANGED <<gwVars, link, uiGen, uiShows, expected, updateFlags, taskVars, faults>>

\* _watch_restart_acknowledgement after 20 seconds
RestartStalls ==
    /\ expected /\ restart = "acknowledged"
    /\ restart' = "stalled"
    /\ UNCHANGED <<gwVars, link, uiGen, uiShows, request, expected, updateFlags, taskVars, faults>>

\* an update begins (request_update, _prepare_update) and is aborted or needs no restart
BeginUpdate ==
    /\ link = "open" /\ ~updating /\ Spend
    /\ updating' = TRUE
    /\ UNCHANGED <<gwVars, link, uiGen, uiShows, restartVars, leaving, taskVars>>

EndUpdate ==
    /\ link = "open" /\ updating /\ ~leaving
    /\ updating' = FALSE
    /\ UNCHANGED <<gwVars, link, uiGen, uiShows, restartVars, leaving, taskVars, faults>>

\* _commit_update: the Gateway restarts, as far as the UI knows
CommitUpdate ==
    /\ updating /\ ~leaving
    /\ leaving' = TRUE
    /\ UNCHANGED <<gwVars, link, uiGen, uiShows, restartVars, updating, taskVars, faults>>

-----------------------------------------------------------------------------
(* The activities *)

Alive == link = "open" /\ gwUp

\* A ping that is answered in time; a Gateway that is stopping may be too slow.
Answered == Alive
TimesOut == ~Alive \/ gwStopping

\* Seeded fault: only a connection that counts as well is pinged.
HeartbeatFailsShown ==
    /\ pc[Supervisor] = "idle" /\ ~updating /\ TimesOut /\ uiShows
    /\ pc' = [pc EXCEPT ![Supervisor] = "waiting"]
    /\ runtimeQueue' = Append(runtimeQueue, Supervisor)
    /\ UNCHANGED <<gwVars, link, uiGen, uiShows, restartVars, updateFlags, tries, clientQueue,
                   faults>>

\* the heartbeat missed its answer
HeartbeatFails ==
    /\ pc[Supervisor] = "idle" /\ ~updating /\ TimesOut
    /\ pc' = [pc EXCEPT ![Supervisor] = "waiting"]
    /\ runtimeQueue' = Append(runtimeQueue, Supervisor)
    /\ UNCHANGED <<gwVars, link, uiGen, uiShows, restartVars, updateFlags, tries, clientQueue,
                   faults>>

\* /gateway reconnect looks whether an attempt is under way
AskReconnect ==
    /\ pc[Manual] = "idle" /\ Spend
    /\ pc' = [pc EXCEPT ![Manual] = IF runtimeQueue = <<>> THEN "insisting" ELSE "waiting"]
    /\ runtimeQueue' = Append(runtimeQueue, Manual)
    /\ UNCHANGED <<gwVars, link, uiGen, uiShows, restartVars, updateFlags, tries, clientQueue>>

Finish(t) ==
    /\ pc' = [pc EXCEPT ![t] = "idle"]
    /\ tries' = [tries EXCEPT ![t] = 0]
    /\ runtimeQueue' = IF Holds(runtimeQueue, t) THEN Tail(runtimeQueue) ELSE runtimeQueue

\* the lock is free and the connection turns out to be well
FindHealthy(t) ==
    /\ t \in {Supervisor, Manual} /\ pc[t] = "waiting" /\ Holds(runtimeQueue, t)
    /\ uiShows /\ Answered
    /\ Finish(t)
    /\ UNCHANGED <<gwVars, link, uiGen, uiShows, restartVars, updateFlags, clientQueue, faults>>

TakeLock(t) ==
    /\ pc[t] \in {"waiting", "insisting"} /\ Holds(runtimeQueue, t)
    /\ t \in {Supervisor, Manual} /\ pc[t] = "waiting" => ~uiShows \/ TimesOut
    /\ uiShows' = FALSE
    /\ restart' = IF t \in Recoveries THEN "reconnecting" ELSE restart
    /\ pc' = [pc EXCEPT ![t] = "queued"]
    /\ clientQueue' = Append(clientQueue, t)
    /\ UNCHANGED <<gwVars, link, uiGen, request, expected, updateFlags, tries, runtimeQueue,
                   faults>>

\* client.reconnect: a pump that still runs is cancelled, and its end is a disconnection
Cut(t) ==
    /\ pc[t] = "queued" /\ Holds(clientQueue, t)
    /\ link' = "none"
    /\ \/ /\ link = "none"
          /\ pc' = [pc EXCEPT ![t] = "joining"]
          /\ UNCHANGED <<clientQueue, runtimeQueue, uiShows, restartVars, updating>>
       \/ link # "none" /\ Disconnected([pc EXCEPT ![t] = "joining"])
    /\ UNCHANGED <<gwVars, uiGen, leaving, tries, faults>>

\* a new connection is taken over unless the Gateway is another process
Accepted(t) == gwUp /\ (uiGen = gwGen \/ t \in Recoveries)

Join(t) ==
    /\ pc[t] = "joining" /\ Accepted(t)
    /\ link' = "open" /\ uiGen' = gwGen /\ uiShows' = TRUE
    /\ clientQueue' = Tail(clientQueue)
    /\ Finish(t)
    /\ expected' = (expected /\ t \notin Recoveries)
    /\ restart' = IF t \in Recoveries THEN "reconnected" ELSE restart
    /\ leaving' = (leaving /\ t \notin UpdateRecoveries)
    /\ updating' = (updating /\ t \notin UpdateRecoveries)
    /\ UNCHANGED <<gwVars, request, faults>>

LastTry(t) == t = Manual \/ tries[t] + 1 = MaxAttempts

FailToJoin(t) ==
    /\ pc[t] = "joining"
    /\ (~Accepted(t) /\ UNCHANGED faults) \/ (Accepted(t) /\ Spend)
    /\ clientQueue' = Tail(clientQueue)
    /\ \/ /\ ~LastTry(t)
          /\ pc' = [pc EXCEPT ![t] = "pause"]
          /\ tries' = [tries EXCEPT ![t] = @ + 1]
          /\ UNCHANGED <<runtimeQueue, expected, restart, updateFlags>>
       \/ /\ LastTry(t)
          /\ Finish(t)
          /\ expected' = (expected /\ t \notin Recoveries)
          /\ restart' = IF t \in Recoveries THEN "failed" ELSE restart
          /\ leaving' = (leaving /\ t \notin UpdateRecoveries)
          /\ updating' = (updating /\ t \notin UpdateRecoveries)
    /\ UNCHANGED <<gwVars, link, uiGen, uiShows, request>>

TryAgain(t) ==
    /\ pc[t] = "pause"
    /\ pc' = [pc EXCEPT ![t] = "queued"]
    /\ clientQueue' = Append(clientQueue, t)
    /\ restart' = IF t \in Recoveries THEN "reconnecting" ELSE restart
    /\ UNCHANGED <<gwVars, link, uiGen, uiShows, request, expected, updateFlags, tries,
                   runtimeQueue, faults>>

TaskStep(t) ==
    \/ FindHealthy(t) \/ TakeLock(t) \/ Cut(t) \/ Join(t) \/ FailToJoin(t) \/ TryAgain(t)

GatewayStep == GatewayStarts \/ (gwStopping /\ GatewayStops)

LifecycleNext ==
    \/ GatewayStops \/ GatewayStarts \/ LinkFallsSilent \/ LinkBreaks \/ OtherAsksRestart
    \/ AskRestart \/ GatewayTakesRestart \/ ReadAnswer \/ RestartStalls
    \/ BeginUpdate \/ EndUpdate \/ CommitUpdate
    \/ HeartbeatFails \/ AskReconnect
    \/ \E t \in Tasks : TaskStep(t)

LifecycleFairness ==
    /\ WF_lifeVars(GatewayStep) /\ WF_lifeVars(HeartbeatFails)
    /\ \A t \in Tasks : WF_lifeVars(TaskStep(t))

LifecycleSpec == LifecycleInit /\ [][LifecycleNext]_lifeVars /\ LifecycleFairness

-----------------------------------------------------------------------------
(* Properties *)

\* An activity is in the queue of a lock exactly while it waits for it or holds it, and
\* what the UI reads from is the Gateway it believes it reads from.
LifecycleTypeOK ==
    /\ uiGen \in 1..gwGen
    /\ link \in {"open", "silent", "none"}
    /\ \A t \in Tasks : tries[t] \in 0..(MaxAttempts - 1)
    /\ \A t \in Tasks : (pc[t] \in {"queued", "joining"}) = \E i \in DOMAIN clientQueue : clientQueue[i] = t
    /\ \A t \in Tasks : (pc[t] # "idle" /\ t \notin UpdateRecoveries)
                            = \E i \in DOMAIN runtimeQueue : runtimeQueue[i] = t
    /\ link = "open" => uiGen = gwGen /\ gwUp
    /\ Idle(Recoveries) # {} /\ Idle(UpdateRecoveries) # {}

\* Once every recovery has ended, what plugins were told last is what is the case: they
\* see the Gateway connected exactly when the UI reads from it.  A disconnection that is
\* handled while another recovery is under way must not be told after its success
\* (gateway_client.py _handle_disconnect, _set_gateway_connected).
ShownAgrees == (\A t \in Tasks : pc[t] = "idle") => uiShows = (link # "none")

\* When the faults are over, a UI whose Gateway is still the same process is connected to
\* it, whatever recoveries were under way at once; only an update that does not end keeps
\* the heartbeat from it (gateway_client.py _supervise; README.md:1061-1065).
Recovers == <>[]((Alive /\ uiShows) \/ uiGen # gwGen \/ ~gwUp \/ updating)
=============================================================================
