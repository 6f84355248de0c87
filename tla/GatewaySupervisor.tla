------------------------- MODULE GatewaySupervisor -------------------------
(***************************************************************************)
(* The supervisor that owns the world connections and runs the Gateway     *)
(* application as a child process: it starts it, hands over to a new one   *)
(* when a restart is asked for, restarts one that failed, and ends, which  *)
(* closes the worlds, when it is stopped or its child ended on purpose.    *)
(***************************************************************************)
EXTENDS Integers

CONSTANTS MaxChildren,  \* bound: processes started
          MaxErrors     \* bound: children that end with an error they report (exit status 2)

ASSUME SupervisorAssumption == MaxChildren \in Nat \ {0} /\ MaxErrors \in Nat

Alright == 0
Failed == 1          \* a crash, a signal: any status but 0, 2 and the one of a restart
Refused == 2         \* run() of cli.py reports an error
RestartStatus == 75  \* GATEWAY_APPLICATION_RESTART_EXIT

VARIABLES
    sup,       \* supervise_gateway: watching, handing over, terminating, pausing or ended
    child,     \* the Gateway: none, booting, serving (its signal handlers are set), stopping, gone
    exitStatus, \* its exit status
    preserve,  \* what a child that stops passes to runtime.stop(preserve_worlds=)
    children,  \* number of processes started
    attached,  \* the process whose connection the connector has, 0 for none
    asked,     \* the event _gateway_restart
    askedOf,   \* ghost: the process whose restart was asked for last
    stop,      \* a signal to stop the service
    expired,   \* the event _expired
    lapsed,    \* ghost: the lease ran out
    worlds,    \* whether the world connections are open
    errors     \* reported errors so far

childVars == <<child, exitStatus, preserve, children, attached, errors>>
flagVars == <<asked, askedOf, stop, expired, lapsed>>
supervisorVars == <<sup, childVars, flagVars, worlds>>

SupervisorInit ==
    /\ sup = "watching" /\ child = "none" /\ exitStatus = Alright /\ preserve = FALSE
    /\ children = 0 /\ attached = 0 /\ errors = 0
    /\ asked = FALSE /\ askedOf = 0 /\ stop = FALSE /\ expired = FALSE /\ lapsed = FALSE
    /\ worlds = TRUE

ChildAlive == child \in {"booting", "serving", "stopping"}
Exit(code) == child' = "gone" /\ exitStatus' = code

-----------------------------------------------------------------------------
(* The Gateway application *)

\* run_gateway connects to the connector, which takes one Gateway, before it listens.
Attach ==
    /\ child = "booting" /\ attached = 0
    /\ attached' = children
    /\ UNCHANGED <<sup, child, exitStatus, preserve, children, errors, flagVars, worlds>>

Serve ==
    /\ child = "booting" /\ attached = children
    /\ child' = "serving"
    /\ UNCHANGED <<sup, exitStatus, preserve, children, attached, errors, flagVars, worlds>>

Crash ==
    /\ ChildAlive
    /\ Exit(Failed)
    /\ UNCHANGED <<sup, preserve, children, attached, errors, flagVars, worlds>>

\* An error of the operating system, a closed connector connection, a connector that still
\* has the connection of the predecessor, an invalid message: the runtime is stopped without
\* preserving worlds, which tells the connector when it still can.
Error ==
    /\ ChildAlive /\ errors < MaxErrors
    /\ errors' = errors + 1
    /\ Exit(Refused)
    /\ expired' \in {expired, TRUE}
    /\ UNCHANGED <<sup, preserve, children, attached, asked, askedOf, stop, lapsed, worlds>>

\* the connector sees the connection of a Gateway end
Detach ==
    /\ attached # 0 /\ (attached # children \/ ~ChildAlive)
    /\ attached' = 0
    /\ UNCHANGED <<sup, child, exitStatus, preserve, children, errors, flagVars, worlds>>

\* an update has been activated: the same process executes the new release
RestartForUpdate ==
    /\ child = "serving" /\ children < MaxChildren
    /\ child' = "booting"
    /\ children' = children + 1
    /\ UNCHANGED <<sup, exitStatus, preserve, attached, errors, flagVars, worlds>>

\* Seeded fault: a restart stops the runtime as a stop of the service does.
StopChildUnpreserved ==
    /\ child = "stopping"
    /\ expired' = TRUE
    /\ Exit(IF preserve THEN RestartStatus ELSE Alright)
    /\ UNCHANGED <<sup, preserve, children, attached, errors, asked, askedOf, stop, lapsed,
                   worlds>>

\* runtime.stop; without preservation the connector is shut down
StopChild ==
    /\ child = "stopping"
    /\ expired' = (expired \/ ~preserve)
    /\ Exit(IF preserve THEN RestartStatus ELSE Alright)
    /\ UNCHANGED <<sup, preserve, children, attached, errors, asked, askedOf, stop, lapsed,
                   worlds>>

-----------------------------------------------------------------------------
(* Requests, signals and the lease *)

\* tfr admin restart-gateway, /gateway restart: the Gateway passes it to the connector
ChildAsksRestart ==
    /\ attached # 0 /\ sup # "ended" /\ children < MaxChildren /\ ~asked
    /\ asked' = TRUE /\ askedOf' = children
    /\ UNCHANGED <<sup, childVars, stop, expired, lapsed, worlds>>

StopService ==
    /\ ~stop /\ stop' = TRUE
    /\ UNCHANGED <<sup, childVars, asked, askedOf, expired, lapsed, worlds>>

\* The Gateways that were started within the 30 minutes have all failed.
LeaseRunsOut ==
    /\ attached = 0 /\ children = MaxChildren /\ ~ChildAlive /\ ~lapsed
    /\ expired' = TRUE /\ lapsed' = TRUE
    /\ UNCHANGED <<sup, childVars, asked, askedOf, stop, worlds>>

-----------------------------------------------------------------------------
(* supervise_gateway *)

StartChild ==
    /\ sup = "watching" /\ child = "none" /\ ~stop /\ ~expired
    /\ children < MaxChildren
    /\ children' = children + 1
    /\ child' = "booting" /\ preserve' = FALSE
    /\ UNCHANGED <<sup, exitStatus, attached, errors, flagVars, worlds>>

\* A signal ends a process that has not set its handlers or has removed them.
Signal(keep) ==
    IF child = "serving"
    THEN child' = "stopping" /\ preserve' = keep /\ UNCHANGED exitStatus
    ELSE Exit(Failed) /\ UNCHANGED preserve

\* Seeded fault: the event is cleared although a Gateway that still boots is left alone.
HandOverMissed ==
    /\ sup = "watching" /\ child # "none" /\ asked
    /\ asked' = FALSE
    /\ \/ child = "booting" /\ UNCHANGED <<sup, child, exitStatus, preserve>>
       \/ child \in {"serving", "stopping"} /\ sup' = "handing" /\ Signal(TRUE)
       \/ ~ChildAlive /\ sup' = "reaping" /\ UNCHANGED <<child, exitStatus, preserve>>
    /\ UNCHANGED <<children, attached, errors, askedOf, stop, expired, lapsed, worlds>>

HandOver ==
    /\ sup = "watching" /\ child # "none" /\ asked
    /\ asked' = FALSE
    /\ \/ ChildAlive /\ sup' = "handing" /\ Signal(TRUE)
       \/ ~ChildAlive /\ sup' = "reaping" /\ UNCHANGED <<child, exitStatus, preserve>>
    /\ UNCHANGED <<children, attached, errors, askedOf, stop, expired, lapsed, worlds>>

\* the child has ended, or is killed after 15 seconds
HandedOver ==
    /\ sup = "handing"
    /\ sup' = "reaping"
    /\ \/ ChildAlive /\ Exit(Failed)
       \/ ~ChildAlive /\ UNCHANGED <<child, exitStatus>>
    /\ UNCHANGED <<preserve, children, attached, errors, flagVars, worlds>>

Terminate ==
    /\ sup = "watching" /\ ChildAlive /\ ~asked /\ (stop \/ expired)
    /\ sup' = "handing"
    /\ Signal(FALSE)
    /\ UNCHANGED <<children, attached, errors, flagVars, worlds>>

NoticeExit ==
    /\ sup = "watching" /\ child = "gone" /\ ~asked
    /\ sup' = "reaping"
    /\ UNCHANGED <<childVars, flagVars, worlds>>

EndsSupervisor == stop \/ expired \/ exitStatus \in {Alright, Refused}

\* server.stop() closes the worlds
End ==
    /\ \/ sup = "reaping" /\ EndsSupervisor
       \/ sup = "watching" /\ child = "none" /\ (stop \/ expired)
    /\ sup' = "ended" /\ worlds' = FALSE
    /\ attached' = 0
    /\ UNCHANGED <<child, exitStatus, preserve, children, errors, flagVars>>

\* a pause of 2 seconds, and the loop starts over
Restart ==
    /\ sup = "reaping" /\ ~EndsSupervisor
    /\ sup' = "watching" /\ child' = "none"
    /\ UNCHANGED <<exitStatus, preserve, children, attached, errors, flagVars, worlds>>

SupervisorStep ==
    StartChild \/ HandOver \/ HandedOver \/ Terminate \/ NoticeExit \/ End \/ Restart

ChildStep == Attach \/ Serve \/ StopChild \/ Detach

SupervisorNext ==
    \/ SupervisorStep \/ ChildStep
    \/ Crash \/ Error \/ RestartForUpdate \/ ChildAsksRestart \/ StopService \/ LeaseRunsOut

SupervisorFairness ==
    /\ WF_supervisorVars(SupervisorStep) /\ WF_supervisorVars(Attach) /\ WF_supervisorVars(Serve)
    /\ WF_supervisorVars(StopChild) /\ WF_supervisorVars(Detach)

SupervisorSpec == SupervisorInit /\ [][SupervisorNext]_supervisorVars /\ SupervisorFairness

-----------------------------------------------------------------------------
(* Properties *)

\* The worlds are closed only when the service is stopped or every Gateway of the lease
\* has failed: a Gateway that crashes, restarts or is replaced, at whatever moment of its
\* life, leaves them open ("The connector survives a failed application restart for 30
\* minutes", README.md:155; world_connector.py supervise_gateway).
WorldsOutliveGateway == ~worlds => stop \/ lapsed

\* A restart that was asked for replaces the process that ran, or the service ends.
RestartIsServed == asked ~> (children > askedOf \/ sup = "ended" \/ children = MaxChildren)
=============================================================================
