---------------------------- MODULE MCConnection ----------------------------
(* The connection of a native UI to its Gateway, from three sides that share *)
(* no state: the feed of one world whose history keeps a single event, so    *)
(* that every reconnection may meet a gap; the UI's recovery of its          *)
(* connection; and the connector's supervisor of Gateway processes.  A       *)
(* behaviour follows one of them while the others rest in their initial      *)
(* states.                                                                   *)
EXTENDS GatewayFeed, ClientLifecycle, GatewaySupervisor

CONSTANTS lobby, line

MCWorlds == {lobby}
MCClasses == {line}
MCLimit == [w \in MCWorlds |-> 1]
MCSourceBytes == [k \in MCClasses |-> 1]
NativeUi == [worlds |-> MCWorlds, classes |-> MCClasses, includeHistory |-> TRUE,
             maximum |-> None, perWorld |-> None, bytes |-> None]
MCRequests == {NativeUi}
NoGag == {{}}
-----------------------------------------------------------------------------
VARIABLE part   \* "feed", "recovery" or "supervisor"

restOfFeed == <<part, lifeVars, supervisorVars>>
restOfRecovery == <<part, allVars, supervisorVars>>
restOfSupervisor == <<part, allVars, lifeVars>>

ConnectionInit ==
    /\ part \in {"feed", "recovery", "supervisor"}
    /\ FeedInit /\ LifecycleInit /\ SupervisorInit

ConnectionNext ==
    \/ part = "feed" /\ FeedNext /\ UNCHANGED restOfFeed
    \/ part = "recovery" /\ LifecycleNext /\ UNCHANGED restOfRecovery
    \/ part = "supervisor" /\ SupervisorNext /\ UNCHANGED restOfSupervisor

connectionVars == <<part, allVars, lifeVars, supervisorVars>>

\* The fairness of the three components, each in its own behaviours.
InFeed(step) == part = "feed" /\ step /\ UNCHANGED restOfFeed
InHistory(step) == InFeed(step /\ UNCHANGED <<gatewayId, ui>>)
InRecovery(step) == part = "recovery" /\ step /\ UNCHANGED restOfRecovery
InSupervisor(step) == part = "supervisor" /\ step /\ UNCHANGED restOfSupervisor

ConnectionFairness ==
    /\ WF_connectionVars(InHistory(Pump))
    /\ \A s \in Subscribers : WF_connectionVars(InHistory(Take(s)))
    /\ WF_connectionVars(InFeed(\E s \in Subscribers, r \in Requests : Hello(s, r)))
    /\ WF_connectionVars(InFeed(DialFails))
    /\ WF_connectionVars(InFeed(\E restarting \in BOOLEAN : Install(restarting)))
    /\ WF_connectionVars(InFeed(Publishing)) /\ WF_connectionVars(InFeed(StartReading))
    /\ WF_connectionVars(InFeed(ReadEvent)) /\ WF_connectionVars(InFeed(ReadEnd))
    /\ WF_connectionVars(InFeed(client.conn \notin alive /\ Reconnect))
    /\ WF_connectionVars(InRecovery(GatewayStep))
    /\ WF_connectionVars(InRecovery(HeartbeatFails))
    /\ \A t \in Tasks : WF_connectionVars(InRecovery(TaskStep(t)))
    /\ WF_connectionVars(InSupervisor(SupervisorStep))
    /\ WF_connectionVars(InSupervisor(Attach)) /\ WF_connectionVars(InSupervisor(Serve))
    /\ WF_connectionVars(InSupervisor(StopChild)) /\ WF_connectionVars(InSupervisor(Detach))

ConnectionSpec == ConnectionInit /\ [][ConnectionNext]_connectionVars /\ ConnectionFairness
=============================================================================
