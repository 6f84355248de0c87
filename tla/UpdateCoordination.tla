------------------------- MODULE UpdateCoordination -------------------------
(***************************************************************************)
(* The coordinated update: a native UI asks, the Gateway checks, stages,   *)
(* has every selected UI prepare, and has all of them commit, or aborts.   *)
(* A release is a number; 0 stands for none.  The connections of a UI are  *)
(* numbered, so that what was meant for a lost connection reaches nobody;  *)
(* the acknowledgements of a UI arrive when they are written.  All UIs are *)
(* managed, report their build and can check; whatever else keeps the      *)
(* Gateway from staging is StageFails.  What an update does to the         *)
(* connection of a UI is in ClientLifecycle.                               *)
(***************************************************************************)
EXTENDS Integers, Sequences, FiniteSets

CONSTANTS UIs,             \* native UIs
          MaxRelease,      \* newest release that will be published
          MaxUpdates,      \* bound: transactions the Gateway starts
          MaxConnections,  \* bound: connections of a UI
          AskerMayVanish   \* whether the asker can vanish before its answer is written

ASSUME UpdateAssumption ==
    /\ MaxRelease \in Nat \ {0} /\ MaxUpdates \in Nat /\ MaxConnections \in Nat \ {0}
    /\ AskerMayVanish \in BOOLEAN

NoRelease == 0
Releases == 1..MaxRelease

VARIABLES
    latest,     \* newest published release
    build,      \* what each UI runs
    installed,  \* what the host of each UI starts next
    prepared,   \* ghost: the releases the host of each UI has staged
    conn,       \* number of the latest connection of each UI
    up,         \* whether that connection is open and a participant
    inbox,      \* messages of the Gateway that the UI has not read
    uiStaged,   \* _staged_update of the UI
    tasks,      \* requests of the Gateway the UI works on
    gwBuild,    \* what the Gateway runs
    waiting,    \* connections whose update request waits for _update_lock
    asker,      \* connection whose request is being staged or answered
    phase,      \* where the transaction is
    number,     \* of the transaction; it stands for its request ids
    accepting,  \* _accepting_update_participants
    target,     \* release of the manifest that was checked
    staged,     \* _staged_update of the Gateway
    chosen,     \* _update_transaction_participants
    restarts,   \* _update_gateway_restart
    forced,     \* _update_force
    answers,    \* results per connection: a release, or NoRelease for a failure
    decided     \* ghost: the transactions that were committed

uiVars == <<build, installed, prepared, conn, up, uiStaged, tasks>>
stageVars == <<waiting, asker, number, target>>
coordVars == <<phase, accepting, staged, chosen, restarts, forced, answers, decided>>
updateVars == <<latest, uiVars, inbox, gwBuild, stageVars, coordVars>>

NoAsker == <<>>
Members == {<<u, conn[u]>> : u \in {v \in UIs : up[v]}}
Outdated(p) == forced \/ build[p[1]] < latest
Message(type, release) == [type |-> type, release |-> release, number |-> number]

\* write_message to each of the connections that are still there
Send(ps, m) == inbox' = [u \in UIs |-> IF <<u, conn[u]>> \in ps /\ up[u] THEN Append(inbox[u], m)
                                       ELSE inbox[u]]

\* _handle_update_ack: only a request that is waited for on this connection counts
Record(u, t, release) ==
    LET p == <<u, t.conn>> IN
    answers' = IF /\ phase = (IF t.type = "prepare" THEN "preparing" ELSE "committing")
                  /\ t.number = number /\ p \in chosen \ DOMAIN answers /\ p \in Members
               THEN [q \in DOMAIN answers \cup {p} |-> IF q = p THEN release ELSE answers[q]]
               ELSE answers

\* the end of a transaction that did not commit
Reopen ==
    /\ accepting' = TRUE
    /\ chosen' = {}
    /\ phase' = "idle"
    /\ answers' = <<>>

UpdatesInit ==
    /\ latest = 1
    /\ build = [u \in UIs |-> 0] /\ gwBuild = 0
    /\ installed = build
    /\ prepared = [u \in UIs |-> {}]
    /\ conn = [u \in UIs |-> 1] /\ up = [u \in UIs |-> TRUE]
    /\ inbox = [u \in UIs |-> <<>>]
    /\ uiStaged = [u \in UIs |-> NoRelease]
    /\ tasks = [u \in UIs |-> {}]
    /\ waiting = <<>> /\ asker = NoAsker /\ number = 0 /\ target = NoRelease
    /\ phase = "idle" /\ accepting = TRUE /\ staged = NoRelease
    /\ chosen = {} /\ restarts = FALSE /\ forced = FALSE
    /\ answers = <<>> /\ decided = {}

-----------------------------------------------------------------------------
(* The request and the staging of the Gateway *)

Publish ==
    /\ latest < MaxRelease
    /\ latest' = latest + 1
    /\ UNCHANGED <<uiVars, inbox, gwBuild, stageVars, coordVars>>

Ask(u) ==
    LET p == <<u, conn[u]>> IN
    /\ up[u] /\ asker # p /\ \A i \in DOMAIN waiting : waiting[i] # p
    /\ number < MaxUpdates
    /\ waiting' = Append(waiting, p)
    /\ UNCHANGED <<latest, build, installed, prepared, conn, up, uiStaged, tasks, inbox,
                   gwBuild, asker, number, target, coordVars>>

\* a request that gets the lock while a transaction is on its way
Refuse ==
    /\ waiting # <<>> /\ phase \notin {"checking", "staging"}
    /\ staged # NoRelease \/ phase # "idle"
    /\ waiting' = Tail(waiting)
    /\ UNCHANGED <<latest, uiVars, inbox, gwBuild, asker, number, target, coordVars>>

BeginStage(force) ==
    /\ waiting # <<>> /\ phase = "idle" /\ staged = NoRelease /\ number < MaxUpdates
    /\ asker' = Head(waiting) /\ waiting' = Tail(waiting)
    /\ number' = number + 1
    /\ restarts' = FALSE /\ forced' = force
    /\ accepting' = FALSE /\ chosen' = Members
    /\ phase' = "checking"
    /\ UNCHANGED <<latest, uiVars, inbox, gwBuild, target, staged, answers, decided>>

\* The manifest was fetched and every UI that runs it was asked for plugin updates.
\* The selection is stored when staging has succeeded; until then nobody looks at it.
Checked ==
    /\ phase = "checking"
    /\ \A p \in chosen : Outdated(p) \/ p \in Members
    /\ \E plugins \in SUBSET {p \in chosen : ~Outdated(p)}, gwPlugins \in BOOLEAN :
        LET selected == {p \in chosen : Outdated(p)} \cup plugins
            gateway == forced \/ gwBuild < latest \/ gwPlugins
        IN IF ~gateway /\ selected = {}
           THEN /\ Reopen
                /\ forced' = FALSE
                /\ asker' = NoAsker
                /\ UNCHANGED <<restarts, target>>
           ELSE /\ chosen' = selected /\ restarts' = gateway
                /\ target' = latest
                /\ phase' = "staging"
                /\ UNCHANGED <<accepting, answers, forced, asker>>
    /\ UNCHANGED <<latest, uiVars, inbox, gwBuild, waiting, number, staged, decided>>

\* the manifest is fetched again and has to be the one that was checked
StageDone ==
    /\ phase = "staging"
    /\ forced \/ latest = target
    /\ staged' = latest
    /\ phase' = "staged"
    /\ UNCHANGED <<latest, uiVars, inbox, gwBuild, stageVars, accepting, chosen, restarts, forced,
                   answers, decided>>

StageFails ==
    /\ phase \in {"checking", "staging"}
    /\ Reopen
    /\ restarts' = FALSE
    /\ asker' = NoAsker
    /\ UNCHANGED <<latest, uiVars, inbox, gwBuild, waiting, number, target, staged, forced,
                   decided>>

-----------------------------------------------------------------------------
(* The coordination *)

\* The answer to the asker is written; then the coordination starts and every
\* participant is asked to prepare.
Coordinate ==
    /\ phase = "staged" /\ asker \in Members
    /\ Send(chosen, Message("prepare", IF forced THEN NoRelease ELSE staged))
    /\ asker' = NoAsker
    /\ phase' = "preparing"
    /\ answers' = [p \in chosen \ Members |-> NoRelease]
    /\ UNCHANGED <<latest, uiVars, gwBuild, waiting, number, target, accepting, staged, chosen,
                   restarts, forced, decided>>

\* wait_for gives up on a participant
TimeOut(p) ==
    /\ phase \in {"preparing", "committing"}
    /\ p \in chosen \ DOMAIN answers
    /\ answers' = [q \in DOMAIN answers \cup {p} |-> IF q = p THEN NoRelease ELSE answers[q]]
    /\ UNCHANGED <<latest, uiVars, inbox, gwBuild, stageVars, phase, accepting, staged, chosen,
                   restarts, forced, decided>>

\* Seeded fault: the releases that were staged are not compared
ReadyUnmatched == DOMAIN answers = chosen /\ \A p \in chosen : answers[p] # NoRelease

Ready == DOMAIN answers = chosen /\ \A p \in chosen : answers[p] = staged

\* gather ends with the first failure; different releases are seen when all have answered
Abort ==
    /\ phase = "preparing"
    /\ \/ \E p \in DOMAIN answers : answers[p] = NoRelease
       \/ DOMAIN answers = chosen /\ ~Ready
    /\ Send(chosen, Message("abort", NoRelease))
    /\ staged' = NoRelease /\ restarts' = FALSE /\ forced' = FALSE
    /\ Reopen
    /\ UNCHANGED <<latest, uiVars, gwBuild, stageVars, decided>>

Commit ==
    /\ phase = "preparing" /\ Ready
    /\ Send(chosen, Message("commit", staged))
    /\ phase' = "committing"
    /\ answers' = [p \in chosen \ Members |-> NoRelease]
    /\ decided' = decided \cup {[release |-> staged, uis |-> {p[1] : p \in chosen},
                                 ready |-> {u \in UIs : staged \in prepared[u]}]}
    /\ UNCHANGED <<latest, uiVars, gwBuild, stageVars, accepting, staged, chosen, restarts,
                   forced>>

\* failed commits are only reported
CommitDone ==
    /\ phase = "committing" /\ DOMAIN answers = chosen
    /\ IF restarts
       THEN /\ phase' = "activating"
            /\ UNCHANGED <<accepting, chosen, staged, restarts, forced, answers>>
       ELSE /\ Reopen
            /\ staged' = NoRelease /\ restarts' = FALSE /\ forced' = FALSE
    /\ UNCHANGED <<latest, uiVars, inbox, gwBuild, stageVars, decided>>

\* The staged release stays behind, so that later requests are refused.
ActivationFails ==
    /\ phase = "activating"
    /\ Reopen
    /\ UNCHANGED <<latest, uiVars, inbox, gwBuild, stageVars, staged, restarts, forced, decided>>

\* The Gateway closes its connections and executes the new release.  A UI that did not
\* restart itself cannot resume on it and is reloaded.
ActivateGateway ==
    /\ phase = "activating"
    /\ gwBuild' = staged
    /\ Reopen
    /\ staged' = NoRelease /\ restarts' = FALSE /\ forced' = FALSE
    /\ waiting' = <<>> /\ asker' = NoAsker
    /\ up' = [u \in UIs |-> FALSE] /\ inbox' = [u \in UIs |-> <<>>]
    /\ build' = installed
    /\ uiStaged' = [u \in UIs |-> NoRelease] /\ tasks' = [u \in UIs |-> {}]
    /\ UNCHANGED <<latest, installed, prepared, conn, number, target, decided>>

-----------------------------------------------------------------------------
(* The native UIs *)

\* An update message is read: requests become tasks, the others act at once.  The read
\* loop and the tasks run on one event loop, so a task starts in a step of its own.
ReadMessage(u) ==
    /\ inbox[u] # <<>>
    /\ LET m == Head(inbox[u]) IN
        /\ inbox' = [inbox EXCEPT ![u] = Tail(@)]
        /\ uiStaged' = IF m.type = "abort" THEN [uiStaged EXCEPT ![u] = NoRelease] ELSE uiStaged
        /\ tasks' = IF m.type \in {"prepare", "commit"}
                    THEN [tasks EXCEPT ![u] = @ \cup {[type |-> m.type, conn |-> conn[u],
                              number |-> m.number, release |-> m.release, begun |-> FALSE]}]
                    ELSE tasks
    /\ UNCHANGED <<latest, build, installed, prepared, conn, up, gwBuild, stageVars,
                   coordVars>>

\* The task ends with the acknowledgement; on a lost connection nobody gets it.
EndTask(u, t, release) ==
    /\ tasks' = [tasks EXCEPT ![u] = @ \ {t}]
    /\ Record(u, t, release)

\* stage_managed_update stages the published release, which has to be the one asked for
FinishPrepare(u, t) ==
    /\ t \in tasks[u] /\ t.type = "prepare"
    /\ t.release \in {NoRelease, latest}
    /\ prepared' = [prepared EXCEPT ![u] = @ \cup {latest}]
    /\ uiStaged' = [uiStaged EXCEPT ![u] = latest]
    /\ EndTask(u, t, latest)
    /\ UNCHANGED <<latest, build, installed, conn, up, inbox, gwBuild, stageVars,
                   phase, accepting, staged, chosen, restarts, forced, decided>>

\* _commit_update: the host switches to the release that the UI has staged last
Activate(u, t) ==
    /\ t \in tasks[u] /\ t.type = "commit" /\ ~t.begun
    /\ uiStaged[u] = t.release
    /\ installed' = [installed EXCEPT ![u] = t.release]
    /\ tasks' = [tasks EXCEPT ![u] = (@ \ {t}) \cup {[t EXCEPT !.begun = TRUE]}]
    /\ UNCHANGED <<latest, build, prepared, conn, up, uiStaged, inbox, gwBuild, stageVars,
                   coordVars>>

FailTask(u, t) ==
    /\ t \in tasks[u]
    /\ t.type \in {"prepare", "commit"} /\ ~t.begun
    /\ EndTask(u, t, NoRelease)
    /\ UNCHANGED <<latest, build, installed, prepared, conn, up, uiStaged, inbox,
                   gwBuild, stageVars, phase, accepting, staged, chosen, restarts, forced, decided>>

\* What a UI that closes its connection leaves with the Gateway: its request is cancelled,
\* an answer to it that was due cannot be written, and what it was asked fails.
Leave(u) ==
    LET p == <<u, conn[u]>>
        cancelled == asker = p /\ phase \in {"checking", "staging"}
    IN /\ phase = "staged" /\ asker = p => AskerMayVanish
       /\ waiting' = SelectSeq(waiting, LAMBDA q : q # p)
       /\ inbox' = [inbox EXCEPT ![u] = <<>>]
       /\ asker' = IF asker = p THEN NoAsker ELSE asker
       /\ \/ /\ cancelled
             /\ restarts' = FALSE
             /\ Reopen
          \/ /\ ~cancelled
             /\ phase' = IF asker = p THEN "stuck" ELSE phase
             /\ answers' = IF phase \in {"preparing", "committing"} /\ p \in chosen \ DOMAIN answers
                           THEN [q \in DOMAIN answers \cup {p} |->
                                    IF q = p THEN NoRelease ELSE answers[q]]
                           ELSE answers
             /\ UNCHANGED <<accepting, chosen, restarts>>
       /\ UNCHANGED <<number, target, staged, forced, decided>>

\* The acknowledgement of a commit; the UI restarts when it could be written.
AcknowledgeCommit(u, t) ==
    /\ t \in tasks[u] /\ t.type = "commit" /\ t.begun
    /\ tasks' = [tasks EXCEPT ![u] = (@ \ {t}) \cup
                    IF up[u] THEN {[t EXCEPT !.type = "restart"]} ELSE {}]
    /\ Record(u, t, t.release)
    /\ UNCHANGED <<latest, build, installed, prepared, conn, up, uiStaged, inbox,
                   gwBuild, stageVars, phase, accepting, staged, chosen, restarts, forced, decided>>

RestartUi(u) ==
    /\ \E t \in tasks[u] : t.type = "restart"
    /\ build' = [build EXCEPT ![u] = installed[u]]
    /\ up' = [up EXCEPT ![u] = FALSE]
    /\ uiStaged' = [uiStaged EXCEPT ![u] = NoRelease] /\ tasks' = [tasks EXCEPT ![u] = {}]
    /\ Leave(u)
    /\ UNCHANGED <<latest, installed, prepared, conn, gwBuild>>

Break(u) ==
    /\ up[u]
    /\ up' = [up EXCEPT ![u] = FALSE]
    /\ Leave(u)
    /\ UNCHANGED <<latest, build, installed, prepared, conn, uiStaged, tasks, gwBuild>>

\* A new connection is refused while an update is on its way.
Connect(u) ==
    /\ ~up[u] /\ accepting /\ conn[u] < MaxConnections
    /\ up' = [up EXCEPT ![u] = TRUE]
    /\ conn' = [conn EXCEPT ![u] = @ + 1]
    /\ UNCHANGED <<latest, build, installed, prepared, uiStaged, tasks, inbox, gwBuild, stageVars,
                   coordVars>>


TaskStep(u, t) ==
    \/ FinishPrepare(u, t) \/ FailTask(u, t)
    \/ Activate(u, t) \/ AcknowledgeCommit(u, t)

UiStep(u) == ReadMessage(u) \/ RestartUi(u) \/ \E t \in tasks[u] : TaskStep(u, t)

CoordinatorStep ==
    \/ Refuse \/ Checked \/ StageDone \/ StageFails \/ Coordinate \/ Abort
    \/ Commit \/ CommitDone \/ ActivationFails \/ ActivateGateway

Staging == \E force \in BOOLEAN : BeginStage(force)
Expiry == \E p \in chosen : TimeOut(p)

UpdatesNext ==
    \/ Publish \/ CoordinatorStep \/ Staging \/ Expiry
    \/ \E u \in UIs : Ask(u) \/ UiStep(u) \/ Break(u) \/ Connect(u)

\* The Gateway's tasks and its timeouts go on, whatever the UIs do.
UpdatesFairness == WF_updateVars(CoordinatorStep) /\ WF_updateVars(Expiry)

UpdatesSpec == UpdatesInit /\ [][UpdatesNext]_updateVars /\ UpdatesFairness

-----------------------------------------------------------------------------
(* Properties *)

\* Values stay in range, and participants may only connect outside of a transaction:
\* the flag and the phase are written in different places.
UpdatesTypeOK ==
    /\ latest \in Releases
    /\ build \in [UIs -> 0..MaxRelease] /\ installed \in [UIs -> 0..MaxRelease]
    /\ uiStaged \in [UIs -> 0..MaxRelease] /\ gwBuild \in 0..MaxRelease
    /\ conn \in [UIs -> 1..MaxConnections]
    /\ up \in [UIs -> BOOLEAN]
    /\ DOMAIN answers \subseteq chosen
    /\ \A u \in UIs : \A t \in tasks[u] : t.number \in 1..number
    /\ accepting = (phase = "idle")

\* A host changes what it runs only for a transaction that was committed, and a
\* transaction is committed only when every participant has prepared the same release:
\* an answer that is late, of an earlier transaction or of an earlier connection never
\* counts as an answer to this one (gateway.py _coordinate_update, _handle_update_ack;
\* gateway_client.py _commit_update).
ActivatedTogether ==
    [][/\ \A u \in UIs : installed'[u] # installed[u] =>
            \E d \in decided : d.release = installed'[u] /\ u \in d.uis /\ d.uis \subseteq d.ready
       /\ gwBuild' # gwBuild => \E d \in decided : d.release = gwBuild' /\ d.uis \subseteq d.ready
      ]_updateVars
=============================================================================
