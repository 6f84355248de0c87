----------------------------- MODULE ActorsProofs -----------------------------
(***************************************************************************)
(* Proofs about the actors MCActors checks: the coordination of updates,   *)
(* the lifecycle events and the registry of plugins, the agents' turns,    *)
(* the paced transfers, the transcript of a browser and the output pane;   *)
(* for any number of actors, requests, events, failures and keys.          *)
(***************************************************************************)
EXTENDS UpdateCoordination, PluginLifecycle, PluginRegistry, Agents, PacedTransfers, WebFeed,
        Display, FiniteSetTheorems, SequenceTheorems, TLAPS

-----------------------------------------------------------------------------
(* The coordinated update: UpdateCoordination.                             *)

UpdateTasks ==
    [type : {"prepare", "commit", "restart"}, conn : Nat, number : Nat,
     release : 0..MaxRelease, begun : BOOLEAN]
UpdateMessages == [type : {"prepare", "commit", "abort"}, release : 0..MaxRelease, number : Nat]

CoordTypes ==
    /\ latest \in Releases /\ number \in Nat /\ staged \in 0..MaxRelease
    /\ prepared \in [UIs -> SUBSET Releases]
    /\ installed \in [UIs -> 0..MaxRelease] /\ conn \in [UIs -> Nat]
    /\ tasks \in [UIs -> SUBSET UpdateTasks]
    /\ inbox \in [UIs -> Seq(UpdateMessages)]
    /\ \A p \in chosen : p[1] \in UIs
    /\ phase \in {"staged", "preparing", "committing", "activating"} => staged # NoRelease

\* A UI that answered has what it answered.
AnswersHold ==
    phase = "preparing" =>
        \A p \in DOMAIN answers : answers[p] = NoRelease \/ answers[p] \in prepared[p[1]]

\* A transaction that switched the release of u.
DecidedFor(u, release) == \E d \in decided : d.release = release /\ u \in d.uis

CommitsDecided ==
    /\ \A d \in decided : d.uis \subseteq d.ready
    /\ phase \in {"committing", "activating"} => \E d \in decided : d.release = staged
    /\ \A u \in UIs : /\ \A t \in tasks[u] : t.type = "commit" => DecidedFor(u, t.release)
                      /\ \A i \in 1..Len(inbox[u]) :
                             inbox[u][i].type = "commit" => DecidedFor(u, inbox[u][i].release)

CoordInv == CoordTypes /\ AnswersHold /\ CommitsDecided

LEMMA CoordInit == UpdatesInit => CoordInv
<1> SUFFICES ASSUME UpdatesInit PROVE CoordInv
  OBVIOUS
<1>1. CoordTypes
  BY UpdateAssumption DEF UpdatesInit, CoordTypes, Releases, NoRelease
<1>2. AnswersHold /\ CommitsDecided
  BY DEF UpdatesInit, AnswersHold, CommitsDecided
<1>3. QED  BY <1>1, <1>2 DEF CoordInv

\* A message to the participants reaches those that are still there.
LEMMA SendReaches ==
  ASSUME CoordTypes, NEW ps, NEW m \in UpdateMessages, Send(ps, m)
  PROVE  /\ inbox' \in [UIs -> Seq(UpdateMessages)]
         /\ \A u \in UIs : \A i \in 1..Len(inbox'[u]) :
                \/ i \in 1..Len(inbox[u]) /\ inbox'[u][i] = inbox[u][i]
                \/ inbox'[u][i] = m /\ <<u, conn[u]>> \in ps
<1>1. \A u \in UIs : inbox[u] \in Seq(UpdateMessages)  BY DEF CoordTypes
<1>2. \A u \in UIs : inbox'[u] = IF <<u, conn[u]>> \in ps /\ up[u] THEN Append(inbox[u], m)
                                 ELSE inbox[u]
  BY DEF Send
<1>3. ASSUME NEW u \in UIs
      PROVE  /\ inbox'[u] \in Seq(UpdateMessages)
             /\ \A i \in 1..Len(inbox'[u]) :
                  \/ i \in 1..Len(inbox[u]) /\ inbox'[u][i] = inbox[u][i]
                  \/ inbox'[u][i] = m /\ <<u, conn[u]>> \in ps
  <2>1. inbox[u] \in Seq(UpdateMessages)  BY <1>1
  <2>2. CASE inbox'[u] = inbox[u]  BY <2>1, <2>2
  <2>3. CASE inbox'[u] = Append(inbox[u], m) /\ <<u, conn[u]>> \in ps  BY <2>1, <2>3
  <2>4. QED  BY <1>2, <2>2, <2>3
<1>4. DOMAIN inbox' = UIs /\ inbox' = [u \in UIs |-> inbox'[u]]  BY DEF Send
<1>5. QED  BY <1>3, <1>4

LEMMA CoordTypesStep == CoordTypes /\ [UpdatesNext]_updateVars => CoordTypes'
<1> SUFFICES ASSUME CoordTypes, [UpdatesNext]_updateVars PROVE CoordTypes'
  OBVIOUS
<1> USE UpdateAssumption
<1>1. \A p \in Members : p[1] \in UIs  BY DEF Members
<1>2. CASE UNCHANGED updateVars
  BY <1>2 DEF CoordTypes, updateVars, uiVars, stageVars, coordVars
<1>3. CASE Publish \/ Refuse \/ StageDone \/ Expiry \/ \E u \in UIs : Ask(u) \/ Connect(u)
  <2>1. CASE Publish
    BY <2>1 DEF CoordTypes, Publish, Releases, uiVars, stageVars, coordVars
  <2>2. CASE Refuse  BY <2>2 DEF CoordTypes, Refuse, uiVars, coordVars
  <2>3. CASE StageDone  BY <2>3 DEF CoordTypes, StageDone, Releases, NoRelease, uiVars, stageVars
  <2>4. CASE Expiry  BY <2>4 DEF CoordTypes, Expiry, TimeOut, uiVars, stageVars
  <2>5. CASE \E u \in UIs : Ask(u)  BY <2>5 DEF CoordTypes, Ask, coordVars
  <2>6. CASE \E u \in UIs : Connect(u)  BY <2>6 DEF CoordTypes, Connect, stageVars, coordVars
  <2>7. QED  BY <1>3, <2>1, <2>2, <2>3, <2>4, <2>5, <2>6
<1>4. CASE StageFails \/ CommitDone \/ ActivationFails \/ ActivateGateway
  <2>1. CASE StageFails  BY <2>1 DEF CoordTypes, StageFails, Reopen, uiVars
  <2>2. CASE CommitDone  BY <2>2 DEF CoordTypes, CommitDone, Reopen, uiVars, stageVars, NoRelease
  <2>3. CASE ActivationFails  BY <2>3 DEF CoordTypes, ActivationFails, Reopen, uiVars, stageVars
  <2>4. CASE ActivateGateway
    BY <2>4 DEF CoordTypes, ActivateGateway, Reopen, stageVars, NoRelease
  <2>5. QED  BY <1>4, <2>1, <2>2, <2>3, <2>4
<1>5. CASE Staging
  BY <1>1, <1>5 DEF CoordTypes, Staging, BeginStage, uiVars
<1>6. CASE Checked
  BY <1>6 DEF CoordTypes, Checked, Reopen, uiVars
<1>7. CASE Coordinate \/ Abort \/ Commit
  <2>1. Message("prepare", IF forced THEN NoRelease ELSE staged) \in UpdateMessages
        /\ Message("abort", NoRelease) \in UpdateMessages
        /\ Message("commit", staged) \in UpdateMessages
    BY DEF CoordTypes, Message, UpdateMessages, NoRelease
  <2>2. inbox' \in [UIs -> Seq(UpdateMessages)]
    BY <1>7, <2>1, SendReaches DEF Coordinate, Abort, Commit
  <2>3. CASE Coordinate
    <3>1. staged # NoRelease
      BY <2>3 DEF CoordTypes, Coordinate
    <3>2. QED  BY <2>2, <2>3, <3>1 DEF CoordTypes, Coordinate, uiVars
  <2>4. CASE Abort  BY <2>2, <2>4 DEF CoordTypes, Abort, Reopen, uiVars, stageVars, NoRelease
  <2>5. CASE Commit  BY <2>2, <2>5 DEF CoordTypes, Commit, uiVars, stageVars
  <2>6. QED  BY <1>7, <2>3, <2>4, <2>5
<1>8. CASE \E u \in UIs : UiStep(u) \/ Break(u)
  <2> SUFFICES ASSUME NEW u \in UIs, UiStep(u) \/ Break(u) PROVE CoordTypes'
    BY <1>8
  <2>1. tasks[u] \subseteq UpdateTasks /\ inbox[u] \in Seq(UpdateMessages)  BY DEF CoordTypes
  <2>2. CASE ReadMessage(u)
    <3>1. Head(inbox[u]) \in UpdateMessages /\ Tail(inbox[u]) \in Seq(UpdateMessages)
      BY <2>1, <2>2 DEF ReadMessage
    <3>2. inbox' \in [UIs -> Seq(UpdateMessages)]
      BY <2>2, <3>1 DEF CoordTypes, ReadMessage
    <3>3. tasks' \in [UIs -> SUBSET UpdateTasks]
      <4> DEFINE m == Head(inbox[u])
                 t == [type |-> m.type, conn |-> conn[u], number |-> m.number,
                       release |-> m.release, begun |-> FALSE]
      <4>1. m.type \in {"prepare", "commit"} => t \in UpdateTasks
        BY <3>1 DEF CoordTypes, UpdateTasks, UpdateMessages
      <4>2. tasks' = IF m.type \in {"prepare", "commit"}
                     THEN [tasks EXCEPT ![u] = @ \cup {t}] ELSE tasks
        BY <2>2 DEF ReadMessage
      <4> HIDE DEF m, t
      <4>3. QED  BY <2>1, <4>1, <4>2 DEF CoordTypes
    <3>4. QED  BY <2>2, <3>2, <3>3 DEF CoordTypes, ReadMessage, stageVars, coordVars
  <2>3. CASE RestartUi(u)
    <3>1. tasks' \in [UIs -> SUBSET UpdateTasks]  BY <2>3 DEF CoordTypes, RestartUi
    <3>2. QED  BY <2>3, <3>1 DEF CoordTypes, RestartUi, Leave, Reopen
  <2>4. CASE Break(u)  BY <2>4 DEF CoordTypes, Break, Leave, Reopen
  <2>5. ASSUME NEW t \in tasks[u], TaskStep(u, t) PROVE CoordTypes'
    <3>1. t \in UpdateTasks  BY <2>1
    <3>2. CASE FinishPrepare(u, t)
      BY <2>1, <3>2 DEF CoordTypes, FinishPrepare, EndTask, stageVars
    <3>3. CASE FailTask(u, t)
      BY <2>1, <3>3 DEF CoordTypes, FailTask, EndTask, stageVars
    <3>4. CASE Activate(u, t)
      <4>1. [t EXCEPT !.begun = TRUE] \in UpdateTasks  BY <3>1 DEF UpdateTasks
      <4>2. t.release \in 0..MaxRelease  BY <3>1 DEF UpdateTasks
      <4>3. QED  BY <2>1, <3>4, <4>1, <4>2 DEF CoordTypes, Activate, stageVars, coordVars
    <3>5. CASE AcknowledgeCommit(u, t)
      <4>1. [t EXCEPT !.type = "restart"] \in UpdateTasks  BY <3>1 DEF UpdateTasks
      <4>2. QED  BY <2>1, <3>5, <4>1 DEF CoordTypes, AcknowledgeCommit, stageVars
    <3>6. QED  BY <2>5, <3>2, <3>3, <3>4, <3>5 DEF TaskStep
  <2>6. QED  BY <2>2, <2>3, <2>4, <2>5 DEF UiStep
<1>9. QED
  BY <1>2, <1>3, <1>4, <1>5, <1>6, <1>7, <1>8 DEF UpdatesNext, CoordinatorStep

\* What is prepared is kept, and only an answer that is new is new.
LEMMA AnswersStep == CoordInv /\ [UpdatesNext]_updateVars => AnswersHold'
<1> SUFFICES ASSUME CoordInv, [UpdatesNext]_updateVars, phase' = "preparing",
                    NEW p \in DOMAIN answers'
             PROVE  answers'[p] = NoRelease \/ answers'[p] \in prepared'[p[1]]
  BY DEF AnswersHold
<1>1. prepared \in [UIs -> SUBSET Releases] /\ (phase = "preparing" => AnswersHold)
  BY DEF CoordInv, CoordTypes
<1>2. CASE /\ prepared' = prepared /\ phase = "preparing"
           /\ \A q \in DOMAIN answers' : answers'[q] = NoRelease \/
                                (q \in DOMAIN answers /\ answers'[q] = answers[q])
  BY <1>1, <1>2 DEF AnswersHold
<1>3. CASE Coordinate
  BY <1>3 DEF Coordinate
<1>4. CASE \E u \in UIs : \E t \in tasks[u] : TaskStep(u, t)
  <2> PICK u \in UIs : \E t \in tasks[u] : TaskStep(u, t)
    BY <1>4
  <2> PICK t \in tasks[u] : TaskStep(u, t)
    OBVIOUS
  <2>1. t \in UpdateTasks  BY DEF CoordInv, CoordTypes
  <2>2. CASE FinishPrepare(u, t)
    <3>1. /\ phase = "preparing" /\ prepared' = [prepared EXCEPT ![u] = @ \cup {latest}]
          /\ \A q \in UIs : prepared[q] \subseteq prepared'[q]
      BY <1>1, <2>2 DEF FinishPrepare
    <3>2. latest \in prepared'[u]  BY <1>1, <3>1
    <3>3. CASE answers' = answers
      BY <1>1, <3>1, <3>3 DEF AnswersHold, CoordInv, CoordTypes
    <3>4. CASE answers' # answers
      <4>1. p \in DOMAIN answers \cup {<<u, t.conn>>}
            /\ answers'[p] = IF p = <<u, t.conn>> THEN latest ELSE answers[p]
        BY <2>2, <3>4 DEF FinishPrepare, EndTask, Record
      <4>2. CASE p = <<u, t.conn>>  BY <3>2, <4>1, <4>2
      <4>3. CASE p # <<u, t.conn>>
        BY <1>1, <3>1, <4>1, <4>3 DEF AnswersHold
      <4>4. QED  BY <4>2, <4>3
    <3>5. QED  BY <3>3, <3>4
  <2>3. CASE FailTask(u, t)
    <3>1. prepared' = prepared /\ phase = "preparing"  BY <2>3 DEF FailTask
    <3>2. \A q \in DOMAIN answers' : answers'[q] = NoRelease \/
                                (q \in DOMAIN answers /\ answers'[q] = answers[q])
      BY <2>3 DEF FailTask, EndTask, Record
    <3>3. QED  BY <1>2, <3>1, <3>2
  <2>4. CASE Activate(u, t)  BY <1>2, <2>4 DEF Activate, coordVars
  <2>5. CASE AcknowledgeCommit(u, t)
    <3>1. prepared' = prepared /\ phase = "preparing" /\ answers' = answers
      BY <2>5 DEF AcknowledgeCommit, Record
    <3>2. QED  BY <1>2, <3>1
  <2>6. QED  BY <2>2, <2>3, <2>4, <2>5 DEF TaskStep
<1>5. CASE \E u \in UIs : RestartUi(u) \/ Break(u)
  <2> PICK u \in UIs : RestartUi(u) \/ Break(u)
    BY <1>5
  <2>1. prepared' = prepared /\ Leave(u)  BY DEF RestartUi, Break
  <2>2. QED  BY <1>2, <2>1 DEF Leave, Reopen
<1>6. CASE Expiry
  BY <1>2, <1>6 DEF Expiry, TimeOut, uiVars
<1>7. CASE \/ UNCHANGED updateVars \/ Publish \/ Refuse \/ Staging \/ Checked \/ StageDone
           \/ StageFails \/ Abort \/ Commit \/ CommitDone \/ ActivationFails \/ ActivateGateway
           \/ \E u \in UIs : Ask(u) \/ ReadMessage(u) \/ Connect(u)
  BY <1>2, <1>7 DEF updateVars, Publish, Refuse, Staging, BeginStage, Checked, StageDone,
       StageFails, Abort, Commit, CommitDone, ActivationFails, ActivateGateway, Ask,
       ReadMessage, Connect, Reopen, uiVars, stageVars, coordVars
<1>8. QED
  BY <1>3, <1>4, <1>5, <1>6, <1>7 DEF UpdatesNext, CoordinatorStep, UiStep

\* Tasks and messages that say "commit" come from the decision, and decisions stay.
LEMMA DecisionsStep == CoordInv /\ [UpdatesNext]_updateVars => CommitsDecided'
<1> SUFFICES ASSUME CoordInv, [UpdatesNext]_updateVars PROVE CommitsDecided'
  OBVIOUS
<1>1. CoordTypes /\ CommitsDecided /\ AnswersHold  BY DEF CoordInv
<1>2. CASE /\ decided' = decided /\ (phase' \in {"committing", "activating"} =>
                                       staged' = staged /\ phase \in {"committing", "activating"})
           /\ \A u \in UIs :
                /\ \A t \in tasks'[u] : t.type = "commit" => DecidedFor(u, t.release)
                /\ \A i \in 1..Len(inbox'[u]) :
                       inbox'[u][i].type = "commit" => DecidedFor(u, inbox'[u][i].release)
  BY <1>1, <1>2 DEF CommitsDecided, DecidedFor
<1>3. CASE \/ UNCHANGED updateVars \/ Publish \/ Refuse \/ Staging \/ Checked \/ StageDone
           \/ StageFails \/ CommitDone \/ ActivationFails \/ Expiry
           \/ \E u \in UIs : Ask(u) \/ Connect(u)
  <2>1. UNCHANGED <<decided, tasks, inbox>>
    BY <1>3 DEF updateVars, Publish, Refuse, Staging, BeginStage, Checked, StageDone,
       StageFails, CommitDone, ActivationFails, Ask, Connect, Expiry, TimeOut, Reopen, uiVars,
       stageVars, coordVars
  <2>2. phase' \in {"committing", "activating"} =>
          staged' = staged /\ phase \in {"committing", "activating"}
    BY <1>3 DEF updateVars, Publish, Refuse, Staging, BeginStage, Checked, StageDone,
       StageFails, CommitDone, ActivationFails, Ask, Connect, Expiry, TimeOut, Reopen, uiVars,
       stageVars, coordVars
  <2>3. QED  BY <1>1, <1>2, <2>1, <2>2 DEF CommitsDecided
<1>4. CASE Coordinate \/ Abort
  <2>1. PICK m \in UpdateMessages : Send(chosen, m) /\ m.type # "commit"
    <3>1. Message("abort", NoRelease) \in UpdateMessages /\ Message("abort", NoRelease).type = "abort"
      BY <1>1, UpdateAssumption DEF Message, UpdateMessages, CoordTypes, NoRelease
    <3> DEFINE request == IF forced THEN NoRelease ELSE staged
    <3>2. Message("prepare", request) \in UpdateMessages
          /\ Message("prepare", request).type = "prepare"
      BY <1>1, UpdateAssumption DEF Message, UpdateMessages, CoordTypes, NoRelease
    <3>3. \/ Send(chosen, Message("prepare", request)) \/ Send(chosen, Message("abort", NoRelease))
      BY <1>4 DEF Coordinate, Abort
    <3> HIDE DEF request
    <3>4. QED  BY <3>1, <3>2, <3>3
  <2>2. UNCHANGED <<decided, tasks>> /\ phase' \notin {"committing", "activating"}
    BY <1>4 DEF Coordinate, Abort, Reopen, uiVars
  <2>3. \A u \in UIs : \A i \in 1..Len(inbox'[u]) :
            inbox'[u][i].type = "commit" => DecidedFor(u, inbox'[u][i].release)
    <3>1. \A u \in UIs : \A i \in 1..Len(inbox'[u]) :
                 \/ i \in 1..Len(inbox[u]) /\ inbox'[u][i] = inbox[u][i]
                 \/ inbox'[u][i] = m
      BY <1>1, <2>1, SendReaches, ZenonT(60)
    <3>2. QED  BY <1>1, <2>1, <3>1 DEF CommitsDecided
  <2>4. QED  BY <1>1, <1>2, <2>2, <2>3 DEF CommitsDecided
<1>5. CASE Commit
  <2> DEFINE d == [release |-> staged, uis |-> {p[1] : p \in chosen},
                   ready |-> {u \in UIs : staged \in prepared[u]}]
             m == Message("commit", staged)
  <2>1. d.uis \subseteq d.ready
    <3> SUFFICES ASSUME NEW p \in chosen PROVE p[1] \in UIs /\ staged \in prepared[p[1]]
      OBVIOUS
    <3>1. p[1] \in UIs /\ staged # NoRelease  BY <1>1, <1>5 DEF CoordTypes, Commit
    <3>2. p \in DOMAIN answers /\ answers[p] = staged /\ phase = "preparing"
      BY <1>5 DEF Commit, Ready
    <3>3. QED  BY <1>1, <3>1, <3>2 DEF AnswersHold
  <2>2. m \in UpdateMessages /\ m.release = staged /\ Send(chosen, m)
    BY <1>1, <1>5 DEF Commit, Message, UpdateMessages, CoordTypes
  <2>3. decided' = decided \cup {d} /\ staged' = staged /\ tasks' = tasks /\ d.release = staged
    BY <1>5 DEF Commit, uiVars
  <2>4. \A u \in UIs : <<u, conn[u]>> \in chosen => u \in d.uis
    OBVIOUS
  <2> HIDE DEF d, m
  <2>5. ASSUME NEW u \in UIs, NEW release, DecidedFor(u, release)
        PROVE  \E e \in decided' : e.release = release /\ u \in e.uis
    BY <2>3, <2>5 DEF DecidedFor
  <2>6. \A u \in UIs : <<u, conn[u]>> \in chosen =>
            \E e \in decided' : e.release = staged /\ u \in e.uis
    BY <2>3, <2>4
  <2>7. ASSUME NEW u \in UIs, NEW i \in 1..Len(inbox'[u]), inbox'[u][i].type = "commit"
        PROVE  \E e \in decided' : e.release = inbox'[u][i].release /\ u \in e.uis
    <3>1. \/ i \in 1..Len(inbox[u]) /\ inbox'[u][i] = inbox[u][i]
          \/ inbox'[u][i] = m /\ <<u, conn[u]>> \in chosen
      BY <1>1, <2>2, SendReaches
    <3>2. CASE i \in 1..Len(inbox[u]) /\ inbox'[u][i] = inbox[u][i]
      <4>1. DecidedFor(u, inbox[u][i].release)  BY <1>1, <2>7, <3>2 DEF CommitsDecided
      <4>2. QED  BY <2>5, <3>2, <4>1
    <3>3. QED  BY <2>2, <2>6, <3>1, <3>2
  <2>8. \A e \in decided' : e.uis \subseteq e.ready
    BY <1>1, <2>1, <2>3 DEF CommitsDecided
  <2>9. \E e \in decided' : e.release = staged'  BY <2>3
  <2>10. ASSUME NEW u \in UIs, NEW t \in tasks'[u], t.type = "commit"
         PROVE  \E e \in decided' : e.release = t.release /\ u \in e.uis
    <3>1. DecidedFor(u, t.release)  BY <1>1, <2>3, <2>10 DEF CommitsDecided
    <3>2. QED  BY <2>5, <3>1
  <2>11. QED  BY <2>7, <2>8, <2>9, <2>10 DEF CommitsDecided, DecidedFor
<1>6. CASE ActivateGateway
  BY <1>1, <1>6 DEF CommitsDecided, CoordTypes, ActivateGateway, Reopen
<1>7. CASE \E u \in UIs : UiStep(u) \/ Break(u)
  <2> SUFFICES ASSUME NEW u \in UIs, UiStep(u) \/ Break(u) PROVE CommitsDecided'
    BY <1>7
  <2>1. /\ \A t \in tasks[u] : t \in UpdateTasks /\ (t.type = "commit" => DecidedFor(u, t.release))
        /\ inbox[u] \in Seq(UpdateMessages) /\ inbox \in [UIs -> Seq(UpdateMessages)]
        /\ tasks \in [UIs -> SUBSET UpdateTasks]
    BY <1>1 DEF CommitsDecided, CoordTypes
  <2>2. CASE ReadMessage(u)
    <3> DEFINE m == Head(inbox[u])
    <3>1. m \in UpdateMessages /\ m = inbox[u][1] /\ 1 \in 1..Len(inbox[u])
      BY <2>1, <2>2 DEF ReadMessage
    <3>2. m.type = "commit" => DecidedFor(u, m.release)  BY <1>1, <3>1 DEF CommitsDecided
    <3>3. \A v \in UIs : \A t \in tasks'[v] :
              t \in tasks[v] \/ (v = u /\ t.type = m.type /\ t.release = m.release)
      BY <2>1, <2>2 DEF ReadMessage
    <3>4. \A i \in 1..Len(inbox'[u]) : i + 1 \in 1..Len(inbox[u]) /\ inbox'[u][i] = inbox[u][i + 1]
      BY <2>1, <2>2 DEF ReadMessage
    <3>5. \A v \in UIs : v # u => inbox'[v] = inbox[v]  BY <2>2 DEF ReadMessage
    <3>6. UNCHANGED <<decided, staged, phase>>  BY <2>2 DEF ReadMessage, coordVars
    <3> HIDE DEF m
    <3>7. \A v \in UIs : \A i \in 1..Len(inbox'[v]) :
              inbox'[v][i].type = "commit" => DecidedFor(v, inbox'[v][i].release)
      <4> SUFFICES ASSUME NEW v \in UIs, NEW i \in 1..Len(inbox'[v]), inbox'[v][i].type = "commit"
                   PROVE  DecidedFor(v, inbox'[v][i].release)
        OBVIOUS
      <4>1. CASE v = u
        <5>1. i + 1 \in 1..Len(inbox[u]) /\ inbox'[u][i] = inbox[u][i + 1]  BY <3>4, <4>1
        <5>2. inbox[u][i + 1].type = "commit" => DecidedFor(u, inbox[u][i + 1].release)
          BY <1>1, <5>1 DEF CommitsDecided
        <5>3. QED  BY <4>1, <5>1, <5>2
      <4>2. CASE v # u
        <5>1. inbox'[v] = inbox[v]  BY <3>5, <4>2
        <5>2. QED  BY <1>1, <5>1 DEF CommitsDecided
      <4>3. QED  BY <4>1, <4>2
    <3>8. \A v \in UIs : \A t \in tasks'[v] : t.type = "commit" => DecidedFor(v, t.release)
      BY <1>1, <3>2, <3>3 DEF CommitsDecided
    <3>9. QED  BY <1>2, <3>6, <3>7, <3>8
  <2>3. CASE RestartUi(u) \/ Break(u)
    <3>1. /\ decided' = decided /\ staged' = staged /\ \A v \in UIs : tasks'[v] \subseteq tasks[v]
          /\ \A v \in UIs : inbox'[v] = inbox[v] \/ inbox'[v] = <<>>
      BY <2>1, <2>3 DEF RestartUi, Break, Leave
    <3>2. phase' \in {"committing", "activating"} => phase \in {"committing", "activating"}
      BY <2>3 DEF RestartUi, Break, Leave, Reopen
    <3>3. \A v \in UIs : \A i \in 1..Len(inbox'[v]) :
              inbox'[v][i].type = "commit" => DecidedFor(v, inbox'[v][i].release)
      BY <1>1, <3>1 DEF CommitsDecided
    <3>4. \A v \in UIs : \A t \in tasks'[v] : t.type = "commit" => DecidedFor(v, t.release)
      BY <1>1, <3>1 DEF CommitsDecided
    <3>5. QED  BY <1>2, <3>1, <3>2, <3>3, <3>4
  <2>4. ASSUME NEW t \in tasks[u], TaskStep(u, t) PROVE CommitsDecided'
    <3>1. UNCHANGED <<decided, staged, phase, inbox>>
      BY <2>4 DEF TaskStep, FinishPrepare, FailTask, Activate, AcknowledgeCommit, coordVars
    <3>2. \A v \in UIs : \A x \in tasks'[v] :
              x \in tasks[v] \/ (v = u /\ x.type = "restart")
                \/ (v = u /\ x.type = t.type /\ x.release = t.release)
      <4>1. t \in UpdateTasks  BY <2>1
      <4>2. [t EXCEPT !.type = "restart"].type = "restart"
            /\ [t EXCEPT !.begun = TRUE].type = t.type /\ [t EXCEPT !.begun = TRUE].release = t.release
        BY <4>1 DEF UpdateTasks
      <4>3. CASE FinishPrepare(u, t) \/ FailTask(u, t)
        BY <2>1, <4>3 DEF FinishPrepare, FailTask, EndTask
      <4>4. CASE Activate(u, t)  BY <2>1, <4>2, <4>4 DEF Activate
      <4>5. CASE AcknowledgeCommit(u, t)  BY <2>1, <4>2, <4>5 DEF AcknowledgeCommit
      <4>6. QED  BY <2>4, <4>3, <4>4, <4>5 DEF TaskStep
    <3>3. \A v \in UIs : \A x \in tasks'[v] : x.type = "commit" => DecidedFor(v, x.release)
      BY <1>1, <2>1, <3>2 DEF CommitsDecided
    <3>4. QED  BY <1>1, <1>2, <3>1, <3>3 DEF CommitsDecided
  <2>5. QED  BY <2>2, <2>3, <2>4 DEF UiStep
<1>8. QED
  BY <1>3, <1>4, <1>5, <1>6, <1>7 DEF UpdatesNext, CoordinatorStep

\* For any number of UIs, releases and transactions: no host and no Gateway switches to a
\* release that not every participant has staged (gateway.py _coordinate_update).
THEOREM UpdatesActivateTogether == UpdatesSpec => ActivatedTogether
<1> DEFINE Together ==
      /\ \A u \in UIs : installed'[u] # installed[u] =>
            \E d \in decided : d.release = installed'[u] /\ u \in d.uis /\ d.uis \subseteq d.ready
      /\ gwBuild' # gwBuild => \E d \in decided : d.release = gwBuild' /\ d.uis \subseteq d.ready
<1>1. CoordInv /\ [UpdatesNext]_updateVars => [Together]_updateVars
  <2> SUFFICES ASSUME CoordInv, UpdatesNext PROVE Together
    OBVIOUS
  <2>1. CASE \E u \in UIs : \E t \in tasks[u] : Activate(u, t)
    <3>1. PICK u \in UIs : \E t \in tasks[u] : Activate(u, t)  BY <2>1
    <3>2. PICK t \in tasks[u] : Activate(u, t)  BY <3>1
    <3>3. /\ gwBuild' = gwBuild /\ installed' = [installed EXCEPT ![u] = t.release]
          /\ installed \in [UIs -> 0..MaxRelease] /\ DecidedFor(u, t.release)
      BY <3>2 DEF Activate, CoordInv, CoordTypes, CommitsDecided
    <3>4. QED  BY <3>3 DEF DecidedFor, CoordInv, CommitsDecided
  <2>2. CASE ActivateGateway
    BY <2>2 DEF ActivateGateway, CoordInv, CommitsDecided
  <2>3. CASE UNCHANGED <<installed, gwBuild>>  BY <2>3
  <2>4. QED
    BY <2>1, <2>2, <2>3, ZenonT(60) DEF UpdatesNext, CoordinatorStep, UiStep, TaskStep, Publish, Refuse,
         Staging, BeginStage, Checked, StageDone, StageFails, Coordinate, Abort, Commit,
         CommitDone, ActivationFails, Expiry, TimeOut, Ask, ReadMessage, RestartUi, Break,
         Connect, FinishPrepare, FailTask, AcknowledgeCommit, uiVars
<1>2. CoordInv /\ [UpdatesNext]_updateVars => CoordInv'
  BY CoordTypesStep, AnswersStep, DecisionsStep DEF CoordInv
<1>3. QED  BY <1>1, <1>2, CoordInit, PTL DEF UpdatesSpec, ActivatedTogether

-----------------------------------------------------------------------------
(* Pastes and images, line by line: PacedTransfers.                        *)

TransferLine == [transfer : Nat, line : Nat, expected : Nat]
WrittenLine == [transfer : Nat, line : Nat, generation : Nat]
WorldStates == [online : BOOLEAN, generation : Nat]
Pacing == [step : {"none", "starting", "waiting", "sleeping"}, transfer : Nat, line : Nat,
           generation : Nat]
Previews == [phase : {"none", "reading", "shown"}, transfer : Nat, generation : Nat,
             error : BOOLEAN, rendering : BOOLEAN]

TransferCounts == [transfers : Nat, typed : Nat, changes : Nat, losses : Nat]

TransferTypes ==
    /\ world \in WorldStates /\ shown \in WorldStates /\ news \in Seq(WorldStates)
    /\ requests \in Seq(TransferLine) /\ sessionQueue \in Seq(TransferLine)
    /\ sent \in Seq(WrittenLine)
    /\ answer \in {"none", "ok", "refused"} /\ slot \in BOOLEAN
    /\ paced \in Pacing /\ preview \in Previews
    /\ counts \in TransferCounts

\* Generations that the UI knows of have been, and the line of a transfer expects one.
GenerationsPast ==
    /\ shown.generation \in 1..world.generation
    /\ \A k \in 1..Len(news) : news[k].generation \in 1..world.generation
    /\ paced.step # "none" => paced.generation \in 1..world.generation
    /\ preview.phase # "none" => preview.generation \in 1..world.generation
    /\ \A k \in 1..Len(requests) :
           requests[k].transfer # 0 => requests[k].expected \in 1..world.generation
    /\ \A k \in 1..Len(sessionQueue) :
           sessionQueue[k].transfer # 0 => sessionQueue[k].expected \in 1..world.generation

\* No line of transfer t is on its way or written.
Unsent(t) == /\ \A k \in 1..Len(sent) : sent[k].transfer # t
             /\ \A k \in 1..Len(sessionQueue) : sessionQueue[k].transfer # t

\* The numbers of transfers are used once, and the world is reserved for the one that is paced.
NumbersFresh ==
    /\ \A k \in 1..Len(sent) : sent[k].transfer <= counts.transfers
    /\ \A k \in 1..Len(sessionQueue) : sessionQueue[k].transfer <= counts.transfers
    /\ paced.step = "none" => paced = NoTask
    /\ paced.step # "none" => paced.transfer \in 1..counts.transfers
    /\ slot = (paced.step # "none")
    /\ paced.step = "starting" => Unsent(paced.transfer)
    /\ preview.phase # "none" => /\ preview.transfer \in 1..counts.transfers
                                 /\ preview.transfer # paced.transfer
                                 /\ Unsent(preview.transfer)

\* What was written last is the line before line l of transfer t, or that line and what
\* follows it can no longer be written.
Written(t, l, g) ==
    \/ world.generation > g
    \/ /\ sent # <<>>
       /\ sent[Len(sent)] = [transfer |-> t, line |-> l - 1, generation |-> g]

\* The same of what was accepted last.
Continues(t, l, g) ==
    IF sessionQueue = <<>> THEN Written(t, l, g)
    ELSE sessionQueue[Len(sessionQueue)] = [transfer |-> t, line |-> l - 1, expected |-> g]

SentInOrder ==
    \A k \in 1..Len(sent) : sent[k].transfer # 0 =>
         /\ sent[k].line > 1 => k > 1 /\ sent[k - 1] = [sent[k] EXCEPT !.line = @ - 1]
         /\ sent[k].line = 1 => \A j \in 1..(k - 1) : sent[j].transfer # sent[k].transfer

QueuedInOrder ==
    \A k \in 1..Len(sessionQueue) : LET r == sessionQueue[k] IN
        r.transfer # 0 =>
            /\ r.line > 1 => IF k = 1 THEN Written(r.transfer, r.line, r.expected)
                             ELSE sessionQueue[k - 1] = [r EXCEPT !.line = @ - 1]
            /\ r.line = 1 => /\ \A j \in 1..Len(sent) : sent[j].transfer # r.transfer
                             /\ \A j \in 1..(k - 1) : sessionQueue[j].transfer # r.transfer

\* The line that is waited for is the last request, and alone unless it is the first line.
RequestsInOrder ==
    \A k \in 1..Len(requests) : LET r == requests[k] IN
        r.transfer # 0 =>
            /\ k = Len(requests) /\ paced.step = "waiting" /\ answer = "none"
            /\ r = Line(paced.transfer, paced.line, paced.generation)
            /\ r.line > 1 => k = 1 /\ Continues(r.transfer, r.line, r.expected)
            /\ r.line = 1 => Unsent(r.transfer)

PacedInOrder ==
    /\ paced.step \in {"waiting", "sleeping"} => paced.line > 0
    /\ paced.step = "sleeping" \/ (paced.step = "waiting" /\ answer = "ok") =>
         requests = <<>> /\ Continues(paced.transfer, paced.line + 1, paced.generation)

TransferInv ==
    /\ TransferTypes /\ GenerationsPast /\ NumbersFresh
    /\ SentInOrder /\ QueuedInOrder /\ RequestsInOrder /\ PacedInOrder

LEMMA TransferTypesStep == TransferTypes /\ [TransfersNext]_transferVars => TransferTypes'
<1> SUFFICES ASSUME TransferTypes, [TransfersNext]_transferVars PROVE TransferTypes'
  OBVIOUS
<1>a. /\ counts \in TransferCounts /\ paced \in Pacing /\ preview \in Previews
      /\ world \in WorldStates /\ shown \in WorldStates
  BY DEF TransferTypes
<1>b. /\ [counts EXCEPT !.changes = @ + 1] \in TransferCounts
      /\ [counts EXCEPT !.losses = @ + 1] \in TransferCounts
      /\ [counts EXCEPT !.typed = @ + 1] \in TransferCounts
      /\ [counts EXCEPT !.transfers = @ + 1] \in TransferCounts /\ counts.transfers \in Nat
  BY <1>a DEF TransferCounts
<1>c. NoTask \in Pacing /\ NoPreview \in Previews
  BY DEF NoTask, Pacing, NoPreview, Previews
<1>d. shown.generation \in Nat /\ world.generation \in Nat  BY <1>a DEF WorldStates
<1>e. world.generation + 1 \in Nat /\ counts.transfers + 1 \in Nat  BY <1>b, <1>d
<1>1. CASE UNCHANGED transferVars  BY <1>1 DEF TransferTypes, transferVars
<1>2. CASE WorldChanges
  <2>1. world' \in WorldStates
    <3>1. [world EXCEPT !.online = FALSE] \in WorldStates  BY <1>a DEF WorldStates
    <3>2. [online |-> TRUE, generation |-> world.generation + 1] \in WorldStates
      BY <1>e DEF WorldStates
    <3>3. QED  BY <1>2, <3>1, <3>2 DEF WorldChanges
  <2>2. counts' \in TransferCounts
    BY <1>2, <1>b DEF WorldChanges
  <2>3. QED  BY <1>2, <2>1, <2>2 DEF TransferTypes, WorldChanges
<1>3. CASE HandleCommand
  <2>1. answer' \in {"none", "ok", "refused"}  BY <1>3 DEF TransferTypes, HandleCommand
  <2>2. sessionQueue' \in Seq(TransferLine)  BY <1>3 DEF TransferTypes, HandleCommand
  <2>3. QED  BY <1>3, <2>1, <2>2 DEF TransferTypes, HandleCommand
<1>4. CASE WriteLine
  <2>1. Head(sessionQueue) \in TransferLine  BY <1>4 DEF TransferTypes, WriteLine
  <2>2. [transfer |-> Head(sessionQueue).transfer, line |-> Head(sessionQueue).line,
         generation |-> world.generation] \in WrittenLine
    BY <2>1 DEF TransferTypes, TransferLine, WrittenLine, WorldStates
  <2>3. QED  BY <1>4, <2>2 DEF TransferTypes, WriteLine
<1>5. CASE ReadNews  BY <1>5 DEF TransferTypes, ReadNews
<1>6. CASE LoseGateway
  <2>1. counts' \in TransferCounts  BY <1>6, <1>b DEF LoseGateway
  <2>2. paced' \in Pacing /\ slot' \in BOOLEAN
    BY <1>6, <1>c DEF TransferTypes, LoseGateway
  <2>3. /\ UNCHANGED <<world, sessionQueue, sent, preview>>
        /\ requests' = <<>> /\ answer' = "none" /\ news' = <<>> /\ shown' = world
    BY <1>6 DEF LoseGateway
  <2>4. requests' \in Seq(TransferLine) /\ news' \in Seq(WorldStates)  BY <2>3
  <2>5. QED  BY <2>1, <2>2, <2>3, <2>4 DEF TransferTypes
<1>7. CASE TypeLine
  <2>1. Line(0, 0, 0) \in TransferLine  BY DEF Line, TransferLine
  <2>2. counts' \in TransferCounts
    BY <1>7, <1>b DEF TypeLine
  <2>3. QED  BY <1>7, <2>1, <2>2 DEF TransferTypes, TypeLine, gatewayVars, previewVars
<1>8. ASSUME NEW task \in Pacing, NEW i \in Nat, NEW g \in Nat, SendLine(task, i, g)
      PROVE  /\ requests' \in Seq(TransferLine) /\ answer' \in {"none", "ok", "refused"}
             /\ paced' \in Pacing /\ slot' \in BOOLEAN
  <2>1. Line(task.transfer, i, g) \in TransferLine /\ [task EXCEPT !.step = "waiting", !.line = i] \in Pacing
    BY DEF Line, TransferLine, Pacing
  <2>2. QED  BY <1>8, <2>1 DEF TransferTypes, SendLine
<1>9. StopTransfer => /\ requests' \in Seq(TransferLine) /\ answer' \in {"none", "ok", "refused"}
                      /\ paced' \in Pacing /\ slot' \in BOOLEAN
  BY <1>c DEF TransferTypes, StopTransfer
<1>10. CASE Paste
  <2> DEFINE task == [step |-> "starting", transfer |-> counts.transfers + 1, line |-> 0,
                      generation |-> shown.generation]
  <2>1. task \in Pacing /\ shown.generation \in Nat  BY <1>d, <1>e DEF Pacing
  <2>2. counts' \in TransferCounts
    BY <1>10, <1>b DEF Paste
  <2>3. SendLine(task, 1, shown.generation) /\ UNCHANGED <<gatewayVars, previewVars>>
    BY <1>10 DEF Paste
  <2> HIDE DEF task
  <2>4. QED  BY <1>8, <2>1, <2>2, <2>3 DEF TransferTypes, gatewayVars, previewVars
<1>11. CASE StartImage \/ LineDue
  <2>1. paced \in Pacing /\ paced.generation \in Nat /\ paced.line + 1 \in Nat
    BY DEF TransferTypes, Pacing
  <2>2. /\ StopTransfer \/ SendLine(paced, 1, paced.generation)
                        \/ SendLine(paced, paced.line + 1, paced.generation)
        /\ UNCHANGED <<gatewayVars, previewVars, counts>>
    BY <1>11 DEF StartImage, LineDue
  <2>3. QED  BY <1>8, <1>9, <2>1, <2>2 DEF TransferTypes, gatewayVars, previewVars
<1>12. CASE TakeLineAnswer
  <2>1. paced' \in Pacing
    <3>1. [paced EXCEPT !.step = "sleeping"] \in Pacing  BY <1>a DEF Pacing
    <3>2. QED  BY <1>12, <1>c, <3>1 DEF TakeLineAnswer
  <2>2. QED  BY <1>12, <2>1 DEF TransferTypes, TakeLineAnswer, gatewayVars, previewVars
<1>13. CASE OpenImage
  <2>1. preview' \in Previews
    <3>1. [NoPreview EXCEPT !.phase = "reading", !.transfer = counts.transfers + 1,
                             !.generation = shown.generation] \in Previews
      BY <1>c, <1>d, <1>e DEF Previews
    <3>2. QED  BY <1>13, <3>1 DEF OpenImage, SetPreview
  <2>2. counts' \in TransferCounts
    BY <1>13, <1>b DEF OpenImage
  <2>3. QED  BY <1>13, <2>1, <2>2 DEF TransferTypes, OpenImage, SetPreview, gatewayVars
<1>14. CASE ImageRead \/ Rerender \/ Rerendered \/ CancelImage
  <2>1. preview' \in Previews
    <3>1. /\ [preview EXCEPT !.phase = "shown"] \in Previews
          /\ [preview EXCEPT !.rendering = TRUE] \in Previews
          /\ \A error \in BOOLEAN : [preview EXCEPT !.rendering = FALSE, !.error = error] \in Previews
      BY <1>a DEF Previews
    <3>2. QED
      BY <1>14, <1>c, <3>1 DEF ImageRead, Rerender, Rerendered, CancelImage, SetPreview
  <2>2. QED
    BY <1>14, <2>1 DEF TransferTypes, ImageRead, Rerender, Rerendered, CancelImage, SetPreview,
       gatewayVars
<1>15. CASE ConfirmImage
  <2>1. preview' \in Previews
    <3>1. [preview EXCEPT !.error = TRUE] \in Previews  BY <1>a DEF Previews
    <3>2. QED  BY <1>15, <1>c, <3>1 DEF ConfirmImage, SetPreview
  <2>2. paced' \in Pacing
    BY <1>15 DEF TransferTypes, ConfirmImage, Pacing, Previews
  <2>3. slot' \in BOOLEAN  BY <1>15 DEF TransferTypes, ConfirmImage
  <2>4. QED
    BY <1>15, <2>1, <2>2, <2>3 DEF TransferTypes, ConfirmImage, SetPreview, gatewayVars
<1>16. QED
  BY <1>1, <1>2, <1>3, <1>4, <1>5, <1>6, <1>7, <1>10, <1>11, <1>12, <1>13, <1>14, <1>15
     DEF TransfersNext

LEMMA GenerationsStep ==
  TransferInv /\ [TransfersNext]_transferVars => GenerationsPast'
<1> SUFFICES ASSUME TransferInv, [TransfersNext]_transferVars PROVE GenerationsPast'
  OBVIOUS
<1>1. TransferTypes /\ GenerationsPast /\ NumbersFresh  BY DEF TransferInv
<1>2. /\ world.generation \in Nat /\ requests \in Seq(TransferLine) /\ news \in Seq(WorldStates)
      /\ sessionQueue \in Seq(TransferLine) /\ sent \in Seq(WrittenLine)
      /\ world \in WorldStates /\ paced \in Pacing /\ preview \in Previews
  BY <1>1 DEF TransferTypes, WorldStates
<1>3. CASE UNCHANGED transferVars  BY <1>1, <1>3 DEF GenerationsPast, transferVars
<1>4. CASE WorldChanges
  <2>1. /\ world'.generation \in {world.generation, world.generation + 1}
        /\ news' = Append(news, world')
    BY <1>2, <1>4 DEF WorldChanges, WorldStates
  <2>2. UNCHANGED <<shown, requests, sessionQueue, paced, preview>>  BY <1>4 DEF WorldChanges
  <2>3. \A g : g \in 1..world.generation => g \in 1..(world'.generation)  BY <1>2, <2>1
  <2>4. world'.generation \in 1..(world'.generation)
    BY <1>1, <1>2, <2>1 DEF GenerationsPast
  <2>5. \A k \in 1..Len(news') : news'[k].generation \in 1..(world'.generation)
    <3>1. \A k \in 1..Len(news') : news'[k] = IF k = Len(news) + 1 THEN world' ELSE news[k]
      BY <1>2, <2>1
    <3>2. \A k \in 1..Len(news') : k # Len(news) + 1 => k \in 1..Len(news)
      BY <1>2, <2>1
    <3>3. QED  BY <1>1, <2>3, <2>4, <3>1, <3>2 DEF GenerationsPast
  <2>6. QED  BY <1>1, <2>2, <2>3, <2>5 DEF GenerationsPast
<1>5. CASE HandleCommand
  <2>1. /\ \A k \in 1..Len(requests') :
             k + 1 \in 1..Len(requests) /\ requests'[k] = requests[k + 1]
        /\ 1 \in 1..Len(requests) /\ Head(requests) = requests[1]
    BY <1>2, <1>5 DEF HandleCommand
  <2>2. UNCHANGED <<world, news, shown, paced, preview>>  BY <1>5 DEF HandleCommand
  <2>3. sessionQueue' = sessionQueue \/ sessionQueue' = Append(sessionQueue, requests[1])
    BY <2>1, <1>5 DEF HandleCommand
  <2>4. \A k \in 1..Len(sessionQueue') :
            \/ k \in 1..Len(sessionQueue) /\ sessionQueue'[k] = sessionQueue[k]
            \/ sessionQueue'[k] = requests[1]
    BY <1>2, <2>3
  <2>5. QED  BY <1>1, <2>1, <2>2, <2>4 DEF GenerationsPast
<1>6. CASE WriteLine
  <2>1. \A k \in 1..Len(sessionQueue') :
             k + 1 \in 1..Len(sessionQueue) /\ sessionQueue'[k] = sessionQueue[k + 1]
    BY <1>2, <1>6 DEF WriteLine
  <2>2. UNCHANGED <<world, news, shown, requests, paced, preview>>  BY <1>6 DEF WriteLine
  <2>3. QED  BY <1>1, <2>1, <2>2 DEF GenerationsPast
<1>7. CASE ReadNews
  <2>1. /\ \A k \in 1..Len(news') : k + 1 \in 1..Len(news) /\ news'[k] = news[k + 1]
        /\ 1 \in 1..Len(news) /\ shown' = news[1]
    BY <1>2, <1>7 DEF ReadNews
  <2>2. UNCHANGED <<world, requests, sessionQueue, paced, preview>>  BY <1>7 DEF ReadNews
  <2>3. QED  BY <1>1, <2>1, <2>2 DEF GenerationsPast
<1>8. CASE LoseGateway
  <2>1. /\ requests' = <<>> /\ news' = <<>> /\ shown' = world /\ paced' \in {paced, NoTask}
        /\ UNCHANGED <<world, sessionQueue, preview>>
    BY <1>8 DEF LoseGateway
  <2>2. world.generation \in 1..world.generation
    BY <1>1, <1>2 DEF GenerationsPast
  <2>3. NoTask.step = "none"  BY DEF NoTask
  <2>4. QED  BY <1>1, <2>1, <2>2, <2>3 DEF GenerationsPast
<1>9. CASE TypeLine
  <2>1. requests' = Append(requests, Line(0, 0, 0)) /\ Line(0, 0, 0).transfer = 0
    BY <1>9 DEF TypeLine, Line
  <2>2. UNCHANGED <<world, news, shown, sessionQueue, paced, preview>>
    BY <1>9 DEF TypeLine, gatewayVars, previewVars
  <2>3. \A k \in 1..Len(requests') :
            \/ k \in 1..Len(requests) /\ requests'[k] = requests[k]
            \/ requests'[k] = Line(0, 0, 0)
    BY <1>2, <2>1
  <2>4. QED  BY <1>1, <2>1, <2>2, <2>3 DEF GenerationsPast
<1>10. ASSUME NEW task, NEW i, SendLine(task, i, task.generation), task \in Pacing,
              task.generation \in 1..world.generation,
              UNCHANGED <<world, news, shown, sessionQueue, preview>>
       PROVE  GenerationsPast'
  <2> DEFINE r == Line(task.transfer, i, task.generation)
  <2>1. requests' = Append(requests, r) /\ r.expected = task.generation
    BY <1>10 DEF SendLine, Line
  <2>2. paced'.generation = task.generation  BY <1>10 DEF SendLine, Pacing
  <2> HIDE DEF r
  <2>3. \A k \in 1..Len(requests') :
            \/ k \in 1..Len(requests) /\ requests'[k] = requests[k]
            \/ requests'[k] = r
    BY <1>2, <2>1
  <2>4. QED  BY <1>1, <1>10, <2>1, <2>2, <2>3 DEF GenerationsPast
<1>11. ASSUME StopTransfer, UNCHANGED <<world, news, shown, sessionQueue, preview>>
       PROVE  GenerationsPast'
  <2>1. paced'.step = "none" /\ requests' = requests  BY <1>11 DEF StopTransfer, NoTask
  <2>2. QED  BY <1>1, <1>11, <2>1 DEF GenerationsPast
<1>12. CASE Paste
  <2> DEFINE task == [step |-> "starting", transfer |-> counts.transfers + 1, line |-> 0,
                      generation |-> shown.generation]
  <2>1. task \in Pacing /\ task.generation \in 1..world.generation
        /\ task.generation = shown.generation
    BY <1>1 DEF TransferTypes, TransferCounts, GenerationsPast, Pacing, WorldStates
  <2>2. SendLine(task, 1, shown.generation) /\ UNCHANGED <<gatewayVars, previewVars>>
    BY <1>12 DEF Paste
  <2> HIDE DEF task
  <2>3. QED  BY <1>10, <2>1, <2>2 DEF gatewayVars, previewVars
<1>13. CASE StartImage \/ LineDue
  <2>1. paced.generation \in 1..world.generation
    BY <1>1, <1>13 DEF GenerationsPast, StartImage, LineDue
  <2>2. /\ StopTransfer \/ SendLine(paced, 1, paced.generation)
                        \/ SendLine(paced, paced.line + 1, paced.generation)
        /\ UNCHANGED <<gatewayVars, previewVars, counts>>
    BY <1>13 DEF StartImage, LineDue
  <2>3. QED  BY <1>2, <1>10, <1>11, <2>1, <2>2 DEF gatewayVars, previewVars
<1>14. CASE TakeLineAnswer
  <2>1. paced' = [paced EXCEPT !.step = "sleeping"] \/ paced' = NoTask
    BY <1>14 DEF TakeLineAnswer
  <2>2. paced'.step = "none" \/ (paced'.generation = paced.generation /\ paced.step # "none")
    BY <1>2, <1>14, <2>1 DEF TakeLineAnswer, Pacing, NoTask
  <2>3. UNCHANGED <<world, news, shown, requests, sessionQueue, preview>>
    BY <1>14 DEF TakeLineAnswer, gatewayVars, previewVars
  <2>4. QED  BY <1>1, <2>2, <2>3 DEF GenerationsPast
<1>15. CASE OpenImage \/ ImageRead \/ Rerender \/ Rerendered \/ CancelImage
  <2>1. UNCHANGED <<world, news, shown, requests, sessionQueue, paced>>
    BY <1>15 DEF OpenImage, ImageRead, Rerender, Rerendered, CancelImage, SetPreview,
       gatewayVars
  <2>2. \/ preview'.phase = "none" \/ preview'.generation = shown.generation
        \/ preview'.generation = preview.generation /\ preview.phase # "none"
    <3>1. CASE OpenImage
      <4>1. preview' = [NoPreview EXCEPT !.phase = "reading", !.transfer = counts.transfers + 1,
                                         !.generation = shown.generation]
        BY <3>1 DEF OpenImage, SetPreview
      <4>2. QED  BY <4>1 DEF NoPreview
    <3>2. CASE ImageRead \/ CancelImage
      BY <1>2, <3>2 DEF ImageRead, CancelImage, SetPreview, NoPreview, Previews
    <3>3. CASE Rerender \/ Rerendered
      <4>1. preview'.phase = preview.phase /\ preview'.generation = preview.generation
        BY <1>2, <3>3 DEF Rerender, Rerendered, SetPreview, Previews
      <4>2. QED  BY <4>1
    <3>4. QED  BY <1>15, <3>1, <3>2, <3>3
  <2>3. QED  BY <1>1, <2>1, <2>2 DEF GenerationsPast
<1>16. CASE ConfirmImage
  <2>1. UNCHANGED <<world, news, shown, requests, sessionQueue>> /\ preview.phase = "shown"
    BY <1>16 DEF ConfirmImage, SetPreview, gatewayVars
  <2>2. \/ preview' = [preview EXCEPT !.error = TRUE] /\ paced' = paced
        \/ preview' = NoPreview /\ paced'.generation = preview.generation
    BY <1>16 DEF ConfirmImage, SetPreview
  <2>3. \/ preview'.generation = preview.generation /\ paced' = paced
        \/ preview'.phase = "none" /\ paced'.generation = preview.generation
    BY <1>2, <2>2 DEF NoPreview, Previews
  <2>4. QED  BY <1>1, <2>1, <2>3 DEF GenerationsPast
<1>17. QED
  BY <1>3, <1>4, <1>5, <1>6, <1>7, <1>8, <1>9, <1>12, <1>13, <1>14, <1>15, <1>16
     DEF TransfersNext

LEMMA NumbersStep ==
  TransferInv /\ [TransfersNext]_transferVars => NumbersFresh'
<1> SUFFICES ASSUME TransferInv, [TransfersNext]_transferVars PROVE NumbersFresh'
  OBVIOUS
<1>1. TransferTypes /\ NumbersFresh /\ RequestsInOrder  BY DEF TransferInv
<1>2. /\ requests \in Seq(TransferLine) /\ sessionQueue \in Seq(TransferLine)
      /\ sent \in Seq(WrittenLine) /\ paced \in Pacing /\ preview \in Previews
      /\ counts \in TransferCounts
  BY <1>1 DEF TransferTypes
<1>3. counts.transfers \in Nat /\ paced.transfer \in Nat /\ preview.transfer \in Nat
  BY <1>2 DEF TransferCounts, Pacing, Previews
<1>s. /\ \A k \in 1..Len(sent) : sent[k] \in WrittenLine
      /\ \A k \in 1..Len(sessionQueue) : sessionQueue[k] \in TransferLine
  BY <1>2
<1>n. /\ \A k \in 1..Len(sent) : sent[k].transfer \in Nat
      /\ \A k \in 1..Len(sessionQueue) : sessionQueue[k].transfer \in Nat
  BY <1>s DEF WrittenLine, TransferLine
<1>4. NoTask.step = "none" /\ NoTask.transfer = 0 /\ NoPreview.phase = "none"
  BY DEF NoTask, NoPreview
\* What changes neither the numbers nor what they stand for.
<1>5. ASSUME UNCHANGED <<sent, sessionQueue, slot>>, counts'.transfers = counts.transfers,
             \/ paced' = paced /\ preview' = preview
             \/ /\ paced' = paced /\ preview'.transfer = preview.transfer
                /\ preview.phase # "none"
             \/ paced' = paced /\ preview'.phase = "none"
             \/ /\ paced'.step = paced.step /\ paced'.transfer = paced.transfer
                /\ paced.step # "none" /\ preview' = preview
             \/ /\ paced'.step # "none" /\ paced'.step # "starting" /\ paced.step # "none"
                /\ paced'.transfer = paced.transfer /\ preview' = preview
      PROVE  NumbersFresh'
  BY <1>1, <1>5 DEF NumbersFresh, Unsent
<1>6. ASSUME UNCHANGED <<sent, sessionQueue, preview>>, counts'.transfers = counts.transfers,
             paced' = NoTask, slot' = FALSE
      PROVE  NumbersFresh'
  <2>1. paced'.step = "none" /\ paced'.transfer = 0  BY <1>4, <1>6
  <2>2. slot' = (paced'.step # "none")  BY <1>6, <2>1
  <2>3. Unsent(preview.transfer)' <=> Unsent(preview.transfer)  BY <1>6 DEF Unsent
  <2>4. QED  BY <1>1, <1>3, <1>6, <2>1, <2>2, <2>3 DEF NumbersFresh
<1>7. CASE UNCHANGED transferVars  BY <1>5, <1>7 DEF transferVars
<1>8. CASE WorldChanges \/ ReadNews \/ TypeLine
  <2>1. counts'.transfers = counts.transfers
    BY <1>2, <1>8 DEF WorldChanges, ReadNews, TypeLine, TransferCounts
  <2>2. UNCHANGED <<sent, sessionQueue, slot, paced, preview>>
    BY <1>8 DEF WorldChanges, ReadNews, TypeLine, gatewayVars, previewVars
  <2>3. QED  BY <1>5, <2>1, <2>2
<1>9. CASE LoseGateway
  <2>1. counts'.transfers = counts.transfers
    BY <1>2, <1>9 DEF LoseGateway, TransferCounts
  <2>2. /\ UNCHANGED <<sent, sessionQueue, preview>>
        /\ (paced' = NoTask /\ slot' = FALSE) \/ UNCHANGED <<paced, slot>>
    BY <1>9 DEF LoseGateway
  <2>3. QED  BY <1>5, <1>6, <2>1, <2>2
\* The line of the transfer that is paced, or one that was typed, moves on.
<1>10. CASE HandleCommand \/ WriteLine
  <2>1. PICK r \in TransferLine :
           /\ r.transfer # preview.transfer \/ r.transfer = 0 \/ preview.phase = "none"
           /\ r.transfer <= counts.transfers
           /\ paced.step = "starting" => r.transfer # paced.transfer
           /\ \A k \in 1..Len(sent') :
                \/ k \in 1..Len(sent) /\ sent'[k] = sent[k]
                \/ sent'[k].transfer = r.transfer
           /\ \A k \in 1..Len(sessionQueue') :
                \/ \E j \in 1..Len(sessionQueue) : sessionQueue'[k] = sessionQueue[j]
                \/ sessionQueue'[k] = r
    <3>1. CASE HandleCommand
      <4> DEFINE r == Head(requests)
      <4>1. r \in TransferLine /\ r = requests[1] /\ 1 \in 1..Len(requests)
        BY <1>2, <3>1 DEF HandleCommand
      <4>2. r.transfer # 0 => paced.step = "waiting" /\ r.transfer = paced.transfer
        BY <1>1, <4>1 DEF RequestsInOrder, Line
      <4>3. r.transfer <= counts.transfers
        BY <1>1, <1>3, <4>1, <4>2 DEF NumbersFresh, TransferLine
      <4>4. sent' = sent
            /\ (sessionQueue' = sessionQueue \/ sessionQueue' = Append(sessionQueue, r))
        BY <3>1 DEF HandleCommand
      <4> HIDE DEF r
      <4>5. \A k \in 1..Len(sessionQueue') :
                \/ \E j \in 1..Len(sessionQueue) : sessionQueue'[k] = sessionQueue[j]
                \/ sessionQueue'[k] = r
        BY <1>2, <4>1, <4>4
      <4>6. paced.step = "starting" => r.transfer # paced.transfer
        BY <1>1, <1>3, <4>2 DEF NumbersFresh
      <4>7. r.transfer # preview.transfer \/ r.transfer = 0 \/ preview.phase = "none"
        BY <1>1, <4>2 DEF NumbersFresh
      <4>8. QED  BY <4>1, <4>3, <4>4, <4>5, <4>6, <4>7
    <3>2. CASE WriteLine
      <4> DEFINE r == Head(sessionQueue)
      <4>1. r \in TransferLine /\ r = sessionQueue[1] /\ 1 \in 1..Len(sessionQueue)
        BY <1>2, <3>2 DEF WriteLine
      <4>2. \A k \in 1..Len(sessionQueue') :
                k + 1 \in 1..Len(sessionQueue) /\ sessionQueue'[k] = sessionQueue[k + 1]
        BY <1>2, <3>2 DEF WriteLine
      <4>3. /\ r.transfer <= counts.transfers
            /\ r.transfer # preview.transfer \/ preview.phase = "none"
            /\ paced.step = "starting" => r.transfer # paced.transfer
        BY <1>1, <4>1 DEF NumbersFresh, Unsent
      <4>4. \A k \in 1..Len(sent') :
                \/ k \in 1..Len(sent) /\ sent'[k] = sent[k]
                \/ sent'[k].transfer = r.transfer
        <5> DEFINE w == [transfer |-> r.transfer, line |-> r.line,
                         generation |-> world.generation]
        <5>1. w.transfer = r.transfer /\ (sent' = sent \/ sent' = Append(sent, w))
          BY <3>2 DEF WriteLine
        <5>3. w \in WrittenLine
          BY <1>1, <4>1 DEF TransferTypes, WorldStates, TransferLine, WrittenLine
        <5> HIDE DEF r, w
        <5>2. QED  BY <1>2, <5>1, <5>3
      <4>5. QED  BY <4>1, <4>2, <4>3, <4>4
    <3>3. QED  BY <1>10, <3>1, <3>2
  <2>2. UNCHANGED <<slot, paced, preview, counts>>  BY <1>10 DEF HandleCommand, WriteLine
  <2>3. preview.phase # "none" => r.transfer # preview.transfer
    BY <1>1, <1>3, <2>1 DEF NumbersFresh
  <2>4. /\ \A k \in 1..Len(sent') : sent'[k].transfer <= counts.transfers
        /\ \A k \in 1..Len(sessionQueue') : sessionQueue'[k].transfer <= counts.transfers
    BY <1>1, <2>1 DEF NumbersFresh
  <2>5. paced.step = "starting" => Unsent(paced.transfer)'
    BY <1>1, <2>1, <2>2 DEF NumbersFresh, Unsent
  <2>6. preview.phase # "none" => Unsent(preview.transfer)'
    BY <1>1, <2>1, <2>2, <2>3 DEF NumbersFresh, Unsent
  <2>7. QED  BY <1>1, <2>2, <2>4, <2>5, <2>6 DEF NumbersFresh
<1>11. CASE Paste
  <2>1. /\ counts'.transfers = counts.transfers + 1 /\ ~slot
        /\ paced'.step = "waiting" /\ paced'.transfer = counts.transfers + 1 /\ slot' = TRUE
        /\ UNCHANGED <<sent, sessionQueue, preview>>
    BY <1>2, <1>11 DEF Paste, SendLine, TransferCounts, gatewayVars, previewVars
  <2>2. Unsent(preview.transfer)' <=> Unsent(preview.transfer)  BY <2>1 DEF Unsent
  <2>3. slot' = (paced'.step # "none")  BY <2>1
  <2>6. paced.step = "none"
    <3>1. slot = (paced.step # "none")  BY <1>1 DEF NumbersFresh
    <3>2. QED  BY <2>1, <3>1
  <2>7. preview.phase # "none" => preview.transfer # paced'.transfer
    BY <1>1, <1>3, <2>1 DEF NumbersFresh
  <2>4. paced'.transfer \in 1..(counts'.transfers)  BY <1>3, <2>1
  <2>5. QED  BY <1>1, <1>3, <1>n, <2>1, <2>2, <2>3, <2>4, <2>6, <2>7 DEF NumbersFresh
<1>12. CASE StartImage \/ LineDue
  <2>1. UNCHANGED <<sent, sessionQueue, preview, counts>> /\ paced.step # "none"
    BY <1>12 DEF StartImage, LineDue, gatewayVars, previewVars
  <2>2. StopTransfer \/ \E i : SendLine(paced, i, paced.generation)
    BY <1>12 DEF StartImage, LineDue
  <2>3. CASE StopTransfer  BY <1>6, <2>1, <2>3 DEF StopTransfer
  <2>4. CASE \E i : SendLine(paced, i, paced.generation)
    <3>1. paced'.step = "waiting" /\ paced'.transfer = paced.transfer /\ slot' = TRUE /\ slot = TRUE
      BY <1>1, <1>2, <2>1, <2>4 DEF SendLine, Pacing, NumbersFresh
    <3>2. QED  BY <1>5, <2>1, <3>1
  <2>5. QED  BY <2>2, <2>3, <2>4
<1>13. CASE TakeLineAnswer
  <2>1. UNCHANGED <<sent, sessionQueue, preview, counts>>
    BY <1>13 DEF TakeLineAnswer, gatewayVars, previewVars
  <2>2. CASE paced' = NoTask /\ slot' = FALSE  BY <1>6, <2>1, <2>2
  <2>3. CASE paced' = [paced EXCEPT !.step = "sleeping"] /\ UNCHANGED slot
    <3>1. paced'.step = "sleeping" /\ paced'.transfer = paced.transfer /\ paced.step = "waiting"
      BY <1>2, <1>13, <2>3 DEF TakeLineAnswer, Pacing
    <3>2. QED  BY <1>5, <2>1, <2>3, <3>1
  <2>4. QED  BY <1>13, <2>2, <2>3 DEF TakeLineAnswer
<1>14. CASE OpenImage
  <2>1. /\ counts'.transfers = counts.transfers + 1
        /\ UNCHANGED <<sent, sessionQueue, slot, paced>>
    BY <1>2, <1>14 DEF OpenImage, SetPreview, TransferCounts, gatewayVars
  <2>2. preview'.transfer = counts.transfers + 1
    BY <1>14 DEF OpenImage, SetPreview, NoPreview
  <2>5. paced.transfer <= counts.transfers
    BY <1>1, <1>3, <1>4 DEF NumbersFresh
  <2>6. QED  BY <1>1, <1>3, <1>n, <2>1, <2>2, <2>5 DEF NumbersFresh, Unsent
<1>15. CASE ImageRead \/ Rerender \/ Rerendered \/ CancelImage
  <2>1. UNCHANGED <<sent, sessionQueue, slot, paced, counts>>
    BY <1>15 DEF ImageRead, Rerender, Rerendered, CancelImage, SetPreview, gatewayVars
  <2>2. CASE preview' = NoPreview  BY <1>4, <1>5, <2>1, <2>2
  <2>3. CASE preview' # NoPreview
    <3>1. preview'.transfer = preview.transfer
      BY <1>2, <1>15, <2>3 DEF ImageRead, Rerender, Rerendered, CancelImage, SetPreview, Previews
    <3>2. preview'.phase = preview.phase \/ preview.phase # "none"
      BY <1>2, <1>15, <2>3 DEF ImageRead, Rerender, Rerendered, CancelImage, SetPreview, Previews
    <3>3. QED  BY <1>1, <2>1, <3>1, <3>2 DEF NumbersFresh, Unsent
  <2>4. QED  BY <2>2, <2>3
<1>16. CASE ConfirmImage
  <2>1. UNCHANGED <<sent, sessionQueue, counts>> /\ preview.phase = "shown"
    BY <1>16 DEF ConfirmImage, SetPreview, gatewayVars
  <2>2. CASE preview' = [preview EXCEPT !.error = TRUE] /\ UNCHANGED <<slot, paced>>
    <3>1. preview'.transfer = preview.transfer  BY <1>2, <2>2 DEF Previews
    <3>2. QED  BY <1>5, <2>1, <2>2, <3>1
  <2>3. CASE /\ preview' = NoPreview /\ slot' = TRUE
             /\ paced' = [step |-> "starting", transfer |-> preview.transfer, line |-> 0,
                          generation |-> preview.generation]
    <3>1. paced'.step = "starting" /\ paced'.transfer = preview.transfer  BY <2>3
    <3>2. QED  BY <1>1, <1>4, <2>1, <2>3, <3>1 DEF NumbersFresh, Unsent
  <2>4. QED  BY <1>16, <2>2, <2>3 DEF ConfirmImage, SetPreview
<1>17. QED
  BY <1>7, <1>8, <1>9, <1>10, <1>11, <1>12, <1>13, <1>14, <1>15, <1>16 DEF TransfersNext

\* As long as the session and the world see nothing new, the order of their lines stays; the
\* generation may grow.
LEMMA QuietOrder ==
  ASSUME TransferInv, UNCHANGED <<sent, sessionQueue>>,
         world'.generation \in Nat, world'.generation >= world.generation
  PROVE  /\ SentInOrder' /\ QueuedInOrder'
         /\ \A t, l : \A g \in Nat : Continues(t, l, g) => Continues(t, l, g)'
         /\ \A t : Unsent(t) => Unsent(t)'
<1>1. /\ SentInOrder /\ QueuedInOrder /\ world.generation \in Nat
      /\ \A k \in 1..Len(sessionQueue) : sessionQueue[k] \in TransferLine
  BY DEF TransferInv, TransferTypes, WorldStates
<1>2. \A t, l : \A g \in Nat : Written(t, l, g) => Written(t, l, g)'
  BY <1>1 DEF Written
<1>3. \A t, l : \A g \in Nat : Continues(t, l, g) => Continues(t, l, g)'
  BY <1>2 DEF Continues
<1>4. SentInOrder'  BY <1>1 DEF SentInOrder
<1>5. QueuedInOrder'
  <2> SUFFICES ASSUME NEW k \in 1..Len(sessionQueue), sessionQueue[k].transfer # 0
               PROVE  LET r == sessionQueue[k] IN
            /\ r.line > 1 => IF k = 1 THEN Written(r.transfer, r.line, r.expected)'
                             ELSE sessionQueue[k - 1] = [r EXCEPT !.line = @ - 1]
            /\ r.line = 1 => /\ \A j \in 1..Len(sent) : sent[j].transfer # r.transfer
                             /\ \A j \in 1..(k - 1) : sessionQueue[j].transfer # r.transfer
    BY DEF QueuedInOrder, Written
  <2>1. sessionQueue[k].expected \in Nat  BY <1>1 DEF TransferLine
  <2>2. QED  BY <1>1, <1>2, <2>1 DEF QueuedInOrder
<1>6. QED  BY <1>3, <1>4, <1>5 DEF Unsent

LEMMA OthersKeepOrder ==
  ASSUME TransferInv, TransferTypes', [TransfersNext]_transferVars, ~HandleCommand, ~WriteLine
  PROVE  SentInOrder' /\ QueuedInOrder' /\ RequestsInOrder' /\ PacedInOrder'
<1>1. /\ TransferTypes /\ NumbersFresh /\ RequestsInOrder /\ PacedInOrder
      /\ requests \in Seq(TransferLine) /\ paced \in Pacing /\ world \in WorldStates
      /\ paced.generation \in Nat /\ world.generation \in Nat /\ paced.line \in Nat
  BY DEF TransferInv, TransferTypes, Pacing, WorldStates
<1>2. UNCHANGED <<sent, sessionQueue>>
  BY DEF TransfersNext, transferVars, WorldChanges, ReadNews, LoseGateway, TypeLine, Paste, StartImage,
       TakeLineAnswer, LineDue, OpenImage, ImageRead, Rerender, Rerendered, CancelImage,
       ConfirmImage, SetPreview, gatewayVars
<1>3. world'.generation \in Nat /\ world'.generation >= world.generation
  <2>1. CASE WorldChanges
    <3>1. world'.generation \in {world.generation, world.generation + 1}
      BY <1>1, <2>1 DEF WorldChanges, WorldStates
    <3>2. QED  BY <1>1, <3>1
  <2>2. CASE ~WorldChanges
    <3>1. world' = world
      BY <2>2 DEF TransfersNext, transferVars, ReadNews, LoseGateway, TypeLine, Paste, StartImage,
         TakeLineAnswer, LineDue, OpenImage, ImageRead, Rerender, Rerendered, CancelImage,
         ConfirmImage, SetPreview, gatewayVars
    <3>2. QED  BY <1>1, <3>1
  <2>3. QED  BY <2>1, <2>2
<1>4. /\ SentInOrder' /\ QueuedInOrder'
      /\ \A t, l : \A g \in Nat : Continues(t, l, g) => Continues(t, l, g)'
      /\ \A t : Unsent(t) => Unsent(t)'
  BY <1>2, <1>3, QuietOrder
<1>5. \A k \in 1..Len(requests) : requests[k] \in TransferLine /\ requests[k].expected \in Nat
  <2>1. \A k \in 1..Len(requests) : requests[k] \in TransferLine  BY <1>1
  <2>2. QED  BY <2>1 DEF TransferLine
<1>6. ASSUME UNCHANGED <<paced, answer>>, requests' = requests \/ requests' = <<>>
      PROVE  RequestsInOrder' /\ PacedInOrder'
  BY <1>1, <1>4, <1>5, <1>6 DEF RequestsInOrder, PacedInOrder
\* A line of a transfer is on its way only while it is waited for.
<1>7. paced.step # "waiting" \/ answer # "none" =>
        \A k \in 1..Len(requests) : requests[k].transfer = 0
  BY <1>1 DEF RequestsInOrder
<1>8. ASSUME UNCHANGED requests, \A k \in 1..Len(requests) : requests[k].transfer = 0,
             paced'.step \notin {"waiting", "sleeping"}
      PROVE  RequestsInOrder' /\ PacedInOrder'
  BY <1>8 DEF RequestsInOrder, PacedInOrder
<1>9. ASSUME NEW task \in Pacing, NEW i \in Nat, task.generation \in Nat,
             SendLine(task, i, task.generation),
             \A k \in 1..Len(requests) : requests[k].transfer = 0,
             \/ i = 1 /\ Unsent(task.transfer)
             \/ requests = <<>> /\ i > 1 /\ Continues(task.transfer, i, task.generation)
      PROVE  RequestsInOrder' /\ PacedInOrder'
  <2> DEFINE r == Line(task.transfer, i, task.generation)
  <2>1. /\ requests' = Append(requests, r) /\ answer' = "none"
        /\ paced'.step = "waiting" /\ paced'.line = i /\ paced'.transfer = task.transfer
        /\ paced'.generation = task.generation
    BY <1>9 DEF SendLine, Pacing
  <2>2. r \in TransferLine /\ r.transfer = task.transfer /\ r.line = i
        /\ r.expected = task.generation
    BY <1>9 DEF Line, TransferLine, Pacing
  <2>3. r = Line(paced'.transfer, paced'.line, paced'.generation)  BY <2>1
  <2> HIDE DEF r
  <2>4. ASSUME NEW k \in 1..Len(requests'), requests'[k].transfer # 0
        PROVE  k = Len(requests') /\ requests'[k] = r /\ (requests = <<>> => k = 1)
    BY <1>1, <1>9, <2>1, <2>2, <2>4
  <2>5. i > 1 => requests = <<>> /\ Continues(task.transfer, i, task.generation)'
    BY <1>4, <1>9
  <2>6. i = 1 => Unsent(task.transfer)'
    BY <1>4, <1>9
  <2>7. RequestsInOrder'
    BY <2>1, <2>2, <2>3, <2>4, <2>5, <2>6 DEF RequestsInOrder
  <2>8. PacedInOrder'  BY <1>9, <2>1 DEF PacedInOrder
  <2>9. QED  BY <2>7, <2>8
<1>10. CASE UNCHANGED transferVars \/ WorldChanges \/ ReadNews \/ OpenImage \/ ImageRead
            \/ Rerender \/ Rerendered \/ CancelImage
  <2>1. UNCHANGED <<paced, answer, requests>>
    BY <1>10 DEF transferVars, WorldChanges, ReadNews, OpenImage, ImageRead, Rerender, Rerendered,
         CancelImage, SetPreview
  <2>2. QED  BY <1>4, <1>6, <2>1
<1>11. CASE LoseGateway
  <2>1. requests' = <<>> /\ (paced' = NoTask \/ (paced' = paced /\ paced.step # "waiting"))
    BY <1>11 DEF LoseGateway
  <2>2. NoTask.step = "none"  BY DEF NoTask
  <2>3. RequestsInOrder'  BY <2>1 DEF RequestsInOrder
  <2>4. PacedInOrder'  BY <1>1, <1>4, <2>1, <2>2 DEF PacedInOrder
  <2>5. QED  BY <1>4, <2>3, <2>4
<1>12. CASE TypeLine
  <2>1. /\ requests' = Append(requests, Line(0, 0, 0)) /\ Line(0, 0, 0).transfer = 0
        /\ UNCHANGED <<paced, answer>> /\ ~slot
    BY <1>12 DEF TypeLine, Line
  <2>2. paced.step = "none"
    <3>1. slot = (paced.step # "none")  BY <1>1 DEF NumbersFresh
    <3>2. QED  BY <2>1, <3>1
  <2>3. Line(0, 0, 0) \in TransferLine  BY DEF Line, TransferLine
  <2>4. \A k \in 1..Len(requests') : requests'[k].transfer = 0
    BY <1>1, <1>7, <2>1, <2>2, <2>3
  <2>5. QED  BY <1>4, <2>1, <2>2, <2>4 DEF RequestsInOrder, PacedInOrder
<1>13. CASE Paste
  <2> DEFINE task == [step |-> "starting", transfer |-> counts.transfers + 1, line |-> 0,
                      generation |-> shown.generation]
  <2>1. counts.transfers \in Nat /\ shown.generation \in Nat
    BY <1>1 DEF TransferTypes, TransferCounts, WorldStates
  <2>2. /\ task \in Pacing /\ task.transfer = counts.transfers + 1
        /\ task.generation = shown.generation /\ task.generation \in Nat
    BY <2>1 DEF Pacing
  <2>3. SendLine(task, 1, shown.generation) /\ ~slot
    BY <1>13 DEF Paste
  <2>4. paced.step = "none"
    <3>1. slot = (paced.step # "none")  BY <1>1 DEF NumbersFresh
    <3>2. QED  BY <2>3, <3>1
  <2>5. Unsent(task.transfer)
    <3>1. \A k \in 1..Len(sent) : sent[k] \in WrittenLine  BY <1>1 DEF TransferTypes
    <3>2. \A k \in 1..Len(sessionQueue) : sessionQueue[k] \in TransferLine
      BY <1>1 DEF TransferTypes
    <3>3. /\ \A k \in 1..Len(sent) : sent[k].transfer \in Nat
          /\ \A k \in 1..Len(sessionQueue) : sessionQueue[k].transfer \in Nat
      BY <3>1, <3>2 DEF WrittenLine, TransferLine
    <3>4. QED  BY <1>1, <2>1, <2>2, <3>3 DEF NumbersFresh, Unsent
  <2> HIDE DEF task
  <2>6. QED  BY <1>4, <1>7, <1>9, <2>2, <2>3, <2>4, <2>5
<1>14. CASE StopTransfer /\ (StartImage \/ LineDue)
  <2>1. paced.step # "waiting"  BY <1>14 DEF StartImage, LineDue
  <2>2. paced'.step = "none" /\ requests' = requests  BY <1>14 DEF StopTransfer, NoTask
  <2>3. QED  BY <1>4, <1>7, <1>8, <2>1, <2>2
<1>15. CASE StartImage /\ ~StopTransfer
  <2>1. paced.step = "starting" /\ SendLine(paced, 1, paced.generation)
    BY <1>15 DEF StartImage
  <2>2. Unsent(paced.transfer)  BY <1>1, <2>1 DEF NumbersFresh
  <2>3. QED  BY <1>1, <1>4, <1>7, <1>9, <2>1, <2>2
<1>16. CASE LineDue /\ ~StopTransfer
  <2>1. paced.step = "sleeping" /\ SendLine(paced, paced.line + 1, paced.generation)
    BY <1>16 DEF LineDue
  <2>2. requests = <<>> /\ Continues(paced.transfer, paced.line + 1, paced.generation)
    BY <1>1, <2>1 DEF PacedInOrder
  <2>3. paced.line + 1 > 1
    BY <1>1, <2>1 DEF PacedInOrder
  <2>4. QED  BY <1>1, <1>4, <1>7, <1>9, <2>1, <2>2, <2>3
<1>17. CASE TakeLineAnswer
  <2>1. /\ paced.step = "waiting" /\ answer # "none" /\ answer' = "none" /\ requests' = requests
        /\ paced' = NoTask \/ (answer = "ok" /\ paced' = [paced EXCEPT !.step = "sleeping"])
    BY <1>17 DEF TakeLineAnswer
  <2>2. CASE paced' = NoTask
    <3>1. paced'.step = "none"  BY <2>2 DEF NoTask
    <3>2. QED  BY <1>4, <1>7, <1>8, <2>1, <3>1
  <2>3. CASE answer = "ok" /\ paced' = [paced EXCEPT !.step = "sleeping"]
    <3>1. /\ paced'.step = "sleeping" /\ paced'.transfer = paced.transfer
          /\ paced'.line = paced.line /\ paced'.generation = paced.generation
      BY <1>1, <2>3 DEF Pacing
    <3>2. requests = <<>> /\ Continues(paced.transfer, paced.line + 1, paced.generation)
      BY <1>1, <2>1, <2>3 DEF PacedInOrder
    <3>3. Continues(paced.transfer, paced.line + 1, paced.generation)'
      BY <1>1, <1>4, <3>1, <3>2
    <3>4. RequestsInOrder'  BY <1>7, <2>1 DEF RequestsInOrder
    <3>5. paced'.line > 0  BY <1>1, <2>1, <3>1 DEF PacedInOrder
    <3>6. PacedInOrder'  BY <2>1, <3>1, <3>2, <3>3, <3>5 DEF PacedInOrder
    <3>7. QED  BY <1>4, <3>4, <3>6
  <2>4. QED  BY <2>1, <2>2, <2>3
<1>18. CASE ConfirmImage
  <2>1. UNCHANGED <<requests, answer>>  BY <1>18 DEF ConfirmImage, SetPreview
  <2>2. CASE UNCHANGED paced  BY <1>4, <1>6, <2>1, <2>2
  <2>3. CASE ~slot /\ paced'.step = "starting"
    <3>1. paced.step = "none"
      <4>1. slot = (paced.step # "none")  BY <1>1 DEF NumbersFresh
      <4>2. QED  BY <2>3, <4>1
    <3>2. QED  BY <1>4, <1>7, <1>8, <2>1, <2>3, <3>1
  <2>4. QED  BY <1>18, <2>2, <2>3 DEF ConfirmImage, SetPreview
<1>19. QED
  BY <1>10, <1>11, <1>12, <1>13, <1>14, <1>15, <1>16, <1>17, <1>18 DEF TransfersNext, StartImage, LineDue

\* The session takes a line or refuses it.
LEMMA HandleKeepsOrder ==
  ASSUME TransferInv, HandleCommand
  PROVE  SentInOrder' /\ QueuedInOrder' /\ RequestsInOrder' /\ PacedInOrder'
<1> DEFINE r == Head(requests)
<1>1. /\ SentInOrder /\ QueuedInOrder /\ RequestsInOrder /\ PacedInOrder /\ GenerationsPast
      /\ requests \in Seq(TransferLine) /\ sessionQueue \in Seq(TransferLine)
      /\ sent \in Seq(WrittenLine) /\ world.generation \in Nat /\ paced \in Pacing
  BY DEF TransferInv, TransferTypes, WorldStates
<1>2. /\ r = requests[1] /\ r \in TransferLine /\ 1 \in 1..Len(requests) /\ requests # <<>>
      /\ requests' = Tail(requests)
  BY <1>1 DEF HandleCommand
<1>3. /\ UNCHANGED <<world, sent, paced>>
      /\ \/ sessionQueue' = sessionQueue
         \/ sessionQueue' = Append(sessionQueue, r) /\ r.expected \in {0, world.generation}
      /\ r.transfer = 0 => answer' = answer
      /\ r.transfer # 0 => \/ answer' = "ok" /\ sessionQueue' = Append(sessionQueue, r)
                           \/ answer' = "refused" /\ sessionQueue' = sessionQueue
  <2> DEFINE expected == r.expected \in {0, world.generation}
  <2>1. PICK accepted \in {expected, FALSE} :
             /\ sessionQueue' = IF accepted THEN Append(sessionQueue, r) ELSE sessionQueue
             /\ answer' = IF r.transfer = 0 THEN answer
                          ELSE IF accepted THEN "ok" ELSE "refused"
    BY DEF HandleCommand
  <2>2. UNCHANGED <<world, sent, paced>>  BY DEF HandleCommand
  <2>3. CASE accepted /\ expected
    <3>1. sessionQueue' = Append(sessionQueue, r)  BY <2>1, <2>3
    <3>2. r.transfer = 0 => answer' = answer  BY <2>1
    <3>3. r.transfer # 0 => answer' = "ok"  BY <2>1, <2>3
    <3>4. QED  BY <2>2, <2>3, <3>1, <3>2, <3>3
  <2>4. CASE ~accepted  BY <2>1, <2>2, <2>4
  <2>5. QED  BY <2>1, <2>3, <2>4
<1>4. r.transfer # 0 =>
        /\ Len(requests) = 1 /\ paced.step = "waiting" /\ answer = "none"
        /\ r = Line(paced.transfer, paced.line, paced.generation)
        /\ r.line > 1 => Continues(r.transfer, r.line, r.expected)
        /\ r.line = 1 => Unsent(r.transfer)
  BY <1>1, <1>2 DEF RequestsInOrder
<1>5. \A k \in 1..Len(requests') : k + 1 \in 1..Len(requests) /\ requests'[k] = requests[k + 1]
  BY <1>1, <1>2
<1> HIDE DEF r
<1>6. SentInOrder'  BY <1>1, <1>3 DEF SentInOrder
<1>7. QueuedInOrder'
  <2>1. CASE sessionQueue' = sessionQueue
    BY <1>1, <1>3, <2>1 DEF QueuedInOrder, Written
  <2>2. CASE sessionQueue' = Append(sessionQueue, r)
    <3> DEFINE n == Len(sessionQueue) + 1
    <3>1. /\ Len(sessionQueue') = n /\ sessionQueue'[n] = r
          /\ \A k \in 1..(n - 1) : sessionQueue'[k] = sessionQueue[k]
          /\ n \in Nat /\ n >= 1 /\ Len(sessionQueue) = n - 1
      BY <1>1, <1>2, <2>2
    <3>2. r.transfer # 0 /\ r.line > 1 =>
            IF n = 1 THEN Written(r.transfer, r.line, r.expected)
            ELSE sessionQueue[n - 1] = [transfer |-> r.transfer, line |-> r.line - 1,
                                        expected |-> r.expected]
      BY <1>1, <1>4, <3>1 DEF Continues
    <3>3. [r EXCEPT !.line = @ - 1] = [transfer |-> r.transfer, line |-> r.line - 1,
                                       expected |-> r.expected]
      BY <1>2 DEF TransferLine
    <3>4. r.transfer # 0 /\ r.line = 1 => Unsent(r.transfer)  BY <1>4
    <3> HIDE DEF n
    <3> SUFFICES ASSUME NEW k \in 1..n, NEW q, q = sessionQueue'[k], q.transfer # 0
                 PROVE  /\ q.line > 1 => IF k = 1 THEN \/ world.generation > q.expected
                                                      \/ /\ sent # <<>>
                                                         /\ sent[Len(sent)] =
                                                              [transfer |-> q.transfer,
                                                               line |-> q.line - 1,
                                                               generation |-> q.expected]
                                         ELSE sessionQueue'[k - 1] = [q EXCEPT !.line = @ - 1]
                        /\ q.line = 1 =>
                              /\ \A j \in 1..Len(sent) : sent[j].transfer # q.transfer
                              /\ \A j \in 1..(k - 1) : sessionQueue'[j].transfer # q.transfer
      BY <1>3, <3>1 DEF QueuedInOrder, Written
    <3>6. CASE k = n
      <4>1. q = r  BY <3>1, <3>6
      <4>2. q.line > 1 => IF k = 1 THEN \/ world.generation > q.expected
                                        \/ /\ sent # <<>>
                                           /\ sent[Len(sent)] = [transfer |-> q.transfer,
                                                                 line |-> q.line - 1,
                                                                 generation |-> q.expected]
                          ELSE sessionQueue'[k - 1] = [q EXCEPT !.line = @ - 1]
        <5>1. CASE k = 1  BY <3>2, <3>6, <4>1, <5>1 DEF Written
        <5>2. CASE k # 1
          <6>1. k - 1 \in 1..(n - 1)  BY <3>1, <3>6, <5>2
          <6>2. QED  BY <3>1, <3>2, <3>3, <3>6, <4>1, <5>2, <6>1
        <5>3. QED  BY <5>1, <5>2
      <4>3. q.line = 1 => /\ \A j \in 1..Len(sent) : sent[j].transfer # q.transfer
                          /\ \A j \in 1..(k - 1) : sessionQueue'[j].transfer # q.transfer
        BY <3>1, <3>4, <3>6, <4>1 DEF Unsent
      <4>4. QED  BY <4>2, <4>3
    <3>7. CASE k # n
      <4>1. k \in 1..(n - 1) /\ q = sessionQueue[k]  BY <3>1, <3>7
      <4>2. \A j \in 1..(k - 1) : sessionQueue'[j] = sessionQueue[j]  BY <3>1, <4>1
      <4>3. k > 1 => sessionQueue'[k - 1] = sessionQueue[k - 1]  BY <3>1, <4>1
      <4>4. QED  BY <1>1, <3>1, <4>1, <4>2, <4>3 DEF QueuedInOrder, Written
    <3>8. QED  BY <3>6, <3>7
  <2>3. QED  BY <1>3, <2>1, <2>2
<1>8. RequestsInOrder'
  <2> SUFFICES ASSUME NEW k \in 1..Len(requests'), NEW q, q = requests'[k], q.transfer # 0
               PROVE  /\ k = Len(requests') /\ paced.step = "waiting" /\ answer' = "none"
                      /\ q = Line(paced.transfer, paced.line, paced.generation)
                      /\ q.line > 1 => FALSE
                      /\ q.line = 1 => Unsent(q.transfer)'
    BY <1>3 DEF RequestsInOrder
  <2>1. k + 1 \in 1..Len(requests) /\ q = requests[k + 1] /\ k + 1 # 1
    BY <1>5
  <2>2. /\ k + 1 = Len(requests) /\ paced.step = "waiting" /\ answer = "none"
        /\ q = Line(paced.transfer, paced.line, paced.generation)
        /\ ~(q.line > 1) /\ (q.line = 1 => Unsent(q.transfer))
    BY <1>1, <2>1 DEF RequestsInOrder
  <2>3. r.transfer = 0
    <3>1. SUFFICES ASSUME r.transfer # 0 PROVE FALSE
      OBVIOUS
    <3>2. 1 = Len(requests)  BY <1>1, <1>2, <3>1 DEF RequestsInOrder
    <3>3. QED  BY <2>1, <2>2, <3>2
  <2>4. k = Len(requests')
    BY <1>1, <1>2, <2>2
  <2>5. q.line = 1 => Unsent(q.transfer)'
    <3>1. \A j \in 1..Len(sessionQueue') :
              \/ j \in 1..Len(sessionQueue) /\ sessionQueue'[j] = sessionQueue[j]
              \/ sessionQueue'[j] = r
      <4>1. CASE sessionQueue' = sessionQueue  BY <4>1
      <4>2. CASE sessionQueue' = Append(sessionQueue, r)  BY <1>1, <1>2, <4>2
      <4>3. QED  BY <1>3, <4>1, <4>2
    <3>2. r.transfer # q.transfer  BY <2>3
    <3>3. QED  BY <1>3, <2>2, <3>1, <3>2 DEF Unsent
  <2>6. QED  BY <1>3, <2>2, <2>3, <2>4, <2>5
<1>9. PacedInOrder'
  <2>1. paced'.step \in {"waiting", "sleeping"} => paced'.line > 0
    BY <1>1, <1>3 DEF PacedInOrder
  <2> SUFFICES ASSUME paced.step = "sleeping" \/ (paced.step = "waiting" /\ answer' = "ok")
               PROVE  requests' = <<>> /\
                        Continues(paced.transfer, paced.line + 1, paced.generation)'
    BY <1>3, <2>1 DEF PacedInOrder
  <2>2. r.transfer # 0 /\ answer' = "ok"
    BY <1>1, <1>2, <1>3, <1>4 DEF PacedInOrder
  <2>3. Len(requests) = 1 /\ r = Line(paced.transfer, paced.line, paced.generation)
        /\ sessionQueue' = Append(sessionQueue, r)
    BY <1>3, <1>4, <2>2
  <2>4. requests' = <<>>  BY <1>1, <1>2, <2>3
  <2>5. /\ sessionQueue' # <<>> /\ sessionQueue'[Len(sessionQueue')] = r
    BY <1>1, <1>2, <2>3
  <2>6. r = [transfer |-> paced.transfer, line |-> (paced.line + 1) - 1,
             expected |-> paced.generation]
    BY <1>1, <2>3 DEF Line, Pacing
  <2>7. QED  BY <1>3, <2>4, <2>5, <2>6 DEF Continues
<1>10. QED  BY <1>6, <1>7, <1>8, <1>9

\* The session writes a line, or drops it because its connection is over.
LEMMA WriteKeepsOrder ==
  ASSUME TransferInv, WriteLine
  PROVE  SentInOrder' /\ QueuedInOrder' /\ RequestsInOrder' /\ PacedInOrder'
<1> DEFINE r == Head(sessionQueue)
           w == [transfer |-> r.transfer, line |-> r.line, generation |-> world.generation]
<1>1. /\ SentInOrder /\ QueuedInOrder /\ RequestsInOrder /\ PacedInOrder /\ GenerationsPast
      /\ sessionQueue \in Seq(TransferLine) /\ sent \in Seq(WrittenLine)
      /\ world.generation \in Nat /\ requests \in Seq(TransferLine) /\ paced \in Pacing
  BY DEF TransferInv, TransferTypes, WorldStates
<1>2. /\ r = sessionQueue[1] /\ r \in TransferLine /\ 1 \in 1..Len(sessionQueue)
      /\ sessionQueue' = Tail(sessionQueue) /\ sessionQueue # <<>>
  BY <1>1 DEF WriteLine
<1>3. /\ UNCHANGED <<world, requests, answer, paced>>
      /\ sent' = IF r.expected \in {0, world.generation} THEN Append(sent, w) ELSE sent
  BY DEF WriteLine
<1>4. /\ \A k \in 1..Len(sessionQueue') :
             k + 1 \in 1..Len(sessionQueue) /\ sessionQueue'[k] = sessionQueue[k + 1]
      /\ Len(sessionQueue') = Len(sessionQueue) - 1
      /\ \A k \in 1..Len(sessionQueue) : sessionQueue[k] \in TransferLine
  BY <1>1, <1>2
<1>5. /\ w.transfer = r.transfer /\ w.line = r.line /\ w.generation = world.generation
      /\ w \in WrittenLine
  BY <1>1, <1>2 DEF TransferLine, WrittenLine
<1>6. r.transfer # 0 => r.expected \in 1..world.generation
  BY <1>1, <1>2 DEF GenerationsPast
<1> DEFINE Emitted == sent' = Append(sent, w) /\ (r.transfer # 0 => r.expected = world.generation)
           Dropped == sent' = sent /\ (r.transfer # 0 => world.generation > r.expected)
<1>7. Emitted \/ Dropped
  BY <1>1, <1>3, <1>6
<1> HIDE DEF r, w
<1>8. \A k \in 1..Len(sent') : \/ k \in 1..Len(sent) /\ sent'[k] = sent[k]
                               \/ k = Len(sent) + 1 /\ sent'[k] = w /\ Emitted
  <2>1. CASE Emitted  BY <1>1, <1>5, <2>1
  <2>2. CASE Dropped  BY <2>2
  <2>3. QED  BY <1>7, <2>1, <2>2
<1>9. ASSUME NEW t, NEW l, NEW g, t # 0,
             r = [transfer |-> t, line |-> l - 1, expected |-> g]
      PROVE  Written(t, l, g)'
  <2>1. r.transfer = t /\ r.line = l - 1 /\ r.expected = g  BY <1>9
  <2>2. CASE Emitted
    <3>1. w = [transfer |-> t, line |-> l - 1, generation |-> g]
      BY <1>5, <1>9, <2>1, <2>2 DEF WrittenLine
    <3>2. sent' # <<>> /\ sent'[Len(sent')] = w  BY <1>1, <1>5, <2>2
    <3>3. QED  BY <3>1, <3>2 DEF Written
  <2>3. CASE Dropped
    <3>1. world'.generation > g  BY <1>3, <1>9, <2>1, <2>3
    <3>2. QED  BY <3>1 DEF Written
  <2>4. QED  BY <1>7, <2>2, <2>3
<1>10. ASSUME NEW t, NEW l, NEW g, t # 0, Continues(t, l, g)
       PROVE  Continues(t, l, g)'
  <2>1. sessionQueue[Len(sessionQueue)] = [transfer |-> t, line |-> l - 1, expected |-> g]
    BY <1>2, <1>10 DEF Continues
  <2>2. CASE Len(sessionQueue) = 1
    <3>1. sessionQueue' = <<>>  BY <1>1, <1>2, <2>2
    <3>2. r = [transfer |-> t, line |-> l - 1, expected |-> g]  BY <1>2, <2>1, <2>2
    <3>3. Written(t, l, g)'  BY <1>9, <1>10, <3>2
    <3>4. QED  BY <3>1, <3>3 DEF Continues
  <2>3. CASE Len(sessionQueue) # 1
    <3>1. sessionQueue' # <<>> /\ sessionQueue'[Len(sessionQueue')] = sessionQueue[Len(sessionQueue)]
      <4>1. Len(sessionQueue) \in Nat /\ Len(sessionQueue) >= 2
        <5>1. sessionQueue \in Seq(TransferLine) /\ 1 \in 1..Len(sessionQueue)  BY <1>1, <1>2
        <5>2. Len(sessionQueue) \in Nat  BY <5>1
        <5>3. 1 <= Len(sessionQueue)  BY <5>1, <5>2
        <5>4. \A n \in Nat : 1 <= n /\ n # 1 => n >= 2  OBVIOUS
        <5>5. QED  BY <5>2, <5>3, <5>4, <2>3
      <4>2. Len(sessionQueue') \in 1..Len(sessionQueue') /\ Len(sessionQueue') + 1 = Len(sessionQueue)
        BY <1>4, <4>1
      <4>3. sessionQueue'[Len(sessionQueue')] = sessionQueue[Len(sessionQueue)]
        BY <1>4, <4>2
      <4>4. sessionQueue' # <<>>
        <5>1. Len(sessionQueue') # 0  BY <1>4, <4>1
        <5>2. QED  BY <5>1
      <4>5. QED  BY <4>3, <4>4
    <3>2. QED  BY <2>1, <3>1 DEF Continues
  <2>4. QED  BY <2>2, <2>3
<1>11. ASSUME NEW t, Unsent(t) PROVE Unsent(t)'
  BY <1>2, <1>4, <1>5, <1>8, <1>11 DEF Unsent
<1>12. SentInOrder'
  <2> SUFFICES ASSUME NEW k \in 1..Len(sent'), NEW q, q = sent'[k], q.transfer # 0
               PROVE  /\ q.line > 1 => k > 1 /\ sent'[k - 1] = [q EXCEPT !.line = @ - 1]
                      /\ q.line = 1 => \A j \in 1..(k - 1) : sent'[j].transfer # q.transfer
    BY DEF SentInOrder
  <2>1. \A j \in 1..(k - 1) : j \in 1..Len(sent) /\ sent'[j] = sent[j]
    <3>1. k <= Len(sent) + 1 /\ Len(sent) \in Nat  BY <1>1, <1>8
    <3>2. \A j \in 1..(k - 1) : j \in 1..Len(sent') /\ j # Len(sent) + 1  BY <3>1
    <3>3. QED  BY <1>8, <3>2
  <2>2. CASE k \in 1..Len(sent) /\ q = sent[k]
    <3>1. k > 1 => sent'[k - 1] = sent[k - 1]  BY <2>1, <2>2
    <3>2. QED  BY <1>1, <2>1, <2>2, <3>1 DEF SentInOrder
  <2>3. CASE k = Len(sent) + 1 /\ q = w /\ Emitted
    <3>1. q.line > 1 => k > 1 /\ sent'[k - 1] = [q EXCEPT !.line = @ - 1]
      <4> SUFFICES ASSUME q.line > 1 PROVE k > 1 /\ sent'[k - 1] = [q EXCEPT !.line = @ - 1]
        OBVIOUS
      <4>1. Written(r.transfer, r.line, r.expected)
        BY <1>1, <1>2, <1>5, <2>3 DEF QueuedInOrder
      <4>2. /\ sent # <<>>
            /\ sent[Len(sent)] = [transfer |-> r.transfer, line |-> r.line - 1,
                                  generation |-> r.expected]
        BY <1>1, <1>5, <2>3, <4>1 DEF Written
      <4>3. [q EXCEPT !.line = @ - 1] = [transfer |-> r.transfer, line |-> r.line - 1,
                                         generation |-> r.expected]
        BY <1>5, <2>3 DEF WrittenLine
      <4>4. Len(sent) \in Nat /\ Len(sent) # 0  BY <1>1, <4>2
      <4>5. k > 1 /\ k - 1 = Len(sent) /\ k - 1 \in 1..(k - 1)  BY <2>3, <4>4
      <4>6. QED  BY <2>1, <4>2, <4>3, <4>5
    <3>2. q.line = 1 => \A j \in 1..(k - 1) : sent'[j].transfer # q.transfer
      <4> SUFFICES ASSUME q.line = 1, NEW j \in 1..(k - 1) PROVE sent'[j].transfer # q.transfer
        OBVIOUS
      <4>1. r.transfer # 0 /\ r.line = 1 /\ q.transfer = r.transfer  BY <1>5, <2>3
      <4>2. \A i \in 1..Len(sent) : sent[i].transfer # r.transfer
        BY <1>1, <1>2, <4>1 DEF QueuedInOrder
      <4>3. QED  BY <2>1, <4>1, <4>2
    <3>3. QED  BY <3>1, <3>2
  <2>4. QED  BY <1>8, <2>2, <2>3
<1>13. QueuedInOrder'
  <2> SUFFICES ASSUME NEW k \in 1..Len(sessionQueue'), NEW q, q = sessionQueue'[k], q.transfer # 0
               PROVE  /\ q.line > 1 => IF k = 1 THEN Written(q.transfer, q.line, q.expected)'
                                       ELSE sessionQueue'[k - 1] = [q EXCEPT !.line = @ - 1]
                      /\ q.line = 1 =>
                            /\ \A j \in 1..Len(sent') : sent'[j].transfer # q.transfer
                            /\ \A j \in 1..(k - 1) : sessionQueue'[j].transfer # q.transfer
    BY DEF QueuedInOrder, Written
  <2>1. k + 1 \in 1..Len(sessionQueue) /\ q = sessionQueue[k + 1] /\ q \in TransferLine
        /\ k + 1 # 1 /\ k \in Nat /\ (k + 1) - 1 = k
    BY <1>4
  <2>2. /\ q.line > 1 => sessionQueue[k] = [q EXCEPT !.line = @ - 1]
        /\ q.line = 1 => /\ \A j \in 1..Len(sent) : sent[j].transfer # q.transfer
                         /\ \A j \in 1..k : sessionQueue[j].transfer # q.transfer
    BY <1>1, <2>1 DEF QueuedInOrder
  <2>3. [q EXCEPT !.line = @ - 1] = [transfer |-> q.transfer, line |-> q.line - 1,
                                     expected |-> q.expected]
    BY <2>1 DEF TransferLine
  <2>4. CASE q.line > 1 /\ k = 1
    <3>1. Written(q.transfer, q.line, q.expected)'  BY <1>2, <1>9, <2>2, <2>3, <2>4
    <3>2. QED  BY <2>4, <3>1
  <2>5. CASE q.line > 1 /\ k # 1
    <3>1. sessionQueue'[k - 1] = sessionQueue[(k - 1) + 1] /\ (k - 1) + 1 = k
      BY <1>4, <2>1, <2>5
    <3>2. QED  BY <2>2, <2>5, <3>1
  <2>6. CASE q.line = 1
    <3>1. r.transfer # q.transfer  BY <1>2, <2>1, <2>2, <2>6
    <3>2. \A j \in 1..Len(sent') : sent'[j].transfer # q.transfer
      BY <1>5, <1>8, <2>2, <2>6, <3>1
    <3>3. \A j \in 1..(k - 1) : sessionQueue'[j] = sessionQueue[j + 1] /\ j + 1 \in 1..k
      BY <1>4, <2>1
    <3>4. QED  BY <2>2, <2>6, <3>2, <3>3
  <2>7. QED  BY <2>4, <2>5, <2>6
<1>14. RequestsInOrder'
  <2> SUFFICES ASSUME NEW k \in 1..Len(requests), NEW q, q = requests[k], q.transfer # 0
               PROVE  /\ k = Len(requests) /\ paced.step = "waiting" /\ answer = "none"
                      /\ q = Line(paced.transfer, paced.line, paced.generation)
                      /\ q.line > 1 => k = 1 /\ Continues(q.transfer, q.line, q.expected)'
                      /\ q.line = 1 => Unsent(q.transfer)'
    BY <1>3 DEF RequestsInOrder
  <2>1. /\ k = Len(requests) /\ paced.step = "waiting" /\ answer = "none"
        /\ q = Line(paced.transfer, paced.line, paced.generation)
        /\ q.line > 1 => k = 1 /\ Continues(q.transfer, q.line, q.expected)
        /\ q.line = 1 => Unsent(q.transfer)
    BY <1>1 DEF RequestsInOrder
  <2>2. q.line > 1 => Continues(q.transfer, q.line, q.expected)'  BY <1>10, <2>1
  <2>3. q.line = 1 => Unsent(q.transfer)'  BY <1>11, <2>1
  <2>4. QED  BY <2>1, <2>2, <2>3
<1>15. PacedInOrder'
  <2>1. Continues(paced.transfer, paced.line + 1, paced.generation) /\ paced.step # "none" =>
          Continues(paced.transfer, paced.line + 1, paced.generation)'
    <3>1. paced.step # "none" => paced.transfer # 0
      BY DEF TransferInv, NumbersFresh
    <3>2. QED  BY <1>3, <1>10, <3>1
  <2>2. QED  BY <1>1, <1>3, <2>1 DEF PacedInOrder
<1>16. QED  BY <1>12, <1>13, <1>14, <1>15

\* However the world reconnects and the UI loses the Gateway, what is written of a transfer is
\* its first lines, in one connection, with nothing between them (tui.py).
THEOREM TransfersAreWhole == TransfersSpec => []TransferIsWhole
<1>1. TransfersInit => TransferInv
  <2> SUFFICES ASSUME TransfersInit PROVE TransferInv
    OBVIOUS
  <2>1. /\ NoTask \in Pacing /\ NoPreview \in Previews /\ NoTask.step = "none"
        /\ NoPreview.phase = "none"
    BY DEF NoTask, NoPreview, Pacing, Previews
  <2>2. world \in WorldStates /\ world.generation = 1 /\ counts \in TransferCounts
    BY DEF TransfersInit, WorldStates, TransferCounts
  <2>3. TransferTypes
    <3>1. /\ news = <<>> /\ requests = <<>> /\ sessionQueue = <<>> /\ sent = <<>>
          /\ shown = world /\ answer = "none" /\ paced = NoTask /\ preview = NoPreview
      BY DEF TransfersInit
    <3>2. slot \in BOOLEAN  BY DEF TransfersInit
    <3>3. /\ <<>> \in Seq(WorldStates) /\ <<>> \in Seq(TransferLine) /\ <<>> \in Seq(WrittenLine)
      OBVIOUS
    <3>4. /\ news \in Seq(WorldStates) /\ requests \in Seq(TransferLine)
          /\ sessionQueue \in Seq(TransferLine) /\ sent \in Seq(WrittenLine)
      BY <3>1, <3>3
    <3>5. /\ shown \in WorldStates /\ paced \in Pacing /\ preview \in Previews
          /\ answer \in {"none", "ok", "refused"}
      BY <2>1, <2>2, <3>1
    <3>6. QED  BY <2>2, <3>2, <3>4, <3>5 DEF TransferTypes
  <2>4. GenerationsPast  BY <2>1, <2>2 DEF TransfersInit, GenerationsPast
  <2>5. NumbersFresh
    <3>1. /\ sent = <<>> /\ sessionQueue = <<>> /\ paced = NoTask /\ paced.step = "none"
          /\ preview.phase = "none"
      BY <2>1 DEF TransfersInit
    <3>2. slot = (paced.step # "none")
      <4>1. slot = FALSE  BY DEF TransfersInit
      <4>2. (paced.step # "none") = FALSE  BY <3>1
      <4>3. QED  BY <4>1, <4>2
    <3>3. /\ \A k \in 1..Len(sent) : sent[k].transfer <= counts.transfers
          /\ \A k \in 1..Len(sessionQueue) : sessionQueue[k].transfer <= counts.transfers
      BY <3>1
    <3>4. QED  BY <3>1, <3>2, <3>3 DEF NumbersFresh
  <2>6. SentInOrder /\ QueuedInOrder /\ RequestsInOrder /\ PacedInOrder
    BY <2>1 DEF TransfersInit, SentInOrder, QueuedInOrder, RequestsInOrder, PacedInOrder
  <2>7. QED  BY <2>3, <2>4, <2>5, <2>6 DEF TransferInv
<1>2. TransferInv /\ [TransfersNext]_transferVars => TransferInv'
  <2> SUFFICES ASSUME TransferInv, [TransfersNext]_transferVars PROVE TransferInv'
    OBVIOUS
  <2>1. TransferTypes'  BY TransferTypesStep DEF TransferInv
  <2>2. GenerationsPast' /\ NumbersFresh'  BY GenerationsStep, NumbersStep
  <2>3. SentInOrder' /\ QueuedInOrder' /\ RequestsInOrder' /\ PacedInOrder'
    BY <2>1, HandleKeepsOrder, WriteKeepsOrder, OthersKeepOrder
  <2>4. QED  BY <2>1, <2>2, <2>3 DEF TransferInv
<1>3. TransferInv => TransferIsWhole
  <2> SUFFICES ASSUME TransferInv PROVE TransferIsWhole
    OBVIOUS
  <2>1. slot <=> paced # NoTask
    <3>1. (paced.step = "none" => paced = NoTask) /\ slot = (paced.step # "none")
      BY DEF TransferInv, NumbersFresh
    <3>2. NoTask.step = "none"  BY DEF NoTask
    <3>3. QED  BY <3>1, <3>2
  <2>2. DOMAIN sent = 1..Len(sent)  BY DEF TransferInv, TransferTypes
  <2>3. QED  BY <2>1, <2>2 DEF TransferInv, SentInOrder, TransferIsWhole
<1>4. QED  BY <1>1, <1>2, <1>3, PTL DEF TransfersSpec

-----------------------------------------------------------------------------
(* Turns of an agent: Agents.                                              *)

\* What is in _request_times are the last requests; those before are a minute old.
AgentsInv ==
    /\ clock \in Nat /\ times \in Seq(Nat) /\ asked \in Seq(Nat)
    /\ \A i \in 1..Len(asked) : asked[i] <= clock
    /\ Len(times) <= Len(asked)
    /\ \A i \in 1..Len(times) : times[i] = asked[Len(asked) - Len(times) + i]
    /\ \A i \in 1..(Len(asked) - Len(times)) : asked[i] + Minute <= clock
    /\ RateKept
    /\ noticed \in [last : Nat, seen : Nat]
    /\ ~trigger => noticed.seen = noticed.last

\* A request now, when k of the times have expired, is within the rate.
LEMMA AskingKeepsRate ==
  ASSUME AgentsInv, NEW k \in 0..Len(times), Expired(k), Allowed(k),
         asked' = Append(asked, clock)
  PROVE  /\ \A i \in 1..(Len(asked) - (Len(times) - k)) : asked[i] + Minute <= clock
         /\ RateKept'
<1>1. /\ clock \in Nat /\ asked \in Seq(Nat) /\ times \in Seq(Nat)
      /\ Len(asked) \in Nat /\ Len(times) \in Nat /\ k \in Nat /\ k <= Len(times)
      /\ Len(times) <= Len(asked)
  BY DEF AgentsInv
<1>2. Minute \in Nat /\ Cooldown \in Nat /\ PerMinute \in Nat
      /\ Spacing \in Nat /\ Spacing <= Minute /\ Spacing <= Cooldown
  BY AgentsAssumption DEF Spacing
<1>3. \A i \in 1..Len(asked) : asked[i] \in Nat  BY <1>1
<1>4. ASSUME NEW i \in 1..(Len(asked) - (Len(times) - k))
      PROVE  asked[i] + Minute <= clock
  <2>1. CASE i \in 1..(Len(asked) - Len(times))  BY <2>1 DEF AgentsInv
  <2>2. CASE i \notin 1..(Len(asked) - Len(times))
    <3> DEFINE m == i - (Len(asked) - Len(times))
    <3>1. m \in 1..k /\ m \in 1..Len(times) /\ Len(asked) - Len(times) + m = i
      BY <1>1, <2>2
    <3>2. times[m] + Minute <= clock  BY <3>1 DEF Expired
    <3>3. times[m] = asked[Len(asked) - Len(times) + m]  BY <3>1 DEF AgentsInv
    <3>4. QED  BY <3>1, <3>2, <3>3
  <2>3. QED  BY <2>1, <2>2
<1>5. ASSUME NEW i \in 1..Len(asked) PROVE clock - asked[i] >= Spacing
  <2>1. CASE k = Len(times)
    <3>1. asked[i] + Minute <= clock  BY <1>1, <1>4, <2>1
    <3>2. QED  BY <1>1, <1>2, <1>3, <3>1
  <2>2. CASE k # Len(times)
    <3>1. clock - times[Len(times)] >= Cooldown /\ Len(times) \in 1..Len(times)
      BY <1>1, <2>2 DEF Allowed
    <3>2. times[Len(times)] = asked[Len(asked)] /\ Len(asked) \in 1..Len(asked)
      <4>1. Len(asked) - Len(times) + Len(times) = Len(asked)  BY <1>1
      <4>2. Len(asked) \in 1..Len(asked)  BY <1>1, <3>1
      <4>3. times[Len(times)] = asked[Len(asked) - Len(times) + Len(times)]
        BY <3>1 DEF AgentsInv
      <4>4. QED  BY <4>1, <4>2, <4>3
    <3>3. asked[i] <= asked[Len(asked)]
      <4>1. CASE i = Len(asked)  BY <1>3, <3>2, <4>1
      <4>2. CASE i # Len(asked)
        <5>1. i \in DOMAIN asked /\ Len(asked) \in DOMAIN asked /\ i < Len(asked)
          BY <1>1, <3>2, <4>2
        <5>2. asked[Len(asked)] - asked[i] >= Spacing
          BY <5>1 DEF AgentsInv, RateKept
        <5>3. QED  BY <1>2, <1>3, <3>2, <5>2
      <4>3. QED  BY <4>1, <4>2
    <3>4. QED  BY <1>1, <1>2, <1>3, <3>1, <3>2, <3>3, SMTT(30)
  <2>3. QED  BY <2>1, <2>2
<1>6. /\ Len(asked') = Len(asked) + 1 /\ DOMAIN asked' = 1..(Len(asked) + 1)
      /\ DOMAIN asked = 1..Len(asked)
      /\ \A i \in 1..Len(asked) : asked'[i] = asked[i]
      /\ asked'[Len(asked) + 1] = clock
  BY <1>1
<1>7. RateKept'
  <2> SUFFICES ASSUME NEW i \in 1..(Len(asked) + 1), NEW j \in 1..(Len(asked) + 1), i < j
               PROVE  /\ asked'[j] - asked'[i] >= Spacing
                      /\ j - i >= PerMinute => asked'[j] - asked'[i] >= Minute
    BY <1>6 DEF RateKept
  <2>1. i \in 1..Len(asked)  BY <1>1
  <2>2. CASE j \in 1..Len(asked)
    <3>1. /\ asked[j] - asked[i] >= Spacing
          /\ j - i >= PerMinute => asked[j] - asked[i] >= Minute
      BY <1>6, <2>1, <2>2 DEF AgentsInv, RateKept
    <3>2. asked'[i] = asked[i] /\ asked'[j] = asked[j]  BY <1>6, <2>1, <2>2
    <3>3. QED  BY <3>1, <3>2
  <2>3. CASE j = Len(asked) + 1
    <3>1. asked'[j] = clock /\ asked'[i] = asked[i]  BY <1>6, <2>1, <2>3
    <3>2. ASSUME j - i >= PerMinute PROVE clock - asked[i] >= Minute
      <4>1. Len(times) - k < PerMinute  BY DEF Allowed
      <4>2. i \in 1..(Len(asked) - (Len(times) - k))
        BY <1>1, <1>2, <2>1, <2>3, <3>2, <4>1
      <4>3. asked[i] + Minute <= clock  BY <1>4, <4>2
      <4>4. QED  BY <1>1, <1>2, <1>3, <2>1, <4>3
    <3>3. QED  BY <1>5, <2>1, <3>1, <3>2
  <2>4. j \in 1..Len(asked) \/ j = Len(asked) + 1
    <3>1. Len(asked) \in Nat  BY <1>1
    <3>2. QED  BY <3>1
  <2>5. QED  BY <2>2, <2>3, <2>4
<1>8. QED  BY <1>4, <1>7

LEMMA TurnKeepsRate ==
  ASSUME AgentsInv, BeginTurn PROVE AgentsInv'
<1>1. PICK k \in 0..Len(times) :
        /\ Expired(k)
        /\ IF Allowed(k)
           THEN times' = Append(Kept(k), clock) /\ asked' = Append(asked, clock)
           ELSE times' = Kept(k) /\ asked' = asked
  BY DEF BeginTurn
<1>2. clock' = clock /\ trigger' = FALSE /\ noticed' = [noticed EXCEPT !.seen = noticed.last]
  BY DEF BeginTurn
<1>3. /\ clock \in Nat /\ asked \in Seq(Nat) /\ times \in Seq(Nat)
      /\ Len(asked) \in Nat /\ Len(times) \in Nat /\ k \in Nat /\ k <= Len(times)
      /\ Len(times) <= Len(asked)
      /\ \A i \in 1..Len(times) : times[i] = asked[Len(asked) - Len(times) + i]
      /\ \A i \in 1..Len(asked) : asked[i] <= clock /\ asked[i] \in Nat
  BY DEF AgentsInv
<1>4. /\ Recent(k) \in Seq(Nat) /\ Len(Recent(k)) = Len(times) - k
      /\ \A i \in 1..(Len(times) - k) : Recent(k)[i] = asked[Len(asked) - (Len(times) - k) + i]
  <2>1. /\ Recent(k) \in Seq(Nat) /\ Len(Recent(k)) = Len(times) - k
        /\ \A i \in 1..(Len(times) - k) : Recent(k)[i] = times[k + i]
    BY <1>3 DEF Recent
  <2>2. ASSUME NEW i \in 1..(Len(times) - k)
        PROVE  times[k + i] = asked[Len(asked) - (Len(times) - k) + i]
    <3>1. k + i \in 1..Len(times)
          /\ Len(asked) - Len(times) + (k + i) = Len(asked) - (Len(times) - k) + i
      BY <1>3
    <3>2. times[k + i] = asked[Len(asked) - Len(times) + (k + i)]  BY <1>3, <3>1
    <3>3. QED  BY <3>1, <3>2
  <2>3. QED  BY <2>1, <2>2
<1>5. ASSUME NEW i \in 1..(Len(asked) - (Len(times) - k)) PROVE asked[i] + Minute <= clock
  <2>1. CASE i \in 1..(Len(asked) - Len(times))  BY <2>1 DEF AgentsInv
  <2>2. CASE i \notin 1..(Len(asked) - Len(times))
    <3> DEFINE m == i - (Len(asked) - Len(times))
    <3>1. m \in 1..k /\ m \in 1..Len(times) /\ Len(asked) - Len(times) + m = i
      BY <1>3, <2>2
    <3>2. times[m] + Minute <= clock  BY <1>1, <3>1 DEF Expired
    <3>3. times[m] = asked[Len(asked) - Len(times) + m]  BY <1>3, <3>1
    <3>4. QED  BY <3>1, <3>2, <3>3
  <2>3. QED  BY <2>1, <2>2
<1>6. noticed' \in [last : Nat, seen : Nat] /\ noticed'.seen = noticed'.last
  BY <1>2 DEF AgentsInv
<1>7. CASE ~Allowed(k)
  <2>1. asked' = asked /\ (times' = times \/ times' = Recent(k))
    BY <1>1, <1>7 DEF Kept
  <2>2. RateKept'  BY <2>1 DEF RateKept, AgentsInv
  <2>3. CASE times' = times
    <3>1. \A i \in 1..(Len(asked) - Len(times)) : asked[i] + Minute <= clock  BY DEF AgentsInv
    <3>2. QED  BY <1>2, <1>3, <1>6, <2>1, <2>2, <2>3, <3>1 DEF AgentsInv
  <2>4. CASE times' = Recent(k)
    <3> DEFINE n == Len(asked) - (Len(times) - k)
    <3>1. Len(asked') - Len(times') = n /\ n \in Nat /\ Len(times') <= Len(asked')
      BY <1>3, <1>4, <2>1, <2>4
    <3>2. \A i \in 1..Len(times') : times'[i] = asked'[n + i]  BY <1>4, <2>1, <2>4
    <3>3. \A i \in 1..n : asked'[i] + Minute <= clock  BY <1>5, <2>1
    <3> HIDE DEF n
    <3>4. QED  BY <1>2, <1>3, <1>4, <1>6, <2>1, <2>2, <2>4, <3>1, <3>2, <3>3 DEF AgentsInv
  <2>5. QED  BY <2>1, <2>3, <2>4
<1>8. CASE Allowed(k)
  <2>1. asked' = Append(asked, clock) /\ times' = Append(Recent(k), clock)
    BY <1>1, <1>8 DEF Kept, Allowed
  <2>2. RateKept'  BY <1>1, <1>8, <2>1, AskingKeepsRate
  <2>3. /\ asked' \in Seq(Nat) /\ Len(asked') = Len(asked) + 1
        /\ \A i \in 1..Len(asked) : asked'[i] = asked[i]
        /\ asked'[Len(asked) + 1] = clock
    BY <1>3, <2>1
  <2>4. /\ times' \in Seq(Nat) /\ Len(times') = Len(times) - k + 1
        /\ \A i \in 1..(Len(times) - k) : times'[i] = Recent(k)[i]
        /\ times'[Len(times) - k + 1] = clock
    BY <1>3, <1>4, <2>1
  <2>5. ASSUME NEW i \in 1..Len(asked') PROVE asked'[i] <= clock'
    <3>1. i \in 1..Len(asked) \/ i = Len(asked) + 1  BY <1>3, <2>3
    <3>2. CASE i \in 1..Len(asked)
      <4>1. asked'[i] = asked[i]  BY <2>3, <3>2
      <4>2. asked[i] <= clock  BY <1>3, <3>2
      <4>3. QED  BY <1>2, <4>1, <4>2
    <3>3. CASE i = Len(asked) + 1
      <4>1. asked'[i] = clock  BY <2>3, <3>3
      <4>2. clock \in Nat  BY <1>3
      <4>3. QED  BY <1>2, <4>1, <4>2
    <3>4. QED  BY <3>1, <3>2, <3>3
  <2>6. Len(times') <= Len(asked')  BY <1>3, <2>3, <2>4
  <2>7. ASSUME NEW i \in 1..Len(times')
        PROVE  times'[i] = asked'[Len(asked') - Len(times') + i]
    <3>1. Len(asked') - Len(times') = Len(asked) - (Len(times) - k)  BY <1>3, <2>3, <2>4
    <3>2. CASE i = Len(times) - k + 1
      BY <1>3, <2>3, <2>4, <3>1, <3>2, SMTT(30)
    <3>3. CASE i # Len(times) - k + 1
      <4>1. i \in 1..(Len(times) - k)  BY <1>3, <2>4, <3>3
      <4>2. Len(asked) - (Len(times) - k) + i \in 1..Len(asked)  BY <1>3, <4>1
      <4>3. QED  BY <1>4, <2>3, <2>4, <3>1, <4>1, <4>2
    <3>4. QED  BY <3>2, <3>3
  <2>8. ASSUME NEW i \in 1..(Len(asked') - Len(times')) PROVE asked'[i] + Minute <= clock'
    <3>1. i \in 1..(Len(asked) - (Len(times) - k)) /\ i \in 1..Len(asked)
      <4>1. Len(asked') - Len(times') = Len(asked) - (Len(times) - k)
            /\ Len(asked) - (Len(times) - k) <= Len(asked)
            /\ Len(asked) - (Len(times) - k) \in Nat
        BY <1>3, <2>3, <2>4
      <4>2. QED  BY <1>3, <4>1
    <3>2. QED  BY <1>2, <1>5, <2>3, <3>1
  <2>9. clock' \in Nat  BY <1>2, <1>3
  <2>10. QED
    BY <1>6, <2>2, <2>3, <2>4, <2>5, <2>6, <2>7, <2>8, <2>9 DEF AgentsInv
<1>9. QED  BY <1>7, <1>8

\* However pauses, disconnections and failed requests lie between its turns, an agent asks
\* within its rate, and not before a turn has seen the last of what was said (agents.py _turn,
\* _run).
THEOREM AgentsKeepTheirTurn == AgentsSpec => []TurnsSound
<1>1. AgentsInit => AgentsInv
  <2> SUFFICES ASSUME AgentsInit PROVE AgentsInv
    OBVIOUS
  <2>1. /\ times = <<>> /\ asked = <<>> /\ clock = 0 /\ noticed = [last |-> 0, seen |-> 0]
    BY DEF AgentsInit
  <2>2. RateKept  BY <2>1 DEF RateKept
  <2>3. QED  BY <2>1, <2>2 DEF AgentsInv
<1>2. AgentsInv /\ [AgentsNext]_agentVars => AgentsInv'
  <2> SUFFICES ASSUME AgentsInv, [AgentsNext]_agentVars PROVE AgentsInv'
    OBVIOUS
  <2>1. RateKept /\ UNCHANGED asked => RateKept'  BY DEF RateKept
  <2>2. CASE BeginTurn  BY <2>2, TurnKeepsRate
  <2>3. CASE Tick
    <3>1. UNCHANGED <<times, asked, trigger, noticed>> /\ clock' = clock + 1
      BY <2>3 DEF Tick
    <3>2. /\ clock \in Nat /\ asked \in Seq(Nat) /\ Minute \in Nat
          /\ \A i \in 1..Len(asked) : asked[i] \in Nat
          /\ Len(asked) \in Nat /\ Len(times) \in Nat /\ Len(times) <= Len(asked)
      BY AgentsAssumption DEF AgentsInv
    <3>3. /\ \A i \in 1..Len(asked') : asked'[i] <= clock'
          /\ \A i \in 1..(Len(asked') - Len(times')) : asked'[i] + Minute <= clock'
      <4>1. /\ \A i \in 1..Len(asked) : asked[i] <= clock
            /\ \A i \in 1..(Len(asked) - Len(times)) : asked[i] + Minute <= clock
        BY DEF AgentsInv
      <4>2. \A i \in 1..(Len(asked) - Len(times)) : i \in 1..Len(asked)  BY <3>2
      <4>3. QED  BY SMTT(30), <3>1, <3>2, <4>1, <4>2
    <3>4. QED  BY <2>1, <3>1, <3>2, <3>3 DEF AgentsInv
  <2>4. CASE Hear \/ Pause
    <3>1. UNCHANGED <<times, clock, asked>>  BY <2>4 DEF Hear, Pause, limitVars
    <3>2. noticed \in [last : Nat, seen : Nat]  BY DEF AgentsInv
    <3>3. CASE Hear
      <4>1. noticed' \in [last : Nat, seen : Nat] /\ trigger' = TRUE  BY <3>2, <3>3 DEF Hear
      <4>2. QED  BY <2>1, <3>1, <4>1 DEF AgentsInv
    <3>4. CASE Pause
      <4>1. noticed' \in [last : Nat, seen : Nat] /\ noticed'.seen = noticed'.last
        BY <3>2, <3>4 DEF Pause
      <4>2. QED  BY <2>1, <3>1, <4>1 DEF AgentsInv
    <3>5. QED  BY <2>4, <3>3, <3>4
  <2>5. CASE \/ GoOnline \/ GoOffline \/ WriteCommand \/ HearDisconnect \/ Resume \/ Wake
             \/ AskModel \/ ModelAnswers \/ TakeAnswer \/ Judge \/ UNCHANGED agentVars
    <3>1. UNCHANGED <<times, clock, asked, trigger, noticed>>
      BY <2>5 DEF GoOnline, GoOffline, WriteCommand, HearDisconnect, Resume, Wake, AskModel,
         ModelAnswers, TakeAnswer, Judge, agentVars, limitVars
    <3>2. QED  BY <2>1, <3>1 DEF AgentsInv
  <2>6. QED  BY <2>2, <2>3, <2>4, <2>5 DEF AgentsNext
<1>3. AgentsInv => TurnsSound
  BY DEF AgentsInv, TurnsSound, SpeechConsidered
<1>4. QED  BY <1>1, <1>2, <1>3, PTL DEF AgentsSpec

-----------------------------------------------------------------------------
(* What plugins register: PluginRegistry.                                  *)

PluginNames == {Enabled[i] : i \in DOMAIN Enabled}
Registrations == [kind : Kinds, name : RegistrationNames \cup Discovered, plugin : Discovered,
                  rules : 0..MaxRules]
RegistryTypes ==
    /\ registry \subseteq Registrations /\ made \in [Discovered -> SUBSET Registrations]
    /\ registering \in [plugin : Discovered \cup {"none"}, calls : Nat,
                        snapshot : SUBSET Registrations, live : BOOLEAN, rules : 0..MaxRules]
    /\ registering.plugin = "none" => registering = NotRegistering
    /\ loadedPlugins \subseteq Discovered
    /\ rules \in 0..MaxRules /\ lastRules \in 0..MaxRules
    /\ toLoad \in Seq(PluginNames)

Loading == registering.plugin # "none" /\ ~registering.live

\* Each plugin is loaded once, before any rules are changed or callbacks run.
LoadedOnce ==
    /\ \A i, j \in 1..Len(toLoad) : toLoad[i] = toLoad[j] => i = j
    /\ \A i \in 1..Len(toLoad) :
         /\ toLoad[i] \notin loadedPlugins /\ (Loading => toLoad[i] # registering.plugin)
         /\ toLoad[i] \in Discovered => made[toLoad[i]] = {}
    /\ Loading => registering.plugin \notin loadedPlugins
    /\ Loading \/ toLoad # <<>> => rules = 0 /\ raised = {}

InForce(r) == r.kind # "settings" /\ (rules = 0 \/ r.kind # "presentation")
MadeByLoaded(r) == \E p \in loadedPlugins : r \in made[p]

\* The registry without the plugin that is loading, which is what its snapshot holds.
Exact ==
    /\ ~Loading => \A r \in Registrations :
                     InForce(r) => (r \in registry <=> MadeByLoaded(r) /\ r \notin raised)
    /\ Loading => \A r \in Registrations :
                     InForce(r) => /\ r \in registering.snapshot <=> MadeByLoaded(r)
                                   /\ r \in registry <=> \/ r \in registering.snapshot
                                                         \/ r \in made[registering.plugin]

\* The decorators agree with the rules they are to be built from.
RulesKnown ==
    /\ \A r \in Decorators(registry) : r.rules = rules
    /\ Loading => /\ registering.rules = rules
                  /\ \A r \in Decorators(registering.snapshot) : r.rules = rules
    /\ registering.live =>
         /\ registering.plugin = Speaker /\ registering.rules # 0 /\ toLoad = <<>>
         /\ \A r \in registering.snapshot : r.rules = registering.rules

RegistryInv == RegistryTypes /\ LoadedOnce /\ Exact /\ RulesKnown

LEMMA RegistryTypesStep ==
  ASSUME RegistryTypes, [RegistryNext]_registryVars PROVE RegistryTypes'
<1> DEFINE Work == [plugin : Discovered \cup {"none"}, calls : Nat,
                    snapshot : SUBSET Registrations, live : BOOLEAN, rules : 0..MaxRules]
<1>1. /\ registering \in Work /\ registry \subseteq Registrations
      /\ made \in [Discovered -> SUBSET Registrations] /\ toLoad \in Seq(PluginNames)
      /\ loadedPlugins \subseteq Discovered
      /\ rules \in 0..MaxRules /\ lastRules \in 0..MaxRules /\ MaxRules \in Nat
      /\ registering.plugin = "none" => registering = NotRegistering
  BY PluginRegistryAssumption DEF RegistryTypes
<1>2. ~Free => registering.plugin \in Discovered /\ registering.plugin # "none"
  BY <1>1, PluginRegistryAssumption DEF Free
<1>3. NotRegistering \in Work  BY <1>1 DEF NotRegistering
<1>4. toLoad # <<>> => Tail(toLoad) \in Seq(PluginNames)  BY <1>1
<1>5. CASE UNCHANGED registryVars
  BY <1>5 DEF RegistryTypes, registryVars, NotRegistering
<1>6. CASE LoadUnknown
  BY <1>1, <1>4, <1>6 DEF RegistryTypes, LoadUnknown, NotRegistering
<1>7. CASE StartLoad
  <2>1. registering' \in Work /\ registering'.plugin # "none"
    BY <1>1, <1>7, PluginRegistryAssumption DEF StartLoad
  <2>2. QED  BY <1>1, <1>4, <1>7, <2>1 DEF RegistryTypes, StartLoad
<1>8. CASE EndLoad
  BY <1>1, <1>2, <1>3, <1>8 DEF RegistryTypes, EndLoad, NotRegistering
<1>9. CASE FailLoad
  <2>1. registry' \subseteq Registrations  BY <1>1, <1>9 DEF FailLoad, RolledBack
  <2>2. made' \in [Discovered -> SUBSET Registrations]  BY <1>1, <1>9 DEF FailLoad
  <2>3. QED  BY <1>1, <1>3, <1>9, <2>1, <2>2 DEF RegistryTypes, FailLoad, NotRegistering
<1>10. ASSUME NEW kind \in Kinds, NEW n \in RegistrationNames, Add(kind, n)
       PROVE  RegistryTypes'
  <2> DEFINE r == [kind |-> kind, name |-> NameOf(kind, n), plugin |-> registering.plugin,
                   rules |-> IF registering.plugin = Speaker THEN registering.rules ELSE 0]
  <2>1. ~Free  BY <1>10 DEF Add
  <2>2. r \in Registrations
    BY <1>1, <1>2, <2>1 DEF Registrations, NameOf
  <2>3. /\ registering' = [registering EXCEPT !.calls = @ + 1,
                             !.snapshot = IF registering.live /\ ~Ignored(kind)
                                          THEN @ \cup {r} ELSE @]
        /\ registry' \in {registry, registry \cup {r}}
        /\ made' \in {made, [made EXCEPT ![registering.plugin] = @ \cup {r}]}
        /\ UNCHANGED <<scope, toLoad, loadedPlugins, loadFailures, rules, lastRules, raised>>
    BY <1>10 DEF Add
  <2> HIDE DEF r
  <2>4. registering' \in Work /\ registering'.plugin = registering.plugin
    <3>1. /\ registering.calls + 1 \in Nat
          /\ registering.snapshot \cup {r} \in SUBSET Registrations
      BY <1>1, <2>2
    <3>2. \/ registering' = [registering EXCEPT !.calls = @ + 1, !.snapshot = @ \cup {r}]
          \/ registering' = [registering EXCEPT !.calls = @ + 1, !.snapshot = @]
      BY <2>3
    <3>3. registering \in Work  BY <1>1
    <3>4. QED  BY <3>1, <3>2, <3>3
  <2>5. made' \in [Discovered -> SUBSET Registrations]
    BY <1>1, <2>2, <2>3
  <2>6. registering'.plugin # "none"  BY <1>2, <2>1, <2>4
  <2>7. QED  BY <1>1, <2>2, <2>3, <2>4, <2>5, <2>6 DEF RegistryTypes
<1>11. CASE StartRules
  <2>1. registering' \in Work /\ registering'.plugin # "none" /\ lastRules' \in 0..MaxRules
    BY <1>1, <1>11, PluginRegistryAssumption DEF StartRules
  <2>2. QED  BY <1>1, <1>11, <2>1 DEF RegistryTypes, StartRules
<1>12. CASE RefuseRules
  BY <1>1, <1>3, <1>12 DEF RegistryTypes, RefuseRules, NotRegistering
<1>13. CASE TakeRules
  BY <1>1, <1>3, <1>13 DEF RegistryTypes, TakeRules, Retained, Decorators, NotRegistering
<1>14. CASE \E r \in registry : RemoveRaising(r)
  BY <1>1, <1>14 DEF RegistryTypes, RemoveRaising, NotRegistering
<1>15. QED
  BY <1>5, <1>6, <1>7, <1>8, <1>9, <1>10, <1>11, <1>12, <1>13, <1>14 DEF RegistryNext

\* What each kind of step makes of the plugin that is loading.
LEMMA LoadingStep ==
  ASSUME RegistryTypes
  PROVE  /\ Free => ~Loading /\ ~registering.live
         /\ ~Free => registering.plugin \in Discovered /\ registering.plugin # "none"
         /\ ~Free /\ ~registering.live => Loading
         /\ registering' = NotRegistering => ~Loading' /\ ~registering'.live
<1>1. NotRegistering.plugin = "none" /\ NotRegistering.live = FALSE  BY DEF NotRegistering
<1>2. registering.plugin \in Discovered \cup {"none"}
      /\ (registering.plugin = "none" => registering = NotRegistering)
      /\ registering.live \in BOOLEAN
  BY DEF RegistryTypes
<1>3. Free => ~Loading /\ ~registering.live  BY <1>1 DEF Free, Loading
<1>4. ~Free => registering.plugin \in Discovered /\ registering.plugin # "none"
  BY <1>2 DEF Free
<1>5. ~Free /\ ~registering.live => Loading  BY <1>4 DEF Loading
<1>6. registering' = NotRegistering => ~Loading' /\ ~registering'.live
  BY <1>1 DEF Loading
<1>7. QED  BY <1>3, <1>4, <1>5, <1>6

\* What the registrar adds, where it adds it.
LEMMA AddStep ==
  ASSUME RegistryTypes, NEW kind \in Kinds, NEW n \in RegistrationNames, Add(kind, n)
  PROVE  \E r \in Registrations :
           /\ r.plugin = registering.plugin
           /\ r.rules = (IF registering.plugin = Speaker THEN registering.rules ELSE 0)
           /\ registering'.plugin = registering.plugin /\ registering'.live = registering.live
           /\ registering'.rules = registering.rules /\ ~Free /\ Loading' = Loading
           /\ \/ /\ UNCHANGED <<registry, made>>
                 /\ registering'.snapshot = registering.snapshot
              \/ /\ registering.live /\ UNCHANGED <<registry, made>>
                 /\ registering'.snapshot = registering.snapshot \cup {r}
              \/ /\ ~registering.live /\ registry' = registry \cup {r}
                 /\ made' = [made EXCEPT ![registering.plugin] = @ \cup {r}]
                 /\ registering'.snapshot = registering.snapshot
           /\ UNCHANGED <<toLoad, loadedPlugins, rules, raised>>
<1> DEFINE r == [kind |-> kind, name |-> NameOf(kind, n), plugin |-> registering.plugin,
                 rules |-> IF registering.plugin = Speaker THEN registering.rules ELSE 0]
<1>1. ~Free  BY DEF Add
<1>2. registering.plugin \in Discovered /\ registering.rules \in 0..MaxRules /\ MaxRules \in Nat
  BY <1>1, LoadingStep, PluginRegistryAssumption DEF RegistryTypes
<1>3. /\ r \in Registrations /\ r.plugin = registering.plugin
      /\ r.rules = (IF registering.plugin = Speaker THEN registering.rules ELSE 0)
  BY <1>2 DEF Registrations, NameOf
<1>4. /\ registering' = [registering EXCEPT !.calls = @ + 1,
                             !.snapshot = IF registering.live /\ ~Ignored(kind)
                                          THEN @ \cup {r} ELSE @]
      /\ registry' = IF registering.live \/ Ignored(kind) THEN registry ELSE registry \cup {r}
      /\ made' = IF registering.live \/ Ignored(kind) THEN made
                 ELSE [made EXCEPT ![registering.plugin] = @ \cup {r}]
      /\ UNCHANGED <<toLoad, loadedPlugins, rules, raised>>
  BY DEF Add
<1> HIDE DEF r
<1>5. registering \in [plugin : Discovered \cup {"none"}, calls : Nat,
                       snapshot : SUBSET Registrations, live : BOOLEAN, rules : 0..MaxRules]
  BY DEF RegistryTypes
<1>6. /\ registering'.plugin = registering.plugin /\ registering'.live = registering.live
      /\ registering'.rules = registering.rules
      /\ registering'.snapshot = IF registering.live /\ ~Ignored(kind)
                                 THEN registering.snapshot \cup {r} ELSE registering.snapshot
  BY <1>4, <1>5
<1>7. Loading' = Loading  BY <1>6 DEF Loading
<1>8. \/ UNCHANGED <<registry, made>> /\ registering'.snapshot = registering.snapshot
      \/ /\ registering.live /\ UNCHANGED <<registry, made>>
         /\ registering'.snapshot = registering.snapshot \cup {r}
      \/ /\ ~registering.live /\ registry' = registry \cup {r}
         /\ made' = [made EXCEPT ![registering.plugin] = @ \cup {r}]
         /\ registering'.snapshot = registering.snapshot
  BY <1>4, <1>6
<1>9. QED  BY <1>1, <1>3, <1>4, <1>6, <1>7, <1>8

LEMMA LoadedOnceStep ==
  ASSUME RegistryInv, [RegistryNext]_registryVars PROVE LoadedOnce'
<1>1. /\ RegistryTypes /\ LoadedOnce /\ toLoad \in Seq(PluginNames)
      /\ made \in [Discovered -> SUBSET Registrations]
  BY DEF RegistryInv, RegistryTypes
<1>2. /\ \A i, j \in 1..Len(toLoad) : toLoad[i] = toLoad[j] => i = j
      /\ \A i \in 1..Len(toLoad) :
           /\ toLoad[i] \notin loadedPlugins /\ (Loading => toLoad[i] # registering.plugin)
           /\ toLoad[i] \in Discovered => made[toLoad[i]] = {}
      /\ Loading => registering.plugin \notin loadedPlugins
      /\ Loading \/ toLoad # <<>> => rules = 0 /\ raised = {}
  BY <1>1 DEF LoadedOnce
<1>3. ASSUME toLoad # <<>>, toLoad' = Tail(toLoad)
      PROVE  /\ \A i \in 1..Len(toLoad') : i + 1 \in 1..Len(toLoad) /\ toLoad'[i] = toLoad[i + 1]
             /\ 1 \in 1..Len(toLoad) /\ Head(toLoad) = toLoad[1]
             /\ \A i \in 1..Len(toLoad') : i \in Nat /\ i + 1 # 1
  BY <1>1, <1>3
<1>4. ASSUME toLoad # <<>>, toLoad' = Tail(toLoad)
      PROVE  /\ \A i, j \in 1..Len(toLoad') : toLoad'[i] = toLoad'[j] => i = j
             /\ \A i \in 1..Len(toLoad') : toLoad'[i] # Head(toLoad)
  <2>1. ASSUME NEW i \in 1..Len(toLoad'), NEW j \in 1..Len(toLoad'), toLoad'[i] = toLoad'[j]
        PROVE  i = j
    <3>1. i + 1 = j + 1  BY <1>2, <1>3, <1>4, <2>1
    <3>2. i \in Nat /\ j \in Nat  BY <1>3, <1>4
    <3>3. QED  BY <3>1, <3>2
  <2>2. \A i \in 1..Len(toLoad') : toLoad'[i] # Head(toLoad)  BY <1>2, <1>3, <1>4
  <2>3. QED  BY <2>1, <2>2
<1>5. CASE UNCHANGED registryVars
  <2>1. UNCHANGED <<toLoad, loadedPlugins, registering, made, rules, raised>>
    BY <1>5 DEF registryVars
  <2>2. Loading' = Loading  BY <2>1 DEF Loading
  <2>3. QED  BY <1>2, <2>1, <2>2 DEF LoadedOnce
<1>6. CASE LoadUnknown
  <2>1. /\ toLoad # <<>> /\ toLoad' = Tail(toLoad)
        /\ UNCHANGED <<registering, loadedPlugins, made, rules, raised>>
    BY <1>6 DEF LoadUnknown
  <2>2. Loading' = Loading  BY <2>1 DEF Loading
  <2>3. QED  BY <1>2, <1>3, <1>4, <2>1, <2>2 DEF LoadedOnce
<1>7. CASE StartLoad
  <2>1. /\ toLoad # <<>> /\ toLoad' = Tail(toLoad) /\ registering'.plugin = Head(toLoad)
        /\ UNCHANGED <<loadedPlugins, made, rules, raised>>
    BY <1>7 DEF StartLoad
  <2>2. QED  BY <1>2, <1>3, <1>4, <2>1 DEF LoadedOnce
<1>8. CASE EndLoad
  <2>1. /\ ~Loading' /\ Loading /\ loadedPlugins' = loadedPlugins \cup {registering.plugin}
        /\ UNCHANGED <<toLoad, made, rules, raised>>
    BY <1>1, <1>8, LoadingStep DEF EndLoad
  <2>2. QED  BY <1>2, <2>1 DEF LoadedOnce
<1>9. CASE FailLoad
  <2>1. /\ ~Loading' /\ Loading /\ made' = [made EXCEPT ![registering.plugin] = {}]
        /\ UNCHANGED <<toLoad, loadedPlugins, rules, raised>>
    BY <1>1, <1>9, LoadingStep DEF FailLoad
  <2>2. QED  BY <1>1, <1>2, <2>1 DEF LoadedOnce
<1>10. ASSUME NEW kind \in Kinds, NEW n \in RegistrationNames, Add(kind, n)
       PROVE  LoadedOnce'
  <2>1. /\ registering'.plugin = registering.plugin /\ Loading' = Loading
        /\ UNCHANGED <<toLoad, loadedPlugins, rules, raised>>
        /\ \/ UNCHANGED made
           \/ /\ Loading
              /\ \A p \in Discovered : p # registering.plugin => made'[p] = made[p]
    BY <1>1, <1>10, AddStep, LoadingStep
  <2>2. QED  BY <1>2, <2>1 DEF LoadedOnce
<1>11. CASE StartRules
  <2>1. ~Loading' /\ toLoad' = <<>> /\ toLoad = <<>>
    BY <1>11 DEF StartRules, Loading
  <2>2. QED  BY <2>1 DEF LoadedOnce
<1>12. CASE RefuseRules
  <2>1. ~Loading' /\ UNCHANGED <<toLoad, loadedPlugins, made, rules, raised>>
    BY <1>1, <1>12, LoadingStep DEF RefuseRules
  <2>2. QED  BY <1>2, <2>1 DEF LoadedOnce
<1>13. CASE TakeRules
  <2>1. ~Loading' /\ UNCHANGED <<toLoad, loadedPlugins, made, raised>> /\ registering.live
    BY <1>1, <1>13, LoadingStep DEF TakeRules
  <2>2. toLoad = <<>>
    BY <2>1 DEF RegistryInv, RulesKnown
  <2>3. QED  BY <1>2, <2>1, <2>2 DEF LoadedOnce
<1>14. CASE \E r \in registry : RemoveRaising(r)
  <2>1. ~Loading' /\ toLoad' = <<>>
    BY <1>1, <1>14, LoadingStep DEF RemoveRaising, Loading
  <2>2. QED  BY <2>1 DEF LoadedOnce
<1>15. QED
  BY <1>5, <1>6, <1>7, <1>8, <1>9, <1>10, <1>11, <1>12, <1>13, <1>14 DEF RegistryNext

LEMMA ExactStep ==
  ASSUME RegistryInv, [RegistryNext]_registryVars PROVE Exact'
<1>1. /\ RegistryTypes /\ LoadedOnce /\ made \in [Discovered -> SUBSET Registrations]
      /\ loadedPlugins \subseteq Discovered
  BY DEF RegistryInv, RegistryTypes
<1>2. /\ ~Loading => \A r \in Registrations :
                       InForce(r) => (r \in registry <=> MadeByLoaded(r) /\ r \notin raised)
      /\ Loading => \A r \in Registrations :
                       InForce(r) => /\ r \in registering.snapshot <=> MadeByLoaded(r)
                                     /\ r \in registry <=> \/ r \in registering.snapshot
                                                           \/ r \in made[registering.plugin]
  BY DEF RegistryInv, Exact
<1>3. /\ Loading => registering.plugin \notin loadedPlugins
      /\ Loading \/ toLoad # <<>> => rules = 0 /\ raised = {}
  BY <1>1 DEF LoadedOnce
<1>a. UNCHANGED rules => \A r : InForce(r)' <=> InForce(r)  BY DEF InForce
<1>b. UNCHANGED <<loadedPlugins, made>> => \A r : MadeByLoaded(r)' <=> MadeByLoaded(r)
  BY DEF MadeByLoaded
<1>4. ASSUME UNCHANGED <<registry, loadedPlugins, made, rules, raised>>, ~Loading, ~Loading'
      PROVE  Exact'
  BY <1>2, <1>4, <1>a, <1>b DEF Exact
<1>5. CASE UNCHANGED registryVars
  <2>1. UNCHANGED <<registry, registering, loadedPlugins, made, rules, raised>>
    BY <1>5 DEF registryVars
  <2>2. Loading' = Loading  BY <2>1 DEF Loading
  <2>3. QED  BY <1>2, <1>a, <1>b, <2>1, <2>2 DEF Exact
<1>6. CASE LoadUnknown \/ StartRules \/ RefuseRules
  <2>1. UNCHANGED <<registry, loadedPlugins, made, rules, raised>>
    BY <1>6 DEF LoadUnknown, StartRules, RefuseRules
  <2>2. CASE LoadUnknown
    BY <1>1, <1>4, <2>1, <2>2, LoadingStep DEF LoadUnknown, Loading
  <2>3. CASE StartRules
    BY <1>1, <1>4, <2>1, <2>3, LoadingStep DEF StartRules, Loading
  <2>4. CASE RefuseRules
    BY <1>1, <1>4, <2>1, <2>4, LoadingStep DEF RefuseRules, Loading
  <2>5. QED  BY <1>6, <2>2, <2>3, <2>4
<1>7. CASE StartLoad
  <2>1. /\ ~Loading /\ registering'.snapshot = registry /\ registering'.plugin = Head(toLoad)
        /\ Head(toLoad) \in Discovered /\ toLoad # <<>>
        /\ UNCHANGED <<registry, loadedPlugins, made, rules, raised>>
    BY <1>1, <1>7, LoadingStep DEF StartLoad
  <2>2. made[Head(toLoad)] = {}
    BY <1>1, <2>1 DEF LoadedOnce, RegistryTypes
  <2>3. raised = {}  BY <1>3, <2>1
  <2>4. Loading'  BY <1>1, <1>7, <2>1, PluginRegistryAssumption DEF StartLoad, Loading
  <2>5. QED  BY <1>2, <1>a, <1>b, <2>1, <2>2, <2>3, <2>4 DEF Exact
<1>8. CASE EndLoad
  <2>1. /\ ~Loading' /\ Loading /\ loadedPlugins' = loadedPlugins \cup {registering.plugin}
        /\ UNCHANGED <<registry, made, rules, raised>>
    BY <1>1, <1>8, LoadingStep DEF EndLoad
  <2>2. \A r : MadeByLoaded(r)' <=> MadeByLoaded(r) \/ r \in made[registering.plugin]
    BY <2>1 DEF MadeByLoaded
  <2>3. QED  BY <1>2, <1>3, <1>a, <2>1, <2>2 DEF Exact
<1>9. CASE FailLoad
  <2>1. /\ ~Loading' /\ Loading /\ made' = [made EXCEPT ![registering.plugin] = {}]
        /\ registry' = RolledBack
        /\ UNCHANGED <<loadedPlugins, rules, raised>>
    BY <1>1, <1>9, LoadingStep DEF FailLoad
  <2>2. \A p \in loadedPlugins : made'[p] = made[p]  BY <1>1, <1>3, <2>1
  <2>3. \A r : MadeByLoaded(r)' <=> MadeByLoaded(r)  BY <2>1, <2>2 DEF MadeByLoaded
  <2>4. \A r : InForce(r) => (r \in registry' <=> r \in registering.snapshot)
    BY <2>1 DEF RolledBack, InForce
  <2>5. QED  BY <1>2, <1>3, <1>a, <2>1, <2>3, <2>4 DEF Exact
<1>10. ASSUME NEW kind \in Kinds, NEW n \in RegistrationNames, Add(kind, n)
       PROVE  Exact'
  <2>1. PICK r \in Registrations :
           /\ registering'.plugin = registering.plugin /\ ~Free /\ Loading' = Loading
           /\ \/ /\ UNCHANGED <<registry, made>>
                 /\ registering'.snapshot = registering.snapshot
              \/ /\ registering.live /\ UNCHANGED <<registry, made>>
                 /\ registering'.snapshot = registering.snapshot \cup {r}
              \/ /\ ~registering.live /\ registry' = registry \cup {r}
                 /\ made' = [made EXCEPT ![registering.plugin] = @ \cup {r}]
                 /\ registering'.snapshot = registering.snapshot
           /\ UNCHANGED <<loadedPlugins, rules, raised>>
    BY <1>1, <1>10, AddStep
  <2>2. registering.plugin \in Discovered  BY <1>1, <2>1, LoadingStep
  <2>3. CASE UNCHANGED <<registry, made>> /\ registering'.snapshot = registering.snapshot
    BY <1>2, <1>a, <1>b, <2>1, <2>3 DEF Exact
  <2>4. CASE registering.live /\ UNCHANGED <<registry, made>>
    <3>1. ~Loading /\ ~Loading'  BY <2>1, <2>4 DEF Loading
    <3>2. QED  BY <1>4, <2>1, <2>4, <3>1
  <2>5. CASE /\ ~registering.live /\ registry' = registry \cup {r}
             /\ made' = [made EXCEPT ![registering.plugin] = @ \cup {r}]
             /\ registering'.snapshot = registering.snapshot
    <3>1. Loading  BY <1>1, <2>1, <2>5, LoadingStep
    <3>2. \A p \in loadedPlugins : made'[p] = made[p]  BY <1>1, <1>3, <2>5, <3>1
    <3>3. made'[registering.plugin] = made[registering.plugin] \cup {r}
      BY <1>1, <2>2, <2>5
    <3>4. \A q : MadeByLoaded(q)' <=> MadeByLoaded(q)  BY <2>1, <3>2 DEF MadeByLoaded
    <3>5. QED  BY <1>2, <1>a, <2>1, <2>5, <3>1, <3>3, <3>4 DEF Exact
  <2>6. QED  BY <2>1, <2>3, <2>4, <2>5
<1>11. CASE TakeRules
  <2>1. /\ ~Loading' /\ ~Loading /\ registry' = Retained \cup Decorators(registering.snapshot)
        /\ UNCHANGED <<loadedPlugins, made, raised>> /\ rules' = registering.rules
        /\ registering.live
    BY <1>1, <1>11, LoadingStep DEF TakeRules, Loading
  <2>2. rules' # 0  BY <2>1 DEF RegistryInv, RulesKnown
  <2>3. \A r : r.kind # "presentation" => (r \in registry' <=> r \in registry)
    BY <2>1 DEF Retained, Decorators
  <2>4. \A r : InForce(r)' => r.kind # "presentation" /\ InForce(r)
    BY <2>2 DEF InForce
  <2>5. QED  BY <1>2, <1>b, <2>1, <2>3, <2>4 DEF Exact
<1>12. CASE \E r \in registry : RemoveRaising(r)
  <2>1. PICK r \in registry : RemoveRaising(r)  BY <1>12
  <2>2. /\ ~Loading' /\ ~Loading /\ registry' = registry \ {r} /\ raised' = raised \cup {r}
        /\ UNCHANGED <<loadedPlugins, made, rules>>
    BY <1>1, <2>1, LoadingStep DEF RemoveRaising, Loading
  <2>3. QED  BY <1>2, <1>a, <1>b, <2>2 DEF Exact
<1>13. QED
  BY <1>5, <1>6, <1>7, <1>8, <1>9, <1>10, <1>11, <1>12 DEF RegistryNext

LEMMA RulesKnownStep ==
  ASSUME RegistryInv, [RegistryNext]_registryVars PROVE RulesKnown'
<1>1. RegistryTypes  BY DEF RegistryInv
<1>2. /\ \A r \in Decorators(registry) : r.rules = rules
      /\ Loading => /\ registering.rules = rules
                    /\ \A r \in Decorators(registering.snapshot) : r.rules = rules
      /\ registering.live =>
           /\ registering.plugin = Speaker /\ registering.rules # 0 /\ toLoad = <<>>
           /\ \A r \in registering.snapshot : r.rules = registering.rules
  BY DEF RegistryInv, RulesKnown
<1>3. UNCHANGED registry => Decorators(registry)' = Decorators(registry)  BY DEF Decorators
<1>4. ASSUME ~Loading', ~registering'.live, \A r \in Decorators(registry)' : r.rules = rules'
      PROVE  RulesKnown'
  BY <1>4 DEF RulesKnown
<1>5. CASE UNCHANGED registryVars
  BY <1>2, <1>5 DEF registryVars, RulesKnown, Decorators, Loading
<1>6. CASE LoadUnknown
  <2>1. Free /\ UNCHANGED <<registering, registry, rules>>  BY <1>6 DEF LoadUnknown
  <2>2. ~Loading' /\ ~registering'.live  BY <1>1, <2>1, LoadingStep DEF Loading
  <2>3. QED  BY <1>2, <1>3, <1>4, <2>1, <2>2
<1>7. CASE StartLoad
  <2>1. /\ registering'.live = FALSE /\ registering'.rules = rules
        /\ registering'.snapshot = registry /\ UNCHANGED <<registry, rules>>
    BY <1>7 DEF StartLoad
  <2>2. QED  BY <1>2, <2>1 DEF RulesKnown, Decorators
<1>8. CASE EndLoad \/ RefuseRules
  <2>1. ~Loading' /\ ~registering'.live /\ UNCHANGED <<registry, rules>>
    BY <1>1, <1>8, LoadingStep DEF EndLoad, RefuseRules
  <2>2. QED  BY <1>2, <1>3, <1>4, <2>1
<1>9. CASE FailLoad
  <2>1. /\ ~Loading' /\ ~registering'.live /\ registry' = RolledBack /\ Loading
        /\ UNCHANGED rules
    BY <1>1, <1>9, LoadingStep DEF FailLoad
  <2>2. Decorators(registry)' \subseteq Decorators(registering.snapshot)
    BY <2>1 DEF RolledBack, Decorators
  <2>3. QED  BY <1>2, <1>4, <2>1, <2>2
<1>10. ASSUME NEW kind \in Kinds, NEW n \in RegistrationNames, Add(kind, n)
       PROVE  RulesKnown'
  <2>1. PICK r \in Registrations :
           /\ r.plugin = registering.plugin
           /\ r.rules = (IF registering.plugin = Speaker THEN registering.rules ELSE 0)
           /\ registering'.plugin = registering.plugin /\ registering'.live = registering.live
           /\ registering'.rules = registering.rules /\ ~Free /\ Loading' = Loading
           /\ \/ /\ UNCHANGED registry
                 /\ registering'.snapshot = registering.snapshot
              \/ /\ registering.live /\ UNCHANGED registry
                 /\ registering'.snapshot = registering.snapshot \cup {r}
              \/ /\ ~registering.live /\ registry' = registry \cup {r}
                 /\ registering'.snapshot = registering.snapshot
           /\ UNCHANGED <<toLoad, rules>>
    BY <1>1, <1>10, AddStep
  <2>2. CASE UNCHANGED registry /\ registering'.snapshot = registering.snapshot
    BY <1>2, <2>1, <2>2 DEF RulesKnown, Decorators
  <2>3. CASE registering.live /\ UNCHANGED registry /\ registering'.snapshot = registering.snapshot \cup {r}
    <3>1. ~Loading'  BY <2>1, <2>3 DEF Loading
    <3>2. r.rules = registering.rules  BY <1>2, <2>1, <2>3
    <3>3. QED  BY <1>2, <1>3, <2>1, <2>3, <3>1, <3>2 DEF RulesKnown
  <2>4. CASE /\ ~registering.live /\ registry' = registry \cup {r}
             /\ registering'.snapshot = registering.snapshot
    <3>1. Loading  BY <1>1, <2>1, <2>4, LoadingStep
    <3>2. r \in Decorators({r}) => r.rules = rules  BY <1>2, <2>1, <3>1 DEF Decorators
    <3>3. \A q \in Decorators(registry)' : q.rules = rules
      BY <1>2, <2>4, <3>2 DEF Decorators
    <3>4. QED  BY <1>2, <2>1, <2>4, <3>1, <3>3 DEF RulesKnown, Decorators
  <2>5. QED  BY <2>1, <2>2, <2>3, <2>4
<1>11. CASE StartRules
  <2>1. /\ registering'.live = TRUE /\ registering'.plugin = Speaker /\ toLoad' = <<>>
        /\ registering'.snapshot = {} /\ registering'.rules = lastRules + 1
        /\ UNCHANGED <<registry, rules>>
    BY <1>11 DEF StartRules
  <2>2. lastRules + 1 # 0  BY <1>1, PluginRegistryAssumption DEF RegistryTypes
  <2>3. ~Loading'  BY <2>1 DEF Loading
  <2>4. QED  BY <1>2, <1>3, <2>1, <2>2, <2>3 DEF RulesKnown
<1>12. CASE TakeRules
  <2>1. /\ ~Loading' /\ ~registering'.live /\ registering.live
        /\ registry' = Retained \cup Decorators(registering.snapshot)
        /\ rules' = registering.rules
    BY <1>1, <1>12, LoadingStep DEF TakeRules
  <2>2. Decorators(registry)' \subseteq registering.snapshot
    BY <2>1 DEF Retained, Decorators
  <2>3. QED  BY <1>2, <1>4, <2>1, <2>2
<1>13. CASE \E r \in registry : RemoveRaising(r)
  <2>1. PICK r \in registry : RemoveRaising(r)  BY <1>13
  <2>2. /\ Free /\ UNCHANGED <<registering, rules>> /\ registry' = registry \ {r}
    BY <2>1 DEF RemoveRaising
  <2>3. ~Loading' /\ ~registering'.live  BY <1>1, <2>2, LoadingStep DEF Loading
  <2>4. Decorators(registry)' \subseteq Decorators(registry)  BY <2>2 DEF Decorators
  <2>5. QED  BY <1>2, <1>4, <2>2, <2>3, <2>4
<1>14. QED
  BY <1>5, <1>6, <1>7, <1>8, <1>9, <1>10, <1>11, <1>12, <1>13 DEF RegistryNext

\* After any loads, failures, changes of rules and callbacks that raised, the registry is what
\* the loaded plugins registered, and its decorators are those of the rules (plugins.py load,
\* reconfigure_speaker_effects).
THEOREM RegistryHoldsTheLoaded == RegistrySpec => []RegistrySound
<1>1. RegistryInit => RegistryInv
  <2> SUFFICES ASSUME RegistryInit PROVE RegistryInv
    OBVIOUS
  <2>1. /\ registry = {} /\ toLoad = Enabled /\ registering = NotRegistering
        /\ loadedPlugins = {} /\ rules = 0 /\ lastRules = 0
        /\ made = [p \in Discovered |-> {}] /\ raised = {}
    BY DEF RegistryInit
  <2>2. /\ NotRegistering.plugin = "none" /\ NotRegistering.snapshot = {}
        /\ NotRegistering.live = FALSE /\ ~Loading
    BY <2>1 DEF NotRegistering, Loading
  <2>3. /\ Enabled \in Seq(PluginNames) /\ MaxRules \in Nat
        /\ \A i, j \in DOMAIN Enabled : Enabled[i] = Enabled[j] => i = j
    BY PluginRegistryAssumption DEF PluginNames
  <2>4. DOMAIN Enabled = 1..Len(Enabled)  BY <2>3
  <2>5. RegistryTypes
    BY <2>1, <2>3 DEF RegistryTypes, NotRegistering
  <2>6. LoadedOnce  BY <2>1, <2>2, <2>3, <2>4 DEF LoadedOnce
  <2>7. Exact /\ RulesKnown
    BY <2>1, <2>2 DEF Exact, RulesKnown, MadeByLoaded, Decorators
  <2>8. QED  BY <2>5, <2>6, <2>7 DEF RegistryInv
<1>2. RegistryInv /\ [RegistryNext]_registryVars => RegistryInv'
  BY RegistryTypesStep, LoadedOnceStep, ExactStep, RulesKnownStep DEF RegistryInv
<1>3. RegistryInv => RegistrySound
  <2> SUFFICES ASSUME RegistryInv PROVE RegistrySound
    OBVIOUS
  <2>1. ASSUME Free PROVE
          {r \in registry : r.kind # "settings" /\ (rules = 0 \/ r.kind # "presentation")}
            = {r \in UNION {made[p] : p \in loadedPlugins} :
                   r.kind # "settings" /\ (rules = 0 \/ r.kind # "presentation")} \ raised
    <3>1. ~Loading  BY <2>1, LoadingStep DEF RegistryInv
    <3>2. \A r \in Registrations :
             InForce(r) => (r \in registry <=> MadeByLoaded(r) /\ r \notin raised)
      BY <3>1 DEF RegistryInv, Exact
    <3>3. /\ registry \subseteq Registrations /\ loadedPlugins \subseteq Discovered
          /\ \A p \in loadedPlugins : made[p] \subseteq Registrations
      BY DEF RegistryInv, RegistryTypes
    <3>4. \A r : r \in UNION {made[p] : p \in loadedPlugins} <=> MadeByLoaded(r)
      BY DEF MadeByLoaded
    <3>5. \A r : MadeByLoaded(r) => r \in Registrations  BY <3>3 DEF MadeByLoaded
    <3>6. QED  BY <3>2, <3>3, <3>4, <3>5 DEF InForce
  <2>2. RegistryExact  BY <2>1 DEF RegistryExact
  <2>3. RulesAgree  BY DEF RegistryInv, RulesKnown, RulesAgree
  <2>4. QED  BY <2>2, <2>3 DEF RegistrySound
<1>4. QED  BY <1>1, <1>2, <1>3, PTL DEF RegistrySpec

-----------------------------------------------------------------------------
(* What the handlers of lifecycle events are told: PluginLifecycle.        *)

LifecycleEntries ==
    [kind : {"activity", "session_state", "world_connected", "world_disconnected"},
     world : PluginWorlds, waiter : Publishers \cup {"none"}, activation : Nat]
    \cup [kind : {"boss_activated"}, world : {NoWorld}, waiter : {"none"}, activation : Nat]
PublisherStates ==
    [step : {"idle", "free", "state", "edge"}, world : PluginWorlds \cup {NoWorld},
     value : BOOLEAN, todo : SUBSET PluginWorlds]

LifecycleTypes ==
    /\ worldsUp \subseteq PluginWorlds /\ connected \subseteq PluginWorlds
    /\ told \subseteq PluginWorlds /\ torn \subseteq PluginWorlds
    /\ seed \in Nat /\ entries \in Seq(LifecycleEntries)
    /\ woken \in Seq(Publishers)
    /\ delivering \in LifecycleEntries \cup {NoEntry}
    /\ publisher \in [Publishers -> PublisherStates]
    /\ publisher["pump"].todo = {} /\ publisher["pump"].step # "free"
    /\ \A p \in Publishers : publisher[p].step \in {"state", "edge"} =>
           publisher[p].world \in PluginWorlds

\* Every key of merged activity has one entry in the queue, and each inbound event that was
\* not handed out is counted in one of them.
KeyOf(e) == <<e.world, e.activation>>
Tokens == UNION {{k} \X (1..merged[k]) : k \in DOMAIN merged}

ActivityCounted ==
    /\ \A k \in DOMAIN merged : /\ merged[k] \in Nat \ {0}
                                /\ \E i \in 1..Len(entries) :
                                      entries[i].kind = "activity" /\ KeyOf(entries[i]) = k
    /\ \A i \in 1..Len(entries) :
           entries[i].kind = "activity" => KeyOf(entries[i]) \in DOMAIN merged
    /\ \A i, j \in 1..Len(entries) :
           entries[i].kind = "activity" /\ entries[j].kind = "activity"
             /\ KeyOf(entries[i]) = KeyOf(entries[j]) => i = j
    /\ seen \in Nat /\ heard \in Nat
    /\ IsFiniteSet(Tokens) /\ heard + Cardinality(Tokens) = seen

\* Where the entry that a publisher waits for is: delivered, being delivered or in the queue.
InWoken(p) == \E i \in 1..Len(woken) : woken[i] = p
InDelivery(p) == delivering.waiter = p
InEntries(p) == \E i \in 1..Len(entries) : entries[i].waiter = p
Waits(p) == publisher[p].step \in {"state", "edge"}

OneEntryEach ==
    /\ \A i, j \in 1..Len(woken) : woken[i] = woken[j] => i = j
    /\ \A i, j \in 1..Len(entries) :
           entries[i].waiter = entries[j].waiter /\ entries[i].waiter # "none" => i = j
    /\ \A p \in Publishers :
         /\ ~(InWoken(p) /\ InDelivery(p)) /\ ~(InWoken(p) /\ InEntries(p))
         /\ ~(InDelivery(p) /\ InEntries(p))
         /\ Waits(p) <=> InWoken(p) \/ InDelivery(p) \/ InEntries(p)

\* The last edge of a world that is still in the queue, or else the last one that was told, is
\* that of the connected worlds.
Edge(e, w) == e.kind \in {"world_connected", "world_disconnected"} /\ e.world = w
EdgesTell ==
    \A w \in PluginWorlds :
      /\ (\A i \in 1..Len(entries) : ~Edge(entries[i], w)) => (w \in told <=> w \in connected)
      /\ \A i \in 1..Len(entries) :
             Edge(entries[i], w) /\ (\A j \in 1..Len(entries) : i < j => ~Edge(entries[j], w))
               => (entries[i].kind = "world_connected" <=> w \in connected)

\* The reconciliation goes on before the pump does.
ReconciliationFirst ==
    LET rec == "reconciliation" IN
    /\ \A j \in 1..Len(woken) : woken[j] = "pump" => \E i \in 1..Len(woken) : i < j /\ woken[i] = rec
    /\ InDelivery("pump") => InWoken(rec)
    /\ \A j \in 1..Len(entries) : entries[j].waiter = "pump" =>
          \/ InWoken(rec) \/ InDelivery(rec)
          \/ \E i \in 1..Len(entries) : i < j /\ entries[i].waiter = rec

\* p is going to compare the state of w that it read with the connected worlds.
Compares(p, w) == publisher[p].step = "state" /\ publisher[p].world = w

\* A comparison with a state that is out of date is followed by one that is not.
WorldsFollowed ==
    /\ \A w \in PluginWorlds :
         /\ Compares("pump", w) => (publisher["pump"].value <=> w \in worldsUp)
         /\ w \notin torn /\ (\A p \in Publishers : ~Compares(p, w)) =>
                (w \in connected <=> w \in worldsUp)
         /\ w \notin torn /\ Compares("reconciliation", w) =>
                \/ publisher["reconciliation"].value <=> w \in worldsUp
                \/ Compares("pump", w) /\ ReconciliationFirst

LifecycleInv ==
    LifecycleTypes /\ ActivityCounted /\ OneEntryEach /\ EdgesTell /\ WorldsFollowed

\* How the queue of entries changes.
LEMMA EntryAppended ==
  ASSUME entries \in Seq(LifecycleEntries), NEW e \in LifecycleEntries,
         entries' = Append(entries, e)
  PROVE  /\ entries' \in Seq(LifecycleEntries)
         /\ Len(entries) \in Nat /\ Len(entries') = Len(entries) + 1
         /\ \A i \in 1..Len(entries) : entries'[i] = entries[i] /\ i \in 1..Len(entries')
         /\ entries'[Len(entries) + 1] = e /\ Len(entries) + 1 \in 1..Len(entries')
         /\ \A i \in 1..Len(entries') : i \in 1..Len(entries) \/ i = Len(entries) + 1
<1>1. /\ entries' \in Seq(LifecycleEntries)
      /\ Len(entries) \in Nat /\ Len(entries') = Len(entries) + 1
      /\ \A i \in 1..Len(entries) : entries'[i] = entries[i]
      /\ entries'[Len(entries) + 1] = e
  OBVIOUS
<1>2. QED  BY <1>1

LEMMA EntryTaken ==
  ASSUME entries \in Seq(LifecycleEntries), entries # <<>>, entries' = Tail(entries)
  PROVE  /\ entries' \in Seq(LifecycleEntries)
         /\ Head(entries) = entries[1] /\ entries[1] \in LifecycleEntries
         /\ 1 \in 1..Len(entries) /\ Len(entries) \in Nat /\ Len(entries') = Len(entries) - 1
         /\ \A i \in 1..Len(entries') : /\ i + 1 \in 1..Len(entries) /\ entries'[i] = entries[i + 1]
                                        /\ i \in Nat /\ i + 1 # 1
         /\ \A i \in 1..Len(entries) : i # 1 => i - 1 \in 1..Len(entries') /\ (i - 1) + 1 = i
<1>1. /\ entries' \in Seq(LifecycleEntries)
      /\ Head(entries) = entries[1] /\ entries[1] \in LifecycleEntries
      /\ Len(entries) \in Nat /\ Len(entries') = Len(entries) - 1 /\ Len(entries) # 0
      /\ \A i \in 1..Len(entries') : entries'[i] = entries[i + 1]
  OBVIOUS
<1>2. QED  BY <1>1

LEMMA AbandonedEntry ==
  ASSUME NEW e \in LifecycleEntries
  PROVE  /\ Abandoned(e) \in LifecycleEntries
         /\ Abandoned(e).kind = e.kind /\ Abandoned(e).world = e.world
         /\ Abandoned(e).activation = e.activation
         /\ Abandoned(e).waiter # "pump"
         /\ e.waiter # "pump" => Abandoned(e).waiter = e.waiter
         /\ e.waiter = "pump" => Abandoned(e).waiter = "none"
BY DEF Abandoned, LifecycleEntries

LEMMA EntriesAbandoned ==
  ASSUME entries \in Seq(LifecycleEntries),
         entries' = [i \in DOMAIN entries |-> Abandoned(entries[i])]
  PROVE  /\ entries' \in Seq(LifecycleEntries) /\ Len(entries') = Len(entries)
         /\ Len(entries) \in Nat
         /\ \A i \in 1..Len(entries) :
              /\ entries'[i] = Abandoned(entries[i]) /\ entries[i] \in LifecycleEntries
              /\ entries'[i].kind = entries[i].kind /\ entries'[i].world = entries[i].world
              /\ entries'[i].activation = entries[i].activation
<1>1. /\ DOMAIN entries = 1..Len(entries) /\ Len(entries) \in Nat
      /\ \A i \in 1..Len(entries) : entries[i] \in LifecycleEntries
  OBVIOUS
<1>2. \A i \in 1..Len(entries) : Abandoned(entries[i]) \in LifecycleEntries
  BY <1>1, AbandonedEntry
<1>3. entries' \in [1..Len(entries) -> LifecycleEntries]  BY <1>1, <1>2
<1>4. entries' \in Seq(LifecycleEntries) /\ Len(entries') = Len(entries)
  BY <1>1, <1>3
<1>5. QED  BY <1>1, <1>4, AbandonedEntry

LEMMA WakenTail ==
  ASSUME woken \in Seq(Publishers), woken # <<>>, woken' = Tail(woken)
  PROVE  /\ woken' \in Seq(Publishers) /\ Head(woken) = woken[1]
         /\ 1 \in 1..Len(woken) /\ Len(woken) \in Nat /\ Len(woken') = Len(woken) - 1
         /\ \A i \in 1..Len(woken') : i + 1 \in 1..Len(woken) /\ woken'[i] = woken[i + 1]
                                      /\ i \in Nat /\ i + 1 # 1
         /\ \A i \in 1..Len(woken) : i # 1 => i - 1 \in 1..Len(woken') /\ (i - 1) + 1 = i
<1>1. /\ woken' \in Seq(Publishers)
      /\ Head(woken) = woken[1]
      /\ Len(woken) \in Nat /\ Len(woken') = Len(woken) - 1 /\ Len(woken) # 0
      /\ \A i \in 1..Len(woken') : woken'[i] = woken[i + 1]
  OBVIOUS
<1>2. QED  BY <1>1

LEMMA WakenAppend ==
  ASSUME woken \in Seq(Publishers), NEW p \in Publishers, woken' = Append(woken, p)
  PROVE  /\ woken' \in Seq(Publishers) /\ Len(woken) \in Nat /\ Len(woken') = Len(woken) + 1
         /\ \A i \in 1..Len(woken) : woken'[i] = woken[i] /\ i \in 1..Len(woken')
         /\ woken'[Len(woken) + 1] = p /\ Len(woken) + 1 \in 1..Len(woken')
         /\ \A i \in 1..Len(woken') : i \in 1..Len(woken) \/ i = Len(woken) + 1
<1>1. /\ woken' \in Seq(Publishers)
      /\ Len(woken) \in Nat /\ Len(woken') = Len(woken) + 1
      /\ \A i \in 1..Len(woken) : woken'[i] = woken[i]
      /\ woken'[Len(woken) + 1] = p
  OBVIOUS
<1>2. QED  BY <1>1

\* What a publisher goes on to when its entry was delivered.
LEMMA ResumeStep ==
  ASSUME LifecycleTypes, NEW p \in Publishers, ResumePublisher(p)
  PROVE  /\ woken # <<>> /\ woken[1] = p /\ woken' = Tail(woken)
         /\ publisher[p].step = "state" => publisher[p].world \in PluginWorlds
         /\ publisher' \in [Publishers -> PublisherStates] /\ publisher'["pump"].todo = {}
         /\ publisher'["pump"].step # "free"
         /\ \A q \in Publishers : q # p => publisher'[q] = publisher[q]
         /\ \A q \in Publishers : publisher'[q].step \in {"state", "edge"} =>
                publisher'[q].world \in PluginWorlds
         /\ publisher'[p].step # "state"
         /\ \/ /\ publisher[p].step = "state"
               /\ publisher[p].value <=> publisher[p].world \notin connected
               /\ connected' = IF publisher[p].value THEN connected \cup {publisher[p].world}
                               ELSE connected \ {publisher[p].world}
               /\ entries' = Append(entries,
                               Entry(IF publisher[p].value THEN "world_connected"
                                     ELSE "world_disconnected", publisher[p].world, p))
               /\ publisher'[p].step = "edge"
            \/ /\ publisher[p].step = "state" =>
                      (publisher[p].value <=> publisher[p].world \in connected)
               /\ UNCHANGED <<connected, entries>>
               /\ publisher'[p].step \notin {"state", "edge"}
         /\ UNCHANGED <<worldsUp, merged, delivering, seed, told, seen, heard, torn>>
<1> DEFINE w == publisher[p].world
           edge == publisher[p].value # (w \in connected)
<1>1. /\ publisher \in [Publishers -> PublisherStates] /\ publisher["pump"].todo = {}
      /\ publisher["pump"].step # "free"
      /\ \A q \in Publishers : publisher[q].step \in {"state", "edge"} =>
             publisher[q].world \in PluginWorlds
      /\ woken \in Seq(Publishers) /\ publisher[p] \in PublisherStates
      /\ "pump" \in Publishers
  BY DEF LifecycleTypes, Publishers
<1>2. publisher[p].value \in BOOLEAN /\ publisher[p].step \in {"idle", "free", "state", "edge"}
  BY <1>1 DEF PublisherStates
<1>3. /\ woken # <<>> /\ woken[1] = p /\ woken' = Tail(woken)
      /\ UNCHANGED <<worldsUp, merged, delivering, seed, told, seen, heard, torn>>
  BY <1>1 DEF ResumePublisher, dispatchVars, bossVars
<1>4. edge <=> (publisher[p].value <=> w \notin connected)
  <2>1. CASE w \in connected
    <3>1. (w \in connected) = TRUE  BY <2>1
    <3>2. QED  BY <1>2, <2>1, <3>1
  <2>2. CASE w \notin connected
    <3>1. (w \in connected) = FALSE  BY <2>2
    <3>2. QED  BY <1>2, <2>2, <3>1
  <2>3. QED  BY <2>1, <2>2
<1>5. CASE publisher[p].step = "state" /\ edge
  <2>1. /\ connected' = IF publisher[p].value THEN connected \cup {w} ELSE connected \ {w}
        /\ entries' = Append(entries, Entry(IF publisher[p].value THEN "world_connected"
                                            ELSE "world_disconnected", w, p))
        /\ publisher' = [publisher EXCEPT ![p].step = "edge"]
    BY <1>5 DEF ResumePublisher, Say
  <2>2. [publisher[p] EXCEPT !.step = "edge"] \in PublisherStates
    BY <1>1 DEF PublisherStates
  <2>3. /\ publisher' \in [Publishers -> PublisherStates]
        /\ \A q \in Publishers : q # p => publisher'[q] = publisher[q]
        /\ publisher'[p] = [publisher[p] EXCEPT !.step = "edge"]
    BY <1>1, <2>1, <2>2
  <2>4. publisher'[p].step = "edge" /\ publisher'[p].world = w /\ publisher'[p].todo = publisher[p].todo
    BY <1>1, <2>3 DEF PublisherStates
  <2>5. publisher'["pump"].todo = {} /\ publisher'["pump"].step # "free"  BY <1>1, <2>3, <2>4
  <2>6. QED  BY <1>1, <1>3, <1>4, <1>5, <2>1, <2>3, <2>4, <2>5
<1>6. CASE ~(publisher[p].step = "state" /\ edge)
  <2>1. UNCHANGED <<connected, entries>> /\ publisher' = [publisher EXCEPT ![p] = Return(p)]
    BY <1>6 DEF ResumePublisher
  <2>2. /\ AtRest \in PublisherStates /\ AtRest.step = "idle" /\ AtRest.todo = {}
        /\ [publisher[p] EXCEPT !.step = "free"] \in PublisherStates
        /\ [publisher[p] EXCEPT !.step = "free"].step = "free"
        /\ [publisher[p] EXCEPT !.step = "free"].todo = publisher[p].todo
    BY <1>1 DEF PublisherStates, AtRest
  <2>3. /\ Return(p) \in PublisherStates /\ Return(p).step \in {"idle", "free"}
        /\ p = "pump" => Return(p).todo = {} /\ Return(p).step # "free"
    BY <1>1, <2>2 DEF Return
  <2>4. /\ publisher' \in [Publishers -> PublisherStates]
        /\ \A q \in Publishers : q # p => publisher'[q] = publisher[q]
        /\ publisher'[p] = Return(p)
    BY <1>1, <2>1, <2>3
  <2>5. publisher'["pump"].todo = {} /\ publisher'["pump"].step # "free"  BY <1>1, <2>3, <2>4
  <2>6. publisher[p].step = "state" => (publisher[p].value <=> w \in connected)
    BY <1>2, <1>4, <1>6
  <2>7. QED  BY <1>1, <1>3, <2>1, <2>3, <2>4, <2>5, <2>6
<1>7. QED  BY <1>5, <1>6

\* Every step leaves the queue of entries, adds one, takes the first or cancels the pump.
LEMMA EntriesStep ==
  ASSUME LifecycleTypes, PluginLifecycleNext
  PROVE  \/ UNCHANGED entries
         \/ \E e \in LifecycleEntries : entries' = Append(entries, e)
         \/ Deliver
         \/ CancelPump
<1>1. Activation \in Nat /\ seed + 1 \in Nat  BY DEF LifecycleTypes, Activation
<1>2. ASSUME NEW kind \in {"activity", "session_state", "world_connected", "world_disconnected"},
             NEW w \in PluginWorlds, NEW p \in Publishers \cup {"none"}
      PROVE  Entry(kind, w, p) \in LifecycleEntries
  BY <1>1 DEF Entry, LifecycleEntries
<1>3. ASSUME NEW w \in PluginWorlds, Inbound(w) \/ Change(w) \/ Reconcile(w)
      PROVE  UNCHANGED entries \/ \E e \in LifecycleEntries : entries' = Append(entries, e)
  <2>1. \/ UNCHANGED entries
        \/ entries' = Append(entries, Entry("activity", w, "none"))
        \/ entries' = Append(entries, Entry("session_state", w, "pump"))
        \/ entries' = Append(entries, Entry("session_state", w, "reconciliation"))
    BY <1>3 DEF Inbound, Change, Reconcile, Say
  <2>2. QED  BY <1>2, <2>1 DEF Publishers
<1>4. ASSUME NEW p \in Publishers, ResumePublisher(p)
      PROVE  UNCHANGED entries \/ \E e \in LifecycleEntries : entries' = Append(entries, e)
  <2>1. \/ UNCHANGED entries
        \/ /\ publisher[p].world \in PluginWorlds
           /\ \/ entries' = Append(entries, Entry("world_connected", publisher[p].world, p))
              \/ entries' = Append(entries, Entry("world_disconnected", publisher[p].world, p))
    BY <1>4, ResumeStep
  <2>2. QED  BY <1>2, <2>1
<1>5. CASE ActivateBoss
  <2>1. [kind |-> "boss_activated", world |-> NoWorld, waiter |-> "none",
         activation |-> seed + 1] \in LifecycleEntries
    BY <1>1 DEF LifecycleEntries
  <2>2. QED  BY <1>5, <2>1 DEF ActivateBoss
<1>6. CASE StartReconciliation \/ EndDelivery \/ DismissBoss \/ \E h \in Handlers : Handle(h)
  BY <1>6 DEF StartReconciliation, EndDelivery, DismissBoss, Handle, queueVars
<1>7. QED  BY <1>3, <1>4, <1>5, <1>6 DEF PluginLifecycleNext

LEMMA LifecycleTypesStep ==
  ASSUME LifecycleTypes, [PluginLifecycleNext]_lifecycleVars PROVE LifecycleTypes'
<1>1. /\ worldsUp \subseteq PluginWorlds /\ connected \subseteq PluginWorlds
      /\ told \subseteq PluginWorlds /\ torn \subseteq PluginWorlds
      /\ seed \in Nat /\ entries \in Seq(LifecycleEntries) /\ woken \in Seq(Publishers)
      /\ delivering \in LifecycleEntries \cup {NoEntry}
      /\ publisher \in [Publishers -> PublisherStates]
      /\ publisher["pump"].todo = {} /\ publisher["pump"].step # "free"
      /\ \A p \in Publishers : publisher[p].step \in {"state", "edge"} =>
             publisher[p].world \in PluginWorlds
      /\ "pump" \in Publishers /\ "reconciliation" \in Publishers
  BY DEF LifecycleTypes, Publishers
<1>2. CASE UNCHANGED lifecycleVars
  BY <1>2 DEF LifecycleTypes, lifecycleVars, queueVars, dispatchVars, bossVars
<1>3. ASSUME PluginLifecycleNext PROVE entries' \in Seq(LifecycleEntries)
  <2>1. ASSUME NEW e \in LifecycleEntries, entries' = Append(entries, e)
        PROVE  entries' \in Seq(LifecycleEntries)
    BY <1>1, <2>1
  <2>2. CASE Deliver  BY <1>1, <2>2 DEF Deliver
  <2>3. CASE CancelPump  BY <1>1, <2>3, EntriesAbandoned DEF CancelPump
  <2>4. QED  BY <1>1, <1>3, <2>1, <2>2, <2>3, EntriesStep
<1>4. ASSUME NEW w \in PluginWorlds, Inbound(w) PROVE LifecycleTypes'
  <2>1. UNCHANGED <<worldsUp, publisher, delivering, connected, seed, told, torn, woken>>
    BY <1>4 DEF Inbound, dispatchVars, bossVars
  <2>2. entries' \in Seq(LifecycleEntries)  BY <1>3, <1>4 DEF PluginLifecycleNext
  <2>3. QED  BY <1>1, <2>1, <2>2 DEF LifecycleTypes
<1>5. ASSUME NEW w \in PluginWorlds, Change(w) PROVE LifecycleTypes'
  <2>1. /\ UNCHANGED <<delivering, connected, seed, told, torn, woken>>
        /\ worldsUp' \subseteq PluginWorlds
        /\ publisher' = [publisher EXCEPT !["pump"] =
                        [step |-> "state", world |-> w, value |-> w \notin worldsUp, todo |-> {}]]
    BY <1>1, <1>5 DEF Change, dispatchVars, bossVars
  <2>2. [step |-> "state", world |-> w, value |-> w \notin worldsUp, todo |-> {}] \in PublisherStates
    BY DEF PublisherStates
  <2>3. entries' \in Seq(LifecycleEntries)  BY <1>3, <1>5 DEF PluginLifecycleNext
  <2>4. QED  BY <1>1, <2>1, <2>2, <2>3 DEF LifecycleTypes
<1>6. ASSUME NEW w \in PluginWorlds, Reconcile(w) PROVE LifecycleTypes'
  <2> DEFINE r == publisher["reconciliation"]
             s == [step |-> "state", world |-> w, value |-> w \in worldsUp, todo |-> r.todo \ {w}]
  <2>1. /\ UNCHANGED <<worldsUp, delivering, connected, seed, told, woken>>
        /\ torn' \subseteq PluginWorlds
        /\ publisher' = [publisher EXCEPT !["reconciliation"] = s]
    BY <1>1, <1>6 DEF Reconcile, dispatchVars, bossVars
  <2>2. s \in PublisherStates  BY <1>1 DEF PublisherStates
  <2>3. entries' \in Seq(LifecycleEntries)  BY <1>3, <1>6 DEF PluginLifecycleNext
  <2>4. s.world = w  OBVIOUS
  <2> HIDE DEF s
  <2>5. QED  BY <1>1, <2>1, <2>2, <2>3, <2>4 DEF LifecycleTypes
<1>7. CASE CancelPump
  <2>1. /\ UNCHANGED <<worldsUp, connected, seed, told>>
        /\ publisher' = [publisher EXCEPT !["pump"] = AtRest]
        /\ delivering' = Abandoned(delivering)
        /\ torn' = IF publisher["pump"].step = "edge" THEN torn
                   ELSE torn \cup {publisher["pump"].world}
        /\ publisher["pump"].step # "idle"
        /\ woken' \in {<<"reconciliation">>, <<>>}
    BY <1>7 DEF CancelPump, bossVars
  <2>2. AtRest \in PublisherStates /\ AtRest.todo = {} /\ AtRest.step = "idle"
    BY DEF AtRest, PublisherStates
  <2>3. delivering' \in LifecycleEntries \cup {NoEntry}
    <3>1. Abandoned(NoEntry) = NoEntry  BY DEF Abandoned, NoEntry
    <3>2. QED  BY <1>1, <2>1, <3>1, AbandonedEntry
  <2>4. torn' \subseteq PluginWorlds
    BY <1>1, <1>7, <2>1 DEF PublisherStates
  <2>5. woken' \in Seq(Publishers)
    <3>1. <<"reconciliation">> \in Seq(Publishers) /\ <<>> \in Seq(Publishers)  BY <1>1
    <3>2. QED  BY <2>1, <3>1
  <2>6. entries' \in Seq(LifecycleEntries)  BY <1>3, <1>7 DEF PluginLifecycleNext
  <2>7. QED  BY <1>1, <2>1, <2>2, <2>3, <2>4, <2>5, <2>6 DEF LifecycleTypes
<1>8. CASE StartReconciliation
  <2>1. /\ UNCHANGED <<worldsUp, delivering, connected, seed, told, torn, woken>>
        /\ publisher' = [publisher EXCEPT !["reconciliation"] =
                           [AtRest EXCEPT !.step = "free", !.todo = PluginWorlds]]
    BY <1>8 DEF StartReconciliation, dispatchVars, bossVars
  <2>2. /\ [AtRest EXCEPT !.step = "free", !.todo = PluginWorlds] \in PublisherStates
        /\ [AtRest EXCEPT !.step = "free", !.todo = PluginWorlds].step = "free"
    BY DEF AtRest, PublisherStates
  <2>3. entries' \in Seq(LifecycleEntries)  BY <1>3, <1>8 DEF PluginLifecycleNext
  <2>4. QED  BY <1>1, <2>1, <2>2, <2>3 DEF LifecycleTypes
<1>9. ASSUME NEW p \in Publishers, ResumePublisher(p) PROVE LifecycleTypes'
  <2>1. /\ publisher' \in [Publishers -> PublisherStates] /\ publisher'["pump"].todo = {}
        /\ publisher'["pump"].step # "free"
        /\ \A q \in Publishers : publisher'[q].step \in {"state", "edge"} =>
                publisher'[q].world \in PluginWorlds
        /\ UNCHANGED <<worldsUp, delivering, seed, told, torn>>
    BY <1>9, ResumeStep
  <2>2. connected' \subseteq PluginWorlds
    <3>1. /\ publisher[p].step = "state" => publisher[p].world \in PluginWorlds
          /\ \/ UNCHANGED connected
             \/ /\ publisher[p].step = "state"
                /\ \/ connected' = connected \cup {publisher[p].world}
                   \/ connected' = connected \ {publisher[p].world}
      BY <1>9, ResumeStep
    <3>2. QED  BY <1>1, <3>1
  <2>3. woken' \in Seq(Publishers)  BY <1>1, <1>9, ResumeStep, WakenTail
  <2>4. entries' \in Seq(LifecycleEntries)  BY <1>3, <1>9 DEF PluginLifecycleNext
  <2>5. QED  BY <1>1, <2>1, <2>2, <2>3, <2>4 DEF LifecycleTypes
<1>10. CASE Deliver
  <2>1. /\ delivering' = Head(entries) /\ entries # <<>> /\ entries' = Tail(entries)
        /\ UNCHANGED <<worldsUp, publisher, connected, seed, torn, woken>>
        /\ told' = CASE Head(entries).kind = "world_connected" -> told \cup {Head(entries).world}
                     [] Head(entries).kind = "world_disconnected" -> told \ {Head(entries).world}
                     [] OTHER -> told
    BY <1>10 DEF Deliver
  <2>2. Head(entries) \in LifecycleEntries  BY <1>1, <2>1
  <2>3. Head(entries).kind = "world_connected" => Head(entries).world \in PluginWorlds
    BY <2>2 DEF LifecycleEntries
  <2>4. told' \subseteq PluginWorlds  BY <1>1, <2>1, <2>3
  <2>5. entries' \in Seq(LifecycleEntries)  BY <1>3, <1>10 DEF PluginLifecycleNext
  <2>6. QED  BY <1>1, <2>1, <2>2, <2>4, <2>5 DEF LifecycleTypes
<1>11. CASE EndDelivery
  <2>1. /\ UNCHANGED <<worldsUp, publisher, connected, seed, told, torn>>
        /\ delivering' = NoEntry /\ delivering # NoEntry
        /\ woken' = IF delivering.waiter = "none" THEN woken ELSE Append(woken, delivering.waiter)
    BY <1>11 DEF EndDelivery, bossVars
  <2>2. delivering.waiter # "none" => delivering.waiter \in Publishers
    BY <1>1, <2>1 DEF LifecycleEntries
  <2>3. woken' \in Seq(Publishers)  BY <1>1, <2>1, <2>2
  <2>4. entries' \in Seq(LifecycleEntries)  BY <1>3, <1>11 DEF PluginLifecycleNext
  <2>5. QED  BY <1>1, <2>1, <2>3, <2>4 DEF LifecycleTypes
<1>12. CASE ActivateBoss
  <2>1. UNCHANGED <<worldsUp, publisher, delivering, connected, told, torn, woken>>
        /\ seed' = seed + 1
    BY <1>12 DEF ActivateBoss, dispatchVars
  <2>2. entries' \in Seq(LifecycleEntries)  BY <1>3, <1>12 DEF PluginLifecycleNext
  <2>3. QED  BY <1>1, <2>1, <2>2 DEF LifecycleTypes
<1>13. CASE DismissBoss \/ \E h \in Handlers : Handle(h)
  <2>1. UNCHANGED <<worldsUp, publisher, delivering, connected, seed, told, torn, woken, entries>>
    BY <1>13 DEF DismissBoss, Handle, dispatchVars, bossVars, queueVars
  <2>2. QED  BY <1>1, <2>1 DEF LifecycleTypes
<1>14. QED
  BY <1>2, <1>4, <1>5, <1>6, <1>7, <1>8, <1>9, <1>10, <1>11, <1>12, <1>13 DEF PluginLifecycleNext

LEMMA ActivityCountedStep ==
  ASSUME LifecycleInv, [PluginLifecycleNext]_lifecycleVars PROVE ActivityCounted'
<1>1. /\ LifecycleTypes /\ entries \in Seq(LifecycleEntries) /\ seen \in Nat /\ heard \in Nat
      /\ IsFiniteSet(Tokens) /\ heard + Cardinality(Tokens) = seen
      /\ \A k \in DOMAIN merged : merged[k] \in Nat \ {0}
  BY DEF LifecycleInv, LifecycleTypes, ActivityCounted
<1>2. /\ \A k \in DOMAIN merged : \E i \in 1..Len(entries) :
             entries[i].kind = "activity" /\ KeyOf(entries[i]) = k
      /\ \A i \in 1..Len(entries) :
           entries[i].kind = "activity" => KeyOf(entries[i]) \in DOMAIN merged
      /\ \A i, j \in 1..Len(entries) :
           entries[i].kind = "activity" /\ entries[j].kind = "activity"
             /\ KeyOf(entries[i]) = KeyOf(entries[j]) => i = j
  BY DEF LifecycleInv, ActivityCounted
<1>3. UNCHANGED merged => Tokens' = Tokens  BY DEF Tokens
<1>4. ASSUME UNCHANGED <<merged, seen, heard>>, UNCHANGED entries
      PROVE  ActivityCounted'
  BY <1>1, <1>2, <1>3, <1>4 DEF ActivityCounted
<1>5. ASSUME UNCHANGED <<merged, seen, heard>>, NEW e \in LifecycleEntries, e.kind # "activity",
             entries' = Append(entries, e)
      PROVE  ActivityCounted'
  <2>1. /\ \A i \in 1..Len(entries) : entries'[i] = entries[i] /\ i \in 1..Len(entries')
        /\ \A i \in 1..Len(entries') : i \in 1..Len(entries) \/ entries'[i] = e
    BY <1>1, <1>5, EntryAppended
  <2>2. QED  BY <1>1, <1>2, <1>3, <1>5, <2>1 DEF ActivityCounted
<1>6. ASSUME NEW w \in PluginWorlds, Inbound(w) PROVE ActivityCounted'
  <2> DEFINE key == <<w, Activation>>
             e == Entry("activity", w, "none")
             n == IF key \in DOMAIN merged THEN merged[key] + 1 ELSE 1
  <2>1. /\ seen' = seen + 1 /\ heard' = heard
        /\ merged' = [k \in DOMAIN merged \cup {key} |->
                        IF k \notin DOMAIN merged THEN 1 ELSE merged[k] + IF k = key THEN 1 ELSE 0]
        /\ entries' = IF key \in DOMAIN merged THEN entries ELSE Append(entries, e)
    BY <1>6 DEF Inbound
  <2>2. /\ DOMAIN merged' = DOMAIN merged \cup {key} /\ merged'[key] = n
        /\ \A k \in DOMAIN merged : k # key => merged'[k] = merged[k]
    <3>1. DOMAIN merged' = DOMAIN merged \cup {key}  BY <2>1
    <3>2. key \in DOMAIN merged => merged'[key] = merged[key] + 1  BY <2>1
    <3>3. key \notin DOMAIN merged => merged'[key] = 1  BY <2>1
    <3>4. ASSUME NEW k \in DOMAIN merged, k # key PROVE merged'[k] = merged[k]
      <4>1. merged'[k] = merged[k] + 0  BY <2>1, <3>4
      <4>2. merged[k] \in Nat  BY <1>1
      <4>3. QED  BY <4>1, <4>2
    <3>5. QED  BY <3>1, <3>2, <3>3, <3>4
  <2>3. n \in Nat \ {0} /\ 1..n = (1..(n - 1)) \cup {n} /\ n \notin 1..(n - 1)
        /\ (key \in DOMAIN merged => n - 1 = merged[key])
        /\ (key \notin DOMAIN merged => 1..(n - 1) = {})
    BY <1>1
  <2>4. e \in LifecycleEntries /\ e.kind = "activity" /\ KeyOf(e) = key
    BY <1>1 DEF Entry, KeyOf, LifecycleEntries, LifecycleTypes, Activation
  <2> HIDE DEF n, e, key
  <2>5. Tokens' = Tokens \cup {<<key, n>>} /\ <<key, n>> \notin Tokens
    <3>1. \A t : t \in Tokens <=> \E k \in DOMAIN merged : t \in {k} \X (1..merged[k])
      BY DEF Tokens
    <3>2. \A t : t \in Tokens' <=> \E k \in DOMAIN merged' : t \in {k} \X (1..merged'[k])
      BY DEF Tokens
    <3>3. \A t : t \in {key} \X (1..n) <=> t \in {key} \X (1..(n - 1)) \/ t = <<key, n>>
      BY <2>3
    <3>4. \A t : t \in {key} \X (1..(n - 1)) <=> key \in DOMAIN merged /\ t \in {key} \X (1..merged[key])
      BY <2>3
    <3>5. \A t : t \in Tokens' <=> t \in Tokens \/ t = <<key, n>>
      BY <2>2, <3>1, <3>2, <3>3, <3>4
    <3>6. <<key, n>> \notin Tokens  BY <2>3, <3>1
    <3>7. QED  BY <3>5, <3>6
  <2>6. IsFiniteSet(Tokens') /\ Cardinality(Tokens') = Cardinality(Tokens) + 1
        /\ Cardinality(Tokens) \in Nat
    BY <1>1, <2>5, FS_AddElement, FS_CardinalityType
  <2>7. heard' + Cardinality(Tokens') = seen' /\ seen' \in Nat /\ heard' \in Nat
    BY <1>1, <2>1, <2>6
  <2>8. \A k \in DOMAIN merged' : merged'[k] \in Nat \ {0}  BY <1>1, <2>2, <2>3
  <2>9. CASE key \in DOMAIN merged
    <3>1. entries' = entries /\ DOMAIN merged' = DOMAIN merged  BY <2>1, <2>2, <2>9
    <3>2. QED  BY <1>2, <2>6, <2>7, <2>8, <3>1 DEF ActivityCounted
  <2>10. CASE key \notin DOMAIN merged
    <3>1. /\ \A i \in 1..Len(entries) : entries'[i] = entries[i] /\ i \in 1..Len(entries')
          /\ entries'[Len(entries) + 1] = e /\ Len(entries) + 1 \in 1..Len(entries')
          /\ \A i \in 1..Len(entries') : i \in 1..Len(entries) \/ i = Len(entries) + 1
      BY <1>1, <2>1, <2>4, <2>10, EntryAppended
    <3>2. \A k \in DOMAIN merged' : \E i \in 1..Len(entries') :
             entries'[i].kind = "activity" /\ KeyOf(entries'[i]) = k
      <4>1. \A k \in DOMAIN merged : \E i \in 1..Len(entries') :
               entries'[i].kind = "activity" /\ KeyOf(entries'[i]) = k
        BY <1>2, <3>1
      <4>2. QED  BY <2>2, <2>4, <3>1, <4>1
    <3>3. \A i \in 1..Len(entries') :
             entries'[i].kind = "activity" => KeyOf(entries'[i]) \in DOMAIN merged'
      BY <1>2, <2>2, <2>4, <3>1
    <3>4. \A i, j \in 1..Len(entries') :
           entries'[i].kind = "activity" /\ entries'[j].kind = "activity"
             /\ KeyOf(entries'[i]) = KeyOf(entries'[j]) => i = j
      <4>1. \A i \in 1..Len(entries) : entries[i].kind = "activity" => KeyOf(entries[i]) # key
        BY <1>2, <2>10
      <4>2. QED  BY <1>2, <2>4, <3>1, <4>1
    <3>5. QED  BY <2>6, <2>7, <2>8, <3>2, <3>3, <3>4 DEF ActivityCounted
  <2>11. QED  BY <2>9, <2>10
<1>7. CASE Deliver
  <2> DEFINE e == Head(entries)
             key == KeyOf(e)
  <2>1. /\ entries # <<>> /\ entries' = Tail(entries) /\ UNCHANGED seen
        /\ IF e.kind = "activity"
           THEN /\ heard' = heard + merged[key]
                /\ merged' = [k \in DOMAIN merged \ {key} |-> merged[k]]
           ELSE UNCHANGED <<heard, merged>>
    BY <1>7 DEF Deliver, KeyOf
  <2>2. /\ e = entries[1] /\ 1 \in 1..Len(entries)
        /\ \A i \in 1..Len(entries') : i + 1 \in 1..Len(entries) /\ entries'[i] = entries[i + 1]
                                       /\ i \in Nat /\ i + 1 # 1
        /\ \A i \in 1..Len(entries) : i # 1 => i - 1 \in 1..Len(entries') /\ (i - 1) + 1 = i
    BY <1>1, <2>1, EntryTaken
  <2> HIDE DEF e
  <2>3. \A i, j \in 1..Len(entries') :
           entries'[i].kind = "activity" /\ entries'[j].kind = "activity"
             /\ KeyOf(entries'[i]) = KeyOf(entries'[j]) => i = j
    <3> SUFFICES ASSUME NEW i \in 1..Len(entries'), NEW j \in 1..Len(entries'),
                        entries'[i].kind = "activity", entries'[j].kind = "activity",
                        KeyOf(entries'[i]) = KeyOf(entries'[j])
                 PROVE  i = j
      OBVIOUS
    <3>1. i + 1 = j + 1
      <4>1. /\ i + 1 \in 1..Len(entries) /\ entries'[i] = entries[i + 1]
            /\ j + 1 \in 1..Len(entries) /\ entries'[j] = entries[j + 1]
        BY <2>2
      <4>2. \A x, y \in 1..Len(entries) :
              entries[x].kind = "activity" /\ entries[y].kind = "activity"
                /\ KeyOf(entries[x]) = KeyOf(entries[y]) => x = y
        BY <1>2
      <4>3. QED  BY <4>1, <4>2
    <3>2. i \in Nat /\ j \in Nat  BY <2>2
    <3>3. QED  BY <3>1, <3>2
  <2>4. \A k \in DOMAIN merged : k # key \/ e.kind # "activity" => \E i \in 1..Len(entries') :
             entries'[i].kind = "activity" /\ KeyOf(entries'[i]) = k
    <3> SUFFICES ASSUME NEW k \in DOMAIN merged, k # key \/ e.kind # "activity"
                 PROVE  \E i \in 1..Len(entries') :
                           entries'[i].kind = "activity" /\ KeyOf(entries'[i]) = k
      OBVIOUS
    <3>1. PICK i \in 1..Len(entries) : entries[i].kind = "activity" /\ KeyOf(entries[i]) = k
      BY <1>2
    <3>2. i # 1  BY <2>2, <3>1
    <3>3. i - 1 \in 1..Len(entries') /\ entries'[i - 1] = entries[i]  BY <2>2, <3>2
    <3>4. QED  BY <3>1, <3>3
  <2>5. CASE e.kind # "activity"
    <3>1. UNCHANGED <<heard, merged, seen>>  BY <2>1, <2>5
    <3>2. \A i \in 1..Len(entries') :
             entries'[i].kind = "activity" => KeyOf(entries'[i]) \in DOMAIN merged'
      BY <1>2, <2>2, <3>1
    <3>3. QED  BY <1>1, <1>3, <2>3, <2>4, <2>5, <3>1, <3>2 DEF ActivityCounted
  <2>6. CASE e.kind = "activity"
    <3>1. heard' = heard + merged[key] /\ merged' = [k \in DOMAIN merged \ {key} |-> merged[k]]
      BY <2>1, <2>6
    <3>2. key \in DOMAIN merged  BY <1>2, <2>2, <2>6
    <3> HIDE DEF key
    <3>3. /\ DOMAIN merged' = DOMAIN merged \ {key}
          /\ \A k \in DOMAIN merged' : merged'[k] = merged[k]
      BY <3>1
    <3> DEFINE Gone == {key} \X (1..merged[key])
    <3>4. Gone \subseteq Tokens /\ Tokens' = Tokens \ Gone
      <4>1. \A t : t \in Tokens <=> \E k \in DOMAIN merged : t \in {k} \X (1..merged[k])
        BY DEF Tokens
      <4>2. \A t : t \in Tokens' <=> \E k \in DOMAIN merged' : t \in {k} \X (1..merged'[k])
        BY DEF Tokens
      <4>3. Gone \subseteq Tokens  BY <3>2, <4>1
      <4>4. \A t : t \in Tokens' => t \in Tokens /\ t \notin Gone  BY <3>3, <4>1, <4>2
      <4>5. \A t : t \in Tokens /\ t \notin Gone => t \in Tokens'  BY <3>3, <4>1, <4>2
      <4>6. QED  BY <4>3, <4>4, <4>5
    <3>5. merged[key] \in Nat  BY <1>1, <3>2
    <3>6. IsFiniteSet(Gone) /\ Cardinality(Gone) = merged[key]
      <4>1. IsFiniteSet(1..merged[key]) /\ Cardinality(1..merged[key]) = merged[key]
        <5>1. PICK m \in Nat : m = merged[key]  BY <3>5
        <5>2. IsFiniteSet(1..m) /\ Cardinality(1..m) = IF 1 > m THEN 0 ELSE m - 1 + 1
          BY FS_Interval
        <5>3. QED  BY <5>1, <5>2
      <4>2. IsFiniteSet({key}) /\ Cardinality({key}) = 1  BY FS_Singleton
      <4>3. /\ IsFiniteSet(Gone)
            /\ Cardinality(Gone) = Cardinality({key}) * Cardinality(1..merged[key])
        BY <4>1, <4>2, FS_Product
      <4>4. QED  BY <3>5, <4>1, <4>2, <4>3
    <3> HIDE DEF Gone
    <3>7. IsFiniteSet(Tokens') /\ Cardinality(Tokens') = Cardinality(Tokens) - Cardinality(Gone)
      <4>1. Tokens \cap Gone = Gone  BY <3>4
      <4>2. QED  BY <1>1, <3>4, <4>1, FS_Difference
    <3>8. Cardinality(Tokens) \in Nat  BY <1>1, FS_CardinalityType
    <3>9. heard' \in Nat /\ seen' \in Nat /\ heard' + Cardinality(Tokens') = seen'
      BY <1>1, <2>1, <3>1, <3>5, <3>6, <3>7, <3>8
    <3>10. \A i \in 1..Len(entries') :
             entries'[i].kind = "activity" => KeyOf(entries'[i]) \in DOMAIN merged'
      <4> SUFFICES ASSUME NEW i \in 1..Len(entries'), entries'[i].kind = "activity"
                   PROVE  KeyOf(entries'[i]) \in DOMAIN merged'
        OBVIOUS
      <4>1. /\ i + 1 \in 1..Len(entries) /\ entries'[i] = entries[i + 1] /\ i + 1 # 1
        BY <2>2
      <4>2. KeyOf(entries[i + 1]) \in DOMAIN merged  BY <1>2, <4>1
      <4>3. KeyOf(entries[i + 1]) # KeyOf(entries[1])  BY <1>2, <2>2, <2>6, <4>1
      <4>4. QED  BY <2>2, <3>3, <4>1, <4>2, <4>3 DEF key
    <3>11. \A k \in DOMAIN merged' : merged'[k] \in Nat \ {0}  BY <1>1, <3>3
    <3>12. \A k \in DOMAIN merged' : \E i \in 1..Len(entries') :
             entries'[i].kind = "activity" /\ KeyOf(entries'[i]) = k
      BY <2>4, <3>3
    <3>13. QED  BY <2>3, <3>7, <3>9, <3>10, <3>11, <3>12 DEF ActivityCounted
  <2>7. QED  BY <2>5, <2>6
<1>8. CASE CancelPump
  <2>1. UNCHANGED <<merged, seen, heard>>  BY <1>8 DEF CancelPump
  <2>2. /\ Len(entries') = Len(entries)
        /\ \A i \in 1..Len(entries) :
              /\ entries'[i].kind = entries[i].kind /\ entries'[i].world = entries[i].world
              /\ entries'[i].activation = entries[i].activation
    BY <1>1, <1>8, EntriesAbandoned DEF CancelPump
  <2>3. \A i \in 1..Len(entries) : KeyOf(entries'[i]) = KeyOf(entries[i])
    BY <2>2 DEF KeyOf
  <2>4. QED  BY <1>1, <1>2, <1>3, <2>1, <2>2, <2>3 DEF ActivityCounted
<1>9. Activation \in Nat /\ seed + 1 \in Nat  BY DEF LifecycleInv, LifecycleTypes, Activation
<1>10. ASSUME NEW kind \in {"session_state", "world_connected", "world_disconnected"},
              NEW w \in PluginWorlds, NEW p \in Publishers
       PROVE  Entry(kind, w, p) \in LifecycleEntries /\ Entry(kind, w, p).kind # "activity"
  BY <1>9 DEF Entry, LifecycleEntries
<1>11. ASSUME NEW w \in PluginWorlds, Change(w) \/ Reconcile(w) PROVE ActivityCounted'
  <2>1. /\ UNCHANGED <<merged, seen, heard>>
        /\ \E p \in Publishers : entries' = Append(entries, Entry("session_state", w, p))
    BY <1>11 DEF Change, Reconcile, Say, Publishers
  <2>2. QED  BY <1>5, <1>10, <2>1
<1>12. ASSUME NEW p \in Publishers, ResumePublisher(p) PROVE ActivityCounted'
  <2>1. /\ UNCHANGED <<merged, seen, heard>>
        /\ \/ UNCHANGED entries
           \/ /\ publisher[p].world \in PluginWorlds
              /\ \/ entries' = Append(entries, Entry("world_connected", publisher[p].world, p))
                 \/ entries' = Append(entries, Entry("world_disconnected", publisher[p].world, p))
    BY <1>1, <1>12, ResumeStep
  <2>2. QED  BY <1>4, <1>5, <1>10, <2>1
<1>13. CASE ActivateBoss
  <2>1. [kind |-> "boss_activated", world |-> NoWorld, waiter |-> "none",
         activation |-> seed + 1] \in LifecycleEntries
    BY <1>9 DEF LifecycleEntries
  <2>2. QED  BY <1>5, <1>13, <2>1 DEF ActivateBoss
<1>14. CASE \/ StartReconciliation \/ EndDelivery \/ DismissBoss
            \/ (\E h \in Handlers : Handle(h)) \/ UNCHANGED lifecycleVars
  BY <1>4, <1>14 DEF StartReconciliation, EndDelivery, DismissBoss, Handle, queueVars, lifecycleVars
<1>15. QED
  BY <1>6, <1>7, <1>8, <1>11, <1>12, <1>13, <1>14 DEF PluginLifecycleNext

\* Where the entry of each publisher is after a step that queues one.
LEMMA SayWhere ==
  ASSUME LifecycleTypes, OneEntryEach, NEW p \in Publishers, ~InEntries(p),
         NEW e \in LifecycleEntries, e.waiter = p, entries' = Append(entries, e)
  PROVE  /\ \A i, j \in 1..Len(entries') : entries'[i].waiter = entries'[j].waiter
                                           /\ entries'[i].waiter # "none" => i = j
         /\ \A q \in Publishers : InEntries(q)' <=> InEntries(q) \/ q = p
<1>1. /\ \A i \in 1..Len(entries) : entries'[i] = entries[i] /\ i \in 1..Len(entries')
      /\ entries'[Len(entries) + 1] = e /\ Len(entries) + 1 \in 1..Len(entries')
      /\ \A i \in 1..Len(entries') : i \in 1..Len(entries) \/ i = Len(entries) + 1
  BY EntryAppended DEF LifecycleTypes
<1>2. \A i \in 1..Len(entries) : entries[i].waiter # p  BY DEF InEntries
<1>3. \A i, j \in 1..Len(entries) : entries[i].waiter = entries[j].waiter
                                    /\ entries[i].waiter # "none" => i = j
  BY DEF OneEntryEach
<1>4. \A i, j \in 1..Len(entries') : entries'[i].waiter = entries'[j].waiter
                                     /\ entries'[i].waiter # "none" => i = j
  BY <1>1, <1>2, <1>3
<1>5. ASSUME NEW q \in Publishers PROVE InEntries(q)' <=> InEntries(q) \/ q = p
  <2>1. InEntries(q)' => InEntries(q) \/ q = p  BY <1>1 DEF InEntries
  <2>2. InEntries(q) => InEntries(q)'  BY <1>1 DEF InEntries
  <2>3. q = p => InEntries(q)'  BY <1>1 DEF InEntries
  <2>4. QED  BY <2>1, <2>2, <2>3
<1>6. QED  BY <1>4, <1>5

\* The same of a step that queues an entry nobody waits for, or none.
LEMMA QuietWhere ==
  ASSUME LifecycleTypes, OneEntryEach,
         \/ UNCHANGED entries
         \/ \E e \in LifecycleEntries : e.waiter = "none" /\ entries' = Append(entries, e)
  PROVE  /\ \A i, j \in 1..Len(entries') : entries'[i].waiter = entries'[j].waiter
                                           /\ entries'[i].waiter # "none" => i = j
         /\ \A q \in Publishers : InEntries(q)' <=> InEntries(q)
<1>1. CASE UNCHANGED entries  BY <1>1 DEF OneEntryEach, InEntries
<1>2. ASSUME NEW e \in LifecycleEntries, e.waiter = "none", entries' = Append(entries, e)
      PROVE  /\ \A i, j \in 1..Len(entries') : entries'[i].waiter = entries'[j].waiter
                                           /\ entries'[i].waiter # "none" => i = j
             /\ \A q \in Publishers : InEntries(q)' <=> InEntries(q)
  <2>1. /\ \A i \in 1..Len(entries) : entries'[i] = entries[i] /\ i \in 1..Len(entries')
        /\ \A i \in 1..Len(entries') : i \in 1..Len(entries) \/ entries'[i] = e
    BY <1>2, EntryAppended DEF LifecycleTypes
  <2>2. \A i, j \in 1..Len(entries) : entries[i].waiter = entries[j].waiter
                                      /\ entries[i].waiter # "none" => i = j
    BY DEF OneEntryEach
  <2>3. \A i, j \in 1..Len(entries') : entries'[i].waiter = entries'[j].waiter
                                       /\ entries'[i].waiter # "none" => i = j
    BY <1>2, <2>1, <2>2
  <2>4. ASSUME NEW q \in Publishers PROVE InEntries(q)' <=> InEntries(q)
    <3>1. q # "none"  BY DEF Publishers
    <3>2. InEntries(q)' => InEntries(q)  BY <1>2, <2>1, <3>1 DEF InEntries
    <3>3. InEntries(q) => InEntries(q)'  BY <2>1 DEF InEntries
    <3>4. QED  BY <3>2, <3>3
  <2>5. QED  BY <2>3, <2>4
<1>3. QED  BY <1>1, <1>2

LEMMA SaidEntries ==
  ASSUME LifecycleTypes
  PROVE  \A kind \in {"session_state", "world_connected", "world_disconnected"},
            w \in PluginWorlds, p \in Publishers :
              Entry(kind, w, p) \in LifecycleEntries /\ Entry(kind, w, p).waiter = p
<1>1. Activation \in Nat  BY DEF LifecycleTypes, Activation
<1>2. QED  BY <1>1 DEF Entry, LifecycleEntries

LEMMA OneEntryEachStep ==
  ASSUME LifecycleInv, [PluginLifecycleNext]_lifecycleVars PROVE OneEntryEach'
<1>1. /\ LifecycleTypes /\ OneEntryEach /\ entries \in Seq(LifecycleEntries)
      /\ woken \in Seq(Publishers) /\ delivering \in LifecycleEntries \cup {NoEntry}
      /\ publisher \in [Publishers -> PublisherStates]
  BY DEF LifecycleInv, LifecycleTypes
<1>2. /\ \A i, j \in 1..Len(woken) : woken[i] = woken[j] => i = j
      /\ \A i, j \in 1..Len(entries) :
           entries[i].waiter = entries[j].waiter /\ entries[i].waiter # "none" => i = j
      /\ \A p \in Publishers :
         /\ ~(InWoken(p) /\ InDelivery(p)) /\ ~(InWoken(p) /\ InEntries(p))
         /\ ~(InDelivery(p) /\ InEntries(p))
         /\ Waits(p) <=> InWoken(p) \/ InDelivery(p) \/ InEntries(p)
  BY <1>1 DEF OneEntryEach
<1>3. UNCHANGED woken => \A p : InWoken(p)' <=> InWoken(p)  BY DEF InWoken
<1>4. UNCHANGED delivering => \A p : InDelivery(p)' <=> InDelivery(p)  BY DEF InDelivery
<1>5. UNCHANGED publisher => \A p : Waits(p)' <=> Waits(p)  BY DEF Waits
<1>6. ASSUME UNCHANGED <<woken, delivering, publisher>>,
             \/ UNCHANGED entries
             \/ \E e \in LifecycleEntries : e.waiter = "none" /\ entries' = Append(entries, e)
      PROVE  OneEntryEach'
  <2>1. /\ \A i, j \in 1..Len(entries') : entries'[i].waiter = entries'[j].waiter
                                           /\ entries'[i].waiter # "none" => i = j
        /\ \A q \in Publishers : InEntries(q)' <=> InEntries(q)
    BY <1>1, <1>6, QuietWhere
  <2>2. QED  BY <1>2, <1>3, <1>4, <1>5, <1>6, <2>1 DEF OneEntryEach
<1>7. ASSUME NEW p \in Publishers, ~Waits(p), Waits(p)', NEW e \in LifecycleEntries, e.waiter = p,
             entries' = Append(entries, e), UNCHANGED <<woken, delivering>>,
             \A q \in Publishers : q # p => publisher'[q] = publisher[q]
      PROVE  OneEntryEach'
  <2>1. ~InWoken(p) /\ ~InDelivery(p) /\ ~InEntries(p)  BY <1>2, <1>7
  <2>2. /\ \A i, j \in 1..Len(entries') : entries'[i].waiter = entries'[j].waiter
                                           /\ entries'[i].waiter # "none" => i = j
        /\ \A q \in Publishers : InEntries(q)' <=> InEntries(q) \/ q = p
    BY <1>1, <1>7, <2>1, SayWhere
  <2>3. \A q \in Publishers : q # p => (Waits(q)' <=> Waits(q))  BY <1>7 DEF Waits
  <2>4. QED  BY <1>2, <1>3, <1>4, <1>7, <2>1, <2>2, <2>3 DEF OneEntryEach
<1>8. ASSUME NEW w \in PluginWorlds, Inbound(w) PROVE OneEntryEach'
  <2>1. /\ UNCHANGED <<woken, delivering, publisher>>
        /\ UNCHANGED entries \/ entries' = Append(entries, Entry("activity", w, "none"))
    BY <1>8 DEF Inbound, dispatchVars
  <2>2. Entry("activity", w, "none") \in LifecycleEntries /\ Entry("activity", w, "none").waiter = "none"
    BY <1>1 DEF Entry, Activation, LifecycleEntries, LifecycleTypes
  <2>3. QED  BY <1>6, <2>1, <2>2
<1>9. ASSUME NEW w \in PluginWorlds, Change(w) PROVE OneEntryEach'
  <2>1. /\ UNCHANGED <<woken, delivering>> /\ publisher["pump"].step = "idle"
        /\ publisher' = [publisher EXCEPT !["pump"] =
                        [step |-> "state", world |-> w, value |-> w \notin worldsUp, todo |-> {}]]
        /\ entries' = Append(entries, Entry("session_state", w, "pump"))
    BY <1>9 DEF Change, Say, dispatchVars
  <2>2. "pump" \in Publishers /\ publisher'["pump"].step = "state"
        /\ \A q \in Publishers : q # "pump" => publisher'[q] = publisher[q]
    BY <1>1, <2>1 DEF Publishers
  <2>3. ~Waits("pump") /\ Waits("pump")'  BY <2>1, <2>2 DEF Waits
  <2>4. QED  BY <1>1, <1>7, <2>1, <2>2, <2>3, SaidEntries
<1>10. ASSUME NEW w \in PluginWorlds, Reconcile(w) PROVE OneEntryEach'
  <2> DEFINE r == publisher["reconciliation"]
  <2>1. /\ UNCHANGED <<woken, delivering>> /\ r.step = "free"
        /\ publisher' = [publisher EXCEPT !["reconciliation"] =
              [step |-> "state", world |-> w, value |-> w \in worldsUp, todo |-> r.todo \ {w}]]
        /\ entries' = Append(entries, Entry("session_state", w, "reconciliation"))
    BY <1>10 DEF Reconcile, Say, dispatchVars
  <2>2. "reconciliation" \in Publishers /\ publisher'["reconciliation"].step = "state"
        /\ \A q \in Publishers : q # "reconciliation" => publisher'[q] = publisher[q]
    BY <1>1, <2>1 DEF Publishers
  <2>3. ~Waits("reconciliation") /\ Waits("reconciliation")'  BY <2>1, <2>2 DEF Waits
  <2>4. QED  BY <1>1, <1>7, <2>1, <2>2, <2>3, SaidEntries
<1>11. CASE CancelPump
  <2>1. /\ publisher' = [publisher EXCEPT !["pump"] = AtRest]
        /\ delivering' = Abandoned(delivering)
        /\ entries' = [i \in DOMAIN entries |-> Abandoned(entries[i])]
        /\ woken' = IF \E i \in DOMAIN woken : woken[i] = "reconciliation"
                    THEN <<"reconciliation">> ELSE <<>>
    BY <1>11 DEF CancelPump
  <2>2. /\ Len(entries') = Len(entries)
        /\ \A i \in 1..Len(entries) :
              entries'[i] = Abandoned(entries[i]) /\ entries[i] \in LifecycleEntries
    BY <1>1, <2>1, EntriesAbandoned
  <2>3. \A i \in 1..Len(entries) : entries'[i].waiter \in {entries[i].waiter, "none"}
    BY <2>2, AbandonedEntry
  <2>4. \A i, j \in 1..Len(entries') :
           entries'[i].waiter = entries'[j].waiter /\ entries'[i].waiter # "none" => i = j
    BY <1>2, <2>2, <2>3
  <2>5. /\ ~InEntries("pump")' /\ InEntries("reconciliation")' = InEntries("reconciliation")
    <3>1. \A i \in 1..Len(entries) :
            /\ entries'[i].waiter # "pump"
            /\ entries'[i].waiter = "reconciliation" <=> entries[i].waiter = "reconciliation"
      BY <2>2, AbandonedEntry
    <3>2. QED  BY <2>2, <3>1 DEF InEntries
  <2>6. /\ ~InDelivery("pump")' /\ InDelivery("reconciliation")' = InDelivery("reconciliation")
    <3>1. Abandoned(NoEntry) = NoEntry /\ NoEntry.waiter = "none"  BY DEF Abandoned, NoEntry
    <3>2. /\ delivering'.waiter # "pump"
          /\ delivering'.waiter = "reconciliation" <=> delivering.waiter = "reconciliation"
      BY <1>1, <2>1, <3>1, AbandonedEntry
    <3>3. QED  BY <3>2 DEF InDelivery
  <2>7. /\ ~InWoken("pump")' /\ InWoken("reconciliation")' = InWoken("reconciliation")
        /\ \A i, j \in 1..Len(woken') : woken'[i] = woken'[j] => i = j
    <3>1. (\E i \in DOMAIN woken : woken[i] = "reconciliation") <=> InWoken("reconciliation")
      BY <1>1 DEF InWoken
    <3>2. CASE InWoken("reconciliation")
      <4>1. woken' = <<"reconciliation">>  BY <2>1, <3>1, <3>2
      <4>2. Len(woken') = 1 /\ woken'[1] = "reconciliation"  BY <4>1
      <4>3. \A i \in 1..Len(woken') : i = 1  BY <4>2
      <4>4. QED  BY <3>2, <4>2, <4>3 DEF InWoken
    <3>3. CASE ~InWoken("reconciliation")
      <4>1. woken' = <<>>  BY <2>1, <3>1, <3>3
      <4>2. Len(woken') = 0  BY <4>1
      <4>3. QED  BY <3>3, <4>2 DEF InWoken
    <3>4. QED  BY <3>2, <3>3
  <2>8. /\ ~Waits("pump")' /\ Waits("reconciliation")' = Waits("reconciliation")
    BY <1>1, <2>1 DEF Waits, AtRest, Publishers
  <2>9. Publishers = {"pump", "reconciliation"}  BY DEF Publishers
  <2>10. QED  BY <1>2, <2>4, <2>5, <2>6, <2>7, <2>8, <2>9 DEF OneEntryEach
<1>12. CASE StartReconciliation
  <2>1. /\ UNCHANGED <<woken, delivering, entries>>
        /\ publisher["reconciliation"].step = "idle"
        /\ publisher' = [publisher EXCEPT !["reconciliation"] =
                           [AtRest EXCEPT !.step = "free", !.todo = PluginWorlds]]
    BY <1>12 DEF StartReconciliation, dispatchVars, queueVars
  <2>2. [AtRest EXCEPT !.step = "free", !.todo = PluginWorlds].step = "free"
    BY DEF AtRest
  <2>3. \A q \in Publishers : Waits(q)' <=> Waits(q)
    BY <1>1, <2>1, <2>2 DEF Waits
  <2>4. \A q : InEntries(q)' <=> InEntries(q)  BY <2>1 DEF InEntries
  <2>5. QED  BY <1>2, <1>3, <1>4, <2>1, <2>3, <2>4 DEF OneEntryEach
<1>13. ASSUME NEW p \in Publishers, ResumePublisher(p) PROVE OneEntryEach'
  <2>1. /\ woken # <<>> /\ woken[1] = p /\ woken' = Tail(woken) /\ UNCHANGED delivering
        /\ \A q \in Publishers : q # p => publisher'[q] = publisher[q]
        /\ \/ /\ publisher[p].world \in PluginWorlds
              /\ entries' = Append(entries,
                               Entry(IF publisher[p].value THEN "world_connected"
                                     ELSE "world_disconnected", publisher[p].world, p))
              /\ publisher'[p].step = "edge"
           \/ UNCHANGED entries /\ publisher'[p].step \notin {"state", "edge"}
    BY <1>1, <1>13, ResumeStep
  <2>2. /\ 1 \in 1..Len(woken)
        /\ \A i \in 1..Len(woken') : i + 1 \in 1..Len(woken) /\ woken'[i] = woken[i + 1]
                                      /\ i \in Nat /\ i + 1 # 1
        /\ \A i \in 1..Len(woken) : i # 1 => i - 1 \in 1..Len(woken') /\ (i - 1) + 1 = i
    BY <1>1, <2>1, WakenTail
  <2>3. \A i, j \in 1..Len(woken') : woken'[i] = woken'[j] => i = j
    <3> SUFFICES ASSUME NEW i \in 1..Len(woken'), NEW j \in 1..Len(woken'), woken'[i] = woken'[j]
                 PROVE  i = j
      OBVIOUS
    <3>1. i + 1 = j + 1  BY <1>2, <2>2
    <3>2. i \in Nat /\ j \in Nat  BY <2>2
    <3>3. QED  BY <3>1, <3>2
  <2>4. \A q \in Publishers : InWoken(q)' <=> InWoken(q) /\ q # p
    <3>1. ASSUME NEW q \in Publishers, InWoken(q)' PROVE InWoken(q) /\ q # p
      <4>1. PICK i \in 1..Len(woken') : woken'[i] = q  BY <3>1 DEF InWoken
      <4>2. i + 1 \in 1..Len(woken) /\ woken[i + 1] = q /\ i + 1 # 1  BY <2>2, <4>1
      <4>3. QED  BY <1>2, <2>1, <2>2, <4>2 DEF InWoken
    <3>2. ASSUME NEW q \in Publishers, InWoken(q), q # p PROVE InWoken(q)'
      <4>1. PICK i \in 1..Len(woken) : woken[i] = q  BY <3>2 DEF InWoken
      <4>2. i # 1  BY <2>1, <3>2, <4>1
      <4>3. i - 1 \in 1..Len(woken') /\ woken'[i - 1] = q  BY <2>2, <4>1, <4>2
      <4>4. QED  BY <4>3 DEF InWoken
    <3>3. QED  BY <3>1, <3>2
  <2>5. InWoken(p) /\ ~InDelivery(p) /\ ~InEntries(p)
    BY <1>2, <2>1, <2>2 DEF InWoken
  <2>6. \A q \in Publishers : q # p => (Waits(q)' <=> Waits(q))  BY <2>1 DEF Waits
  <2>7. CASE UNCHANGED entries /\ publisher'[p].step \notin {"state", "edge"}
    <3>1. ~Waits(p)'  BY <2>7 DEF Waits
    <3>2. \A q : InEntries(q)' <=> InEntries(q)  BY <2>7 DEF InEntries
    <3>3. QED  BY <1>2, <1>4, <2>1, <2>3, <2>4, <2>5, <2>6, <2>7, <3>1, <3>2 DEF OneEntryEach
  <2>8. CASE ~(UNCHANGED entries /\ publisher'[p].step \notin {"state", "edge"})
    <3> DEFINE e == Entry(IF publisher[p].value THEN "world_connected"
                          ELSE "world_disconnected", publisher[p].world, p)
    <3>1. /\ publisher[p].world \in PluginWorlds /\ publisher'[p].step = "edge"
          /\ entries' = Append(entries, e)
      BY <2>1, <2>8
    <3>2. e \in LifecycleEntries /\ e.waiter = p  BY <1>1, <3>1, SaidEntries
    <3> HIDE DEF e
    <3>3. /\ \A i, j \in 1..Len(entries') : entries'[i].waiter = entries'[j].waiter
                                             /\ entries'[i].waiter # "none" => i = j
          /\ \A q \in Publishers : InEntries(q)' <=> InEntries(q) \/ q = p
      BY <1>1, <2>5, <3>1, <3>2, SayWhere
    <3>4. Waits(p)'  BY <3>1 DEF Waits
    <3>5. QED  BY <1>2, <1>4, <2>1, <2>3, <2>4, <2>5, <2>6, <3>3, <3>4 DEF OneEntryEach
  <2>9. QED  BY <2>7, <2>8
<1>14. CASE Deliver
  <2>1. /\ delivering = NoEntry /\ entries # <<>> /\ entries' = Tail(entries)
        /\ delivering' = Head(entries) /\ UNCHANGED <<woken, publisher>>
    BY <1>14 DEF Deliver
  <2>2. /\ Head(entries) = entries[1] /\ 1 \in 1..Len(entries)
        /\ \A i \in 1..Len(entries') : i + 1 \in 1..Len(entries) /\ entries'[i] = entries[i + 1]
                                       /\ i \in Nat /\ i + 1 # 1
        /\ \A i \in 1..Len(entries) : i # 1 => i - 1 \in 1..Len(entries') /\ (i - 1) + 1 = i
    BY <1>1, <2>1, EntryTaken
  <2>3. \A i, j \in 1..Len(entries') :
           entries'[i].waiter = entries'[j].waiter /\ entries'[i].waiter # "none" => i = j
    <3> SUFFICES ASSUME NEW i \in 1..Len(entries'), NEW j \in 1..Len(entries'),
                        entries'[i].waiter = entries'[j].waiter, entries'[i].waiter # "none"
                 PROVE  i = j
      OBVIOUS
    <3>1. i + 1 = j + 1  BY <1>2, <2>2
    <3>2. i \in Nat /\ j \in Nat  BY <2>2
    <3>3. QED  BY <3>1, <3>2
  <2>4. ASSUME NEW q \in Publishers
        PROVE  /\ ~InDelivery(q) /\ (InDelivery(q)' <=> entries[1].waiter = q)
               /\ InEntries(q)' <=> InEntries(q) /\ entries[1].waiter # q
               /\ entries[1].waiter = q => InEntries(q)
    <3>1. q # "none"  BY DEF Publishers
    <3>2. ~InDelivery(q)  BY <2>1, <3>1 DEF InDelivery, NoEntry
    <3>3. InDelivery(q)' <=> entries[1].waiter = q  BY <2>1, <2>2 DEF InDelivery
    <3>4. ASSUME InEntries(q)' PROVE InEntries(q) /\ entries[1].waiter # q
      <4>1. PICK i \in 1..Len(entries') : entries'[i].waiter = q  BY <3>4 DEF InEntries
      <4>2. i + 1 \in 1..Len(entries) /\ entries[i + 1].waiter = q /\ i + 1 # 1  BY <2>2, <4>1
      <4>3. QED  BY <1>2, <2>2, <3>1, <4>2 DEF InEntries
    <3>5. ASSUME InEntries(q), entries[1].waiter # q PROVE InEntries(q)'
      <4>1. PICK i \in 1..Len(entries) : entries[i].waiter = q  BY <3>5 DEF InEntries
      <4>2. i # 1  BY <3>5, <4>1
      <4>3. i - 1 \in 1..Len(entries') /\ entries'[i - 1].waiter = q  BY <2>2, <4>1, <4>2
      <4>4. QED  BY <4>3 DEF InEntries
    <3>6. entries[1].waiter = q => InEntries(q)  BY <2>2 DEF InEntries
    <3>7. QED  BY <3>2, <3>3, <3>4, <3>5, <3>6
  <2>5. QED  BY <1>2, <1>3, <1>5, <2>1, <2>3, <2>4 DEF OneEntryEach
<1>15. CASE EndDelivery
  <2>1. /\ delivering' = NoEntry /\ UNCHANGED <<publisher, entries>>
        /\ woken' = IF delivering.waiter = "none" THEN woken ELSE Append(woken, delivering.waiter)
        /\ delivering # NoEntry
    BY <1>15 DEF EndDelivery, queueVars
  <2>2. \A q \in Publishers : ~InDelivery(q)'
    BY <2>1 DEF InDelivery, NoEntry, Publishers
  <2>3. \A q : InEntries(q)' <=> InEntries(q)  BY <2>1 DEF InEntries
  <2>4. CASE delivering.waiter = "none"
    <3>1. \A q \in Publishers : ~InDelivery(q)  BY <2>4 DEF InDelivery, Publishers
    <3>2. UNCHANGED woken  BY <2>1, <2>4
    <3>3. QED  BY <1>2, <1>3, <1>5, <2>1, <2>2, <2>3, <3>1, <3>2 DEF OneEntryEach
  <2>5. CASE delivering.waiter # "none"
    <3> DEFINE p == delivering.waiter
    <3>1. p \in Publishers /\ woken' = Append(woken, p)
      BY <1>1, <2>1, <2>5 DEF LifecycleEntries
    <3>2. \A q \in Publishers : InDelivery(q) <=> q = p  BY DEF InDelivery
    <3> HIDE DEF p
    <3>3. /\ \A i \in 1..Len(woken) : woken'[i] = woken[i] /\ i \in 1..Len(woken')
          /\ woken'[Len(woken) + 1] = p /\ Len(woken) + 1 \in 1..Len(woken')
          /\ \A i \in 1..Len(woken') : i \in 1..Len(woken) \/ i = Len(woken) + 1
      BY <1>1, <3>1, WakenAppend
    <3>4. \A i \in 1..Len(woken) : woken[i] # p  BY <1>2, <3>1, <3>2 DEF InWoken
    <3>5. \A i, j \in 1..Len(woken') : woken'[i] = woken'[j] => i = j
      BY <1>2, <3>3, <3>4
    <3>6. ASSUME NEW q \in Publishers PROVE InWoken(q)' <=> InWoken(q) \/ q = p
      <4>1. InWoken(q)' => InWoken(q) \/ q = p  BY <3>3 DEF InWoken
      <4>2. InWoken(q) => InWoken(q)'  BY <3>3 DEF InWoken
      <4>3. q = p => InWoken(q)'  BY <3>3 DEF InWoken
      <4>4. QED  BY <4>1, <4>2, <4>3
    <3>7. QED  BY <1>2, <1>5, <2>1, <2>2, <2>3, <3>2, <3>5, <3>6 DEF OneEntryEach
  <2>6. QED  BY <2>4, <2>5
<1>16. CASE ActivateBoss
  <2> DEFINE e == [kind |-> "boss_activated", world |-> NoWorld, waiter |-> "none",
                   activation |-> seed + 1]
  <2>1. e \in LifecycleEntries /\ e.waiter = "none"
    BY <1>1 DEF LifecycleEntries, LifecycleTypes
  <2>2. entries' = Append(entries, e) /\ UNCHANGED <<woken, delivering, publisher>>
    BY <1>16 DEF ActivateBoss, dispatchVars
  <2> HIDE DEF e
  <2>3. QED  BY <1>6, <2>1, <2>2
<1>17. CASE DismissBoss \/ (\E h \in Handlers : Handle(h)) \/ UNCHANGED lifecycleVars
  BY <1>6, <1>17 DEF DismissBoss, Handle, queueVars, dispatchVars, lifecycleVars
<1>18. QED
  BY <1>8, <1>9, <1>10, <1>11, <1>12, <1>13, <1>14, <1>15, <1>16, <1>17 DEF PluginLifecycleNext

LEMMA EdgesTellStep ==
  ASSUME LifecycleInv, [PluginLifecycleNext]_lifecycleVars PROVE EdgesTell'
<1>1. /\ LifecycleTypes /\ EdgesTell /\ entries \in Seq(LifecycleEntries)
      /\ connected \subseteq PluginWorlds /\ told \subseteq PluginWorlds
  BY DEF LifecycleInv, LifecycleTypes
<1>2. \A w \in PluginWorlds :
        /\ (\A i \in 1..Len(entries) : ~Edge(entries[i], w)) => (w \in told <=> w \in connected)
        /\ \A i \in 1..Len(entries) :
             Edge(entries[i], w) /\ (\A j \in 1..Len(entries) : i < j => ~Edge(entries[j], w))
               => (entries[i].kind = "world_connected" <=> w \in connected)
  BY <1>1 DEF EdgesTell
<1>3. ASSUME UNCHANGED <<told, connected, entries>> PROVE EdgesTell'
  BY <1>2, <1>3 DEF EdgesTell
<1>4. ASSUME UNCHANGED <<told, connected>>, NEW e \in LifecycleEntries,
             e.kind \notin {"world_connected", "world_disconnected"},
             entries' = Append(entries, e)
      PROVE  EdgesTell'
  <2>1. /\ Len(entries) \in Nat
        /\ \A i \in 1..Len(entries) : entries'[i] = entries[i] /\ i \in 1..Len(entries')
        /\ \A i \in 1..Len(entries') : i \in 1..Len(entries) \/ entries'[i] = e
    BY <1>1, <1>4, EntryAppended
  <2>2. \A w : ~Edge(e, w)  BY <1>4 DEF Edge
  <2>3. ASSUME NEW w \in PluginWorlds
        PROVE  /\ (\A i \in 1..Len(entries') : ~Edge(entries'[i], w)) => (w \in told <=> w \in connected)
               /\ \A i \in 1..Len(entries') :
                    Edge(entries'[i], w) /\ (\A j \in 1..Len(entries') : i < j => ~Edge(entries'[j], w))
                      => (entries'[i].kind = "world_connected" <=> w \in connected)
    <3>1. (\A i \in 1..Len(entries') : ~Edge(entries'[i], w)) => (w \in told <=> w \in connected)
      BY <1>2, <2>1
    <3>2. ASSUME NEW i \in 1..Len(entries'), Edge(entries'[i], w),
                 \A j \in 1..Len(entries') : i < j => ~Edge(entries'[j], w)
          PROVE  entries'[i].kind = "world_connected" <=> w \in connected
      <4>1. i \in 1..Len(entries) /\ entries'[i] = entries[i]  BY <2>1, <2>2, <3>2
      <4>2. \A j \in 1..Len(entries) : i < j => ~Edge(entries[j], w)  BY <2>1, <3>2
      <4>3. QED  BY <1>2, <3>2, <4>1, <4>2
    <3>3. QED  BY <3>1, <3>2
  <2>4. QED  BY <1>4, <2>3 DEF EdgesTell
<1>5. Activation \in Nat /\ seed + 1 \in Nat  BY <1>1 DEF LifecycleTypes, Activation
<1>6. ASSUME NEW w \in PluginWorlds, Inbound(w) \/ Change(w) \/ Reconcile(w) PROVE EdgesTell'
  <2>1. /\ UNCHANGED <<told, connected>>
        /\ \/ UNCHANGED entries
           \/ entries' = Append(entries, Entry("activity", w, "none"))
           \/ entries' = Append(entries, Entry("session_state", w, "pump"))
           \/ entries' = Append(entries, Entry("session_state", w, "reconciliation"))
    BY <1>6 DEF Inbound, Change, Reconcile, Say
  <2>2. \A kind \in {"activity", "session_state"}, p \in Publishers \cup {"none"} :
          Entry(kind, w, p) \in LifecycleEntries /\ Entry(kind, w, p).kind = kind
    BY <1>5 DEF Entry, LifecycleEntries
  <2>3. QED  BY <1>3, <1>4, <2>1, <2>2 DEF Publishers
<1>7. CASE ActivateBoss
  <2> DEFINE e == [kind |-> "boss_activated", world |-> NoWorld, waiter |-> "none",
                   activation |-> seed + 1]
  <2>1. e \in LifecycleEntries /\ e.kind = "boss_activated"  BY <1>5 DEF LifecycleEntries
  <2>2. entries' = Append(entries, e) /\ UNCHANGED <<told, connected>>
    BY <1>7 DEF ActivateBoss
  <2> HIDE DEF e
  <2>3. QED  BY <1>4, <2>1, <2>2
<1>8. CASE CancelPump
  <2>1. UNCHANGED <<told, connected>>  BY <1>8 DEF CancelPump
  <2>2. /\ Len(entries') = Len(entries)
        /\ \A i \in 1..Len(entries) :
              entries'[i].kind = entries[i].kind /\ entries'[i].world = entries[i].world
    BY <1>1, <1>8, EntriesAbandoned DEF CancelPump
  <2>3. \A w : \A i \in 1..Len(entries) : Edge(entries'[i], w) <=> Edge(entries[i], w)
    BY <2>2 DEF Edge
  <2>4. QED  BY <1>2, <2>1, <2>2, <2>3 DEF EdgesTell
<1>9. ASSUME NEW p \in Publishers, ResumePublisher(p) PROVE EdgesTell'
  <2> DEFINE v == publisher[p].world
             kind == IF publisher[p].value THEN "world_connected" ELSE "world_disconnected"
             e == Entry(kind, v, p)
  <2>1. /\ UNCHANGED told
        /\ \/ /\ v \in PluginWorlds
              /\ connected' = IF publisher[p].value THEN connected \cup {v} ELSE connected \ {v}
              /\ entries' = Append(entries, e)
           \/ UNCHANGED <<connected, entries>>
    BY <1>1, <1>9, ResumeStep
  <2>2. CASE UNCHANGED <<connected, entries>>  BY <1>3, <2>1, <2>2
  <2>3. CASE ~UNCHANGED <<connected, entries>>
    <3>1. /\ v \in PluginWorlds /\ entries' = Append(entries, e)
          /\ connected' = IF publisher[p].value THEN connected \cup {v} ELSE connected \ {v}
      BY <2>1, <2>3
    <3>2. /\ e \in LifecycleEntries /\ e.kind = kind /\ e.world = v
      BY <1>5, <3>1 DEF Entry, LifecycleEntries
    <3>3. /\ v \in connected' <=> kind = "world_connected"
          /\ \A w \in PluginWorlds : w # v => (w \in connected' <=> w \in connected)
      BY <3>1
    <3>4. kind \in {"world_connected", "world_disconnected"}  OBVIOUS
    <3> HIDE DEF e, kind, v
    <3>5. /\ Len(entries) \in Nat
          /\ \A i \in 1..Len(entries) : entries'[i] = entries[i] /\ i \in 1..Len(entries')
          /\ entries'[Len(entries) + 1] = e /\ Len(entries) + 1 \in 1..Len(entries')
          /\ \A i \in 1..Len(entries') : i \in 1..Len(entries) \/ i = Len(entries) + 1
      BY <1>1, <3>1, <3>2, EntryAppended
    <3>6. Edge(e, v) /\ \A w : w # v => ~Edge(e, w)  BY <3>2, <3>4 DEF Edge
    <3>7. ASSUME NEW w \in PluginWorlds
          PROVE  /\ (\A i \in 1..Len(entries') : ~Edge(entries'[i], w)) => (w \in told <=> w \in connected')
                 /\ \A i \in 1..Len(entries') :
                      Edge(entries'[i], w) /\ (\A j \in 1..Len(entries') : i < j => ~Edge(entries'[j], w))
                        => (entries'[i].kind = "world_connected" <=> w \in connected')
      <4>1. CASE w = v
        <5>1. Edge(entries'[Len(entries) + 1], w)  BY <3>5, <3>6, <4>1
        <5>2. ASSUME NEW i \in 1..Len(entries'), Edge(entries'[i], w),
                     \A j \in 1..Len(entries') : i < j => ~Edge(entries'[j], w)
              PROVE  entries'[i].kind = "world_connected" <=> w \in connected'
          <6>1. ~(i < Len(entries) + 1)  BY <3>5, <5>1, <5>2
          <6>2. i = Len(entries) + 1  BY <3>5, <6>1
          <6>3. QED  BY <3>2, <3>3, <3>5, <4>1, <6>2
        <5>3. QED  BY <3>5, <5>1, <5>2
      <4>2. CASE w # v
        <5>1. ~Edge(e, w) /\ (w \in connected' <=> w \in connected)  BY <3>3, <3>6, <4>2
        <5>2. (\A i \in 1..Len(entries') : ~Edge(entries'[i], w)) => (w \in told <=> w \in connected')
          BY <1>2, <3>5, <5>1
        <5>3. ASSUME NEW i \in 1..Len(entries'), Edge(entries'[i], w),
                     \A j \in 1..Len(entries') : i < j => ~Edge(entries'[j], w)
              PROVE  entries'[i].kind = "world_connected" <=> w \in connected'
          <6>1. i \in 1..Len(entries) /\ entries'[i] = entries[i]  BY <3>5, <5>1, <5>3
          <6>2. \A j \in 1..Len(entries) : i < j => ~Edge(entries[j], w)  BY <3>5, <5>3
          <6>3. QED  BY <1>2, <5>1, <5>3, <6>1, <6>2
        <5>4. QED  BY <5>2, <5>3
      <4>3. QED  BY <4>1, <4>2
    <3>8. QED  BY <2>1, <3>7 DEF EdgesTell
  <2>4. QED  BY <2>2, <2>3
<1>10. CASE Deliver
  <2>1. /\ entries # <<>> /\ entries' = Tail(entries) /\ UNCHANGED connected
        /\ told' = CASE Head(entries).kind = "world_connected" -> told \cup {Head(entries).world}
                     [] Head(entries).kind = "world_disconnected" -> told \ {Head(entries).world}
                     [] OTHER -> told
    BY <1>10 DEF Deliver
  <2>2. /\ Head(entries) = entries[1] /\ 1 \in 1..Len(entries) /\ Len(entries) \in Nat
        /\ \A i \in 1..Len(entries') : i + 1 \in 1..Len(entries) /\ entries'[i] = entries[i + 1]
                                       /\ i \in Nat /\ i + 1 # 1
        /\ \A i \in 1..Len(entries) : i # 1 => i - 1 \in 1..Len(entries') /\ (i - 1) + 1 = i
    BY <1>1, <2>1, EntryTaken
  <2>3. ASSUME NEW w \in PluginWorlds, \A i \in 1..Len(entries') : ~Edge(entries'[i], w)
        PROVE  w \in told' <=> w \in connected
    <3>1. \A i \in 1..Len(entries) : i # 1 => ~Edge(entries[i], w)  BY <2>2, <2>3
    <3>2. CASE Edge(entries[1], w)
      <4>1. entries[1].kind = "world_connected" <=> w \in connected
        <5>1. \A j \in 1..Len(entries) : 1 < j => ~Edge(entries[j], w)  BY <3>1
        <5>2. QED  BY <1>2, <2>2, <3>2, <5>1
      <4>2. w \in told' <=> entries[1].kind = "world_connected"
        BY <2>1, <2>2, <3>2 DEF Edge
      <4>3. QED  BY <4>1, <4>2
    <3>3. CASE ~Edge(entries[1], w)
      <4>1. w \in told <=> w \in connected  BY <1>2, <3>1, <3>3
      <4>2. w \in told' <=> w \in told  BY <2>1, <2>2, <3>3 DEF Edge
      <4>3. QED  BY <4>1, <4>2
    <3>4. QED  BY <3>2, <3>3
  <2>4. ASSUME NEW w \in PluginWorlds, NEW i \in 1..Len(entries'), Edge(entries'[i], w),
               \A j \in 1..Len(entries') : i < j => ~Edge(entries'[j], w)
        PROVE  entries'[i].kind = "world_connected" <=> w \in connected
    <3>1. i + 1 \in 1..Len(entries) /\ entries'[i] = entries[i + 1] /\ i \in Nat  BY <2>2
    <3>2. ASSUME NEW j \in 1..Len(entries), i + 1 < j PROVE ~Edge(entries[j], w)
      <4>1. j # 1  BY <3>1, <3>2
      <4>2. j - 1 \in 1..Len(entries') /\ (j - 1) + 1 = j /\ i < j - 1  BY <2>2, <3>1, <3>2, <4>1
      <4>3. QED  BY <2>2, <2>4, <4>2
    <3>3. QED  BY <1>2, <2>4, <3>1, <3>2
  <2>5. QED  BY <2>1, <2>3, <2>4 DEF EdgesTell
<1>11. CASE \/ StartReconciliation \/ EndDelivery \/ DismissBoss
            \/ (\E h \in Handlers : Handle(h)) \/ UNCHANGED lifecycleVars
  BY <1>3, <1>11 DEF StartReconciliation, EndDelivery, DismissBoss, Handle, queueVars, lifecycleVars
<1>12. QED
  BY <1>6, <1>7, <1>8, <1>9, <1>10, <1>11 DEF PluginLifecycleNext


\* The reconciliation stays first in steps that move or add entries for neither.
LEMMA OrderKept ==
  ASSUME LifecycleInv, ReconciliationFirst,
         \/ /\ UNCHANGED <<woken, delivering>>
            /\ \/ UNCHANGED entries
               \/ \E e \in LifecycleEntries : e.waiter = "none" /\ entries' = Append(entries, e)
         \/ Deliver \/ EndDelivery
  PROVE  ReconciliationFirst'
<1> DEFINE rec == "reconciliation"
<1>1. /\ LifecycleTypes /\ OneEntryEach /\ entries \in Seq(LifecycleEntries)
      /\ woken \in Seq(Publishers) /\ delivering \in LifecycleEntries \cup {NoEntry}
  BY DEF LifecycleInv, LifecycleTypes
<1>2. /\ \A j \in 1..Len(woken) : woken[j] = "pump" => \E i \in 1..Len(woken) : i < j /\ woken[i] = rec
      /\ delivering.waiter = "pump" => InWoken(rec)
      /\ \A j \in 1..Len(entries) : entries[j].waiter = "pump" =>
            \/ InWoken(rec) \/ delivering.waiter = rec
            \/ \E i \in 1..Len(entries) : i < j /\ entries[i].waiter = rec
  BY DEF ReconciliationFirst, InDelivery
<1>3. UNCHANGED woken => InWoken(rec)' = InWoken(rec)  BY DEF InWoken
<1>4. ASSUME UNCHANGED <<woken, delivering>>,
             \/ UNCHANGED entries
             \/ \E e \in LifecycleEntries : e.waiter = "none" /\ entries' = Append(entries, e)
      PROVE  ReconciliationFirst'
  <2>1. ASSUME NEW j \in 1..Len(entries'), entries'[j].waiter = "pump"
        PROVE  \/ InWoken(rec) \/ delivering.waiter = rec
               \/ \E i \in 1..Len(entries') : i < j /\ entries'[i].waiter = rec
    <3>1. CASE UNCHANGED entries  BY <1>2, <2>1, <3>1
    <3>2. ASSUME NEW e \in LifecycleEntries, e.waiter = "none", entries' = Append(entries, e)
          PROVE  \/ InWoken(rec) \/ delivering.waiter = rec
                 \/ \E i \in 1..Len(entries') : i < j /\ entries'[i].waiter = rec
      <4>1. /\ \A i \in 1..Len(entries) : entries'[i] = entries[i] /\ i \in 1..Len(entries')
            /\ \A i \in 1..Len(entries') : i \in 1..Len(entries) \/ entries'[i] = e
        BY <1>1, <3>2, EntryAppended
      <4>2. j \in 1..Len(entries) /\ entries[j].waiter = "pump"  BY <2>1, <3>2, <4>1
      <4>3. QED  BY <1>2, <4>1, <4>2
    <3>3. QED  BY <1>4, <3>1, <3>2
  <2>2. QED  BY <1>2, <1>3, <1>4, <2>1 DEF ReconciliationFirst, InDelivery
<1>5. CASE Deliver
  <2>1. /\ delivering = NoEntry /\ entries # <<>> /\ entries' = Tail(entries)
        /\ delivering' = Head(entries) /\ UNCHANGED woken
    BY <1>5 DEF Deliver
  <2>2. /\ Head(entries) = entries[1] /\ 1 \in 1..Len(entries)
        /\ \A i \in 1..Len(entries') : i + 1 \in 1..Len(entries) /\ entries'[i] = entries[i + 1]
                                       /\ i \in Nat /\ i + 1 # 1
        /\ \A i \in 1..Len(entries) : i # 1 => i - 1 \in 1..Len(entries') /\ (i - 1) + 1 = i
    BY <1>1, <2>1, EntryTaken
  <2>3. delivering.waiter # rec  BY <2>1 DEF NoEntry
  <2>4. delivering'.waiter = "pump" => InWoken(rec)
    BY <1>2, <2>1, <2>2, <2>3
  <2>5. ASSUME NEW j \in 1..Len(entries'), entries'[j].waiter = "pump", ~InWoken(rec),
               delivering'.waiter # rec
        PROVE  \E i \in 1..Len(entries') : i < j /\ entries'[i].waiter = rec
    <3>1. j + 1 \in 1..Len(entries) /\ entries[j + 1].waiter = "pump" /\ j \in Nat
      BY <2>2, <2>5
    <3>2. PICK i \in 1..Len(entries) : i < j + 1 /\ entries[i].waiter = rec
      BY <1>2, <2>3, <2>5, <3>1
    <3>3. i # 1  BY <2>1, <2>2, <2>5, <3>2
    <3>4. i - 1 \in 1..Len(entries') /\ entries'[i - 1] = entries[i] /\ i - 1 < j
      BY <2>2, <3>1, <3>2, <3>3
    <3>5. QED  BY <3>2, <3>4
  <2>6. QED  BY <1>2, <1>3, <2>1, <2>4, <2>5 DEF ReconciliationFirst, InDelivery
<1>6. CASE EndDelivery
  <2>1. /\ delivering' = NoEntry /\ UNCHANGED entries
        /\ woken' = IF delivering.waiter = "none" THEN woken ELSE Append(woken, delivering.waiter)
        /\ delivering # NoEntry
    BY <1>6 DEF EndDelivery, queueVars
  <2>2. delivering'.waiter = "none"  BY <2>1 DEF NoEntry
  <2>3. CASE delivering.waiter = "none"
    BY <1>2, <1>3, <2>1, <2>2, <2>3 DEF ReconciliationFirst, InDelivery
  <2>4. CASE delivering.waiter # "none"
    <3> DEFINE p == delivering.waiter
    <3>1. p \in Publishers /\ woken' = Append(woken, p)
      BY <1>1, <2>1, <2>4 DEF LifecycleEntries
    <3> HIDE DEF p
    <3>2. /\ Len(woken) \in Nat
          /\ \A i \in 1..Len(woken) : woken'[i] = woken[i] /\ i \in 1..Len(woken')
          /\ woken'[Len(woken) + 1] = p /\ Len(woken) + 1 \in 1..Len(woken')
          /\ \A i \in 1..Len(woken') : i \in 1..Len(woken) \/ i = Len(woken) + 1
      BY <1>1, <3>1, WakenAppend
    <3>3. InWoken(rec) \/ p = rec => InWoken(rec)'
      BY <3>2 DEF InWoken
    <3>4. ASSUME NEW j \in 1..Len(woken'), woken'[j] = "pump"
          PROVE  \E i \in 1..Len(woken') : i < j /\ woken'[i] = rec
      <4>1. CASE j \in 1..Len(woken)
        <5>1. PICK i \in 1..Len(woken) : i < j /\ woken[i] = rec
          BY <1>2, <3>2, <3>4, <4>1
        <5>2. QED  BY <3>2, <5>1
      <4>2. CASE j = Len(woken) + 1
        <5>1. InWoken(rec)  BY <1>2, <3>2, <3>4, <4>2 DEF p
        <5>2. PICK i \in 1..Len(woken) : woken[i] = rec  BY <5>1 DEF InWoken
        <5>3. i < j  BY <3>2, <4>2
        <5>4. QED  BY <3>2, <5>2, <5>3
      <4>3. QED  BY <3>2, <4>1, <4>2
    <3>5. \A j \in 1..Len(entries') : entries'[j].waiter = "pump" =>
            \/ InWoken(rec)'
            \/ \E i \in 1..Len(entries') : i < j /\ entries'[i].waiter = rec
      BY <1>2, <2>1, <3>3 DEF p
    <3>6. QED  BY <2>2, <3>4, <3>5 DEF ReconciliationFirst, InDelivery
  <2>5. QED  BY <2>3, <2>4
<1>7. QED  BY <1>4, <1>5, <1>6

LEMMA WorldsFollowedStep ==
  ASSUME LifecycleInv, [PluginLifecycleNext]_lifecycleVars PROVE WorldsFollowed'
<1> DEFINE rec == "reconciliation"
<1>1. /\ LifecycleTypes /\ OneEntryEach /\ entries \in Seq(LifecycleEntries)
      /\ publisher \in [Publishers -> PublisherStates] /\ woken \in Seq(Publishers)
      /\ worldsUp \subseteq PluginWorlds
      /\ "pump" \in Publishers /\ rec \in Publishers /\ Publishers = {"pump", rec}
  BY DEF LifecycleInv, LifecycleTypes, Publishers
<1>2. \A w \in PluginWorlds :
         /\ Compares("pump", w) => (publisher["pump"].value <=> w \in worldsUp)
         /\ w \notin torn /\ (\A p \in Publishers : ~Compares(p, w)) =>
                (w \in connected <=> w \in worldsUp)
         /\ w \notin torn /\ Compares(rec, w) =>
                \/ publisher[rec].value <=> w \in worldsUp
                \/ Compares("pump", w) /\ ReconciliationFirst
  BY DEF LifecycleInv, WorldsFollowed
<1>3. \A p, q : UNCHANGED publisher => (Compares(p, q)' <=> Compares(p, q))  BY DEF Compares
<1>4. ASSUME UNCHANGED <<publisher, worldsUp, connected, torn>>,
             ReconciliationFirst => ReconciliationFirst'
      PROVE  WorldsFollowed'
  BY <1>2, <1>3, <1>4 DEF WorldsFollowed
<1>5. ASSUME NEW w \in PluginWorlds, Inbound(w) PROVE WorldsFollowed'
  <2>1. /\ UNCHANGED <<woken, delivering, publisher, worldsUp, connected, torn>>
        /\ UNCHANGED entries \/ entries' = Append(entries, Entry("activity", w, "none"))
    BY <1>5 DEF Inbound, dispatchVars
  <2>2. Entry("activity", w, "none") \in LifecycleEntries /\ Entry("activity", w, "none").waiter = "none"
    BY <1>1 DEF Entry, Activation, LifecycleEntries, LifecycleTypes
  <2>3. ReconciliationFirst => ReconciliationFirst'  BY <2>1, <2>2, OrderKept
  <2>4. QED  BY <1>4, <2>1, <2>3
<1>6. CASE ActivateBoss
  <2> DEFINE e == [kind |-> "boss_activated", world |-> NoWorld, waiter |-> "none",
                   activation |-> seed + 1]
  <2>1. e \in LifecycleEntries /\ e.waiter = "none"
    BY <1>1 DEF LifecycleEntries, LifecycleTypes
  <2>2. /\ entries' = Append(entries, e)
        /\ UNCHANGED <<woken, delivering, publisher, worldsUp, connected, torn>>
    BY <1>6 DEF ActivateBoss, dispatchVars
  <2> HIDE DEF e
  <2>3. ReconciliationFirst => ReconciliationFirst'  BY <2>1, <2>2, OrderKept
  <2>4. QED  BY <1>4, <2>2, <2>3
<1>7. CASE Deliver \/ EndDelivery
  <2>1. UNCHANGED <<publisher, worldsUp, connected, torn>>  BY <1>7 DEF Deliver, EndDelivery
  <2>2. ReconciliationFirst => ReconciliationFirst'  BY <1>7, OrderKept
  <2>3. QED  BY <1>4, <2>1, <2>2
<1>8. CASE DismissBoss \/ (\E h \in Handlers : Handle(h)) \/ UNCHANGED lifecycleVars
  <2>1. UNCHANGED <<publisher, worldsUp, connected, torn, woken, delivering, entries>>
    BY <1>8 DEF DismissBoss, Handle, queueVars, dispatchVars, lifecycleVars
  <2>2. ReconciliationFirst => ReconciliationFirst'  BY <2>1, OrderKept
  <2>3. QED  BY <1>4, <2>1, <2>2
<1>9. CASE StartReconciliation
  <2>1. /\ UNCHANGED <<worldsUp, connected, torn, woken, delivering, entries>>
        /\ publisher[rec].step = "idle"
        /\ publisher' = [publisher EXCEPT ![rec] =
                           [AtRest EXCEPT !.step = "free", !.todo = PluginWorlds]]
    BY <1>9 DEF StartReconciliation, queueVars, dispatchVars
  <2>2. [AtRest EXCEPT !.step = "free", !.todo = PluginWorlds].step = "free"  BY DEF AtRest
  <2>3. ReconciliationFirst => ReconciliationFirst'  BY <2>1, OrderKept
  <2>4. /\ publisher'["pump"] = publisher["pump"] /\ publisher'[rec].step = "free"
    BY <1>1, <2>1, <2>2
  <2>5. \A w : /\ Compares("pump", w)' <=> Compares("pump", w)
               /\ ~Compares(rec, w) /\ ~Compares(rec, w)'
    BY <2>1, <2>4 DEF Compares
  <2>6. QED  BY <1>1, <1>2, <2>1, <2>4, <2>5 DEF WorldsFollowed
<1>10. ASSUME NEW v \in PluginWorlds, Change(v) PROVE WorldsFollowed'
  <2>1. /\ UNCHANGED <<connected, torn, woken, delivering>> /\ publisher["pump"].step = "idle"
        /\ publisher' = [publisher EXCEPT !["pump"] =
                        [step |-> "state", world |-> v, value |-> v \notin worldsUp, todo |-> {}]]
        /\ entries' = Append(entries, Entry("session_state", v, "pump"))
        /\ worldsUp' = IF v \in worldsUp THEN worldsUp \ {v} ELSE worldsUp \cup {v}
    BY <1>10 DEF Change, Say, dispatchVars
  <2>2. /\ v \in worldsUp' <=> v \notin worldsUp
        /\ \A w : w # v => (w \in worldsUp' <=> w \in worldsUp)
    BY <2>1
  <2>3. /\ publisher'["pump"].step = "state" /\ publisher'["pump"].world = v
        /\ publisher'["pump"].value <=> v \notin worldsUp
        /\ publisher'[rec] = publisher[rec]
    BY <1>1, <2>1
  <2>4. \A w : /\ Compares("pump", w)' <=> w = v
               /\ Compares(rec, w)' <=> Compares(rec, w)
               /\ ~Compares("pump", w)
    BY <2>1, <2>3 DEF Compares
  <2>5. ASSUME Compares(rec, v) PROVE ReconciliationFirst'
    <3>1. /\ ~InWoken("pump") /\ ~InDelivery("pump") /\ ~InEntries("pump")
      BY <1>1, <2>1 DEF OneEntryEach, Waits
    <3>2. InWoken(rec) \/ InDelivery(rec) \/ InEntries(rec)
      BY <1>1, <2>5 DEF OneEntryEach, Waits, Compares
    <3>3. Entry("session_state", v, "pump") \in LifecycleEntries  BY <1>1, SaidEntries
    <3>4. /\ Len(entries) \in Nat
          /\ \A i \in 1..Len(entries) : entries'[i] = entries[i] /\ i \in 1..Len(entries')
          /\ \A i \in 1..Len(entries') : i \in 1..Len(entries) \/ i = Len(entries) + 1
      BY <1>1, <2>1, <3>3, EntryAppended
    <3>5. /\ \A j \in 1..Len(woken') : woken'[j] # "pump"
          /\ ~InDelivery("pump")'
      BY <2>1, <3>1 DEF InWoken, InDelivery
    <3>6. ASSUME NEW j \in 1..Len(entries'), entries'[j].waiter = "pump"
          PROVE  \/ InWoken(rec)' \/ InDelivery(rec)'
                 \/ \E i \in 1..Len(entries') : i < j /\ entries'[i].waiter = rec
      <4>1. j = Len(entries) + 1  BY <3>1, <3>4, <3>6 DEF InEntries
      <4>2. InWoken(rec) => InWoken(rec)'  BY <2>1 DEF InWoken
      <4>3. InDelivery(rec) => InDelivery(rec)'  BY <2>1 DEF InDelivery
      <4>4. InEntries(rec) => \E i \in 1..Len(entries') : i < j /\ entries'[i].waiter = rec
        BY <3>4, <4>1 DEF InEntries
      <4>5. QED  BY <3>2, <4>2, <4>3, <4>4
    <3>7. QED  BY <3>5, <3>6 DEF ReconciliationFirst
  <2>6. ASSUME NEW w \in PluginWorlds
        PROVE  /\ Compares("pump", w)' => (publisher'["pump"].value <=> w \in worldsUp')
               /\ w \notin torn' /\ (\A p \in Publishers : ~Compares(p, w)') =>
                       (w \in connected' <=> w \in worldsUp')
               /\ w \notin torn' /\ Compares(rec, w)' =>
                       \/ publisher'[rec].value <=> w \in worldsUp'
                       \/ Compares("pump", w)' /\ ReconciliationFirst'
    <3>1. CASE w = v  BY <1>1, <2>2, <2>3, <2>4, <2>5, <3>1
    <3>2. CASE w # v
      <4>1. /\ w \notin torn /\ (\A p \in Publishers : ~Compares(p, w)) =>
                  (w \in connected <=> w \in worldsUp)
            /\ w \notin torn /\ Compares(rec, w) => (publisher[rec].value <=> w \in worldsUp)
        BY <1>2, <2>4
      <4>2. w \in worldsUp' <=> w \in worldsUp  BY <2>2, <3>2
      <4>3. QED  BY <1>1, <2>1, <2>3, <2>4, <3>2, <4>1, <4>2
    <3>3. QED  BY <3>1, <3>2
  <2>7. QED  BY <2>6 DEF WorldsFollowed
<1>11. ASSUME NEW v \in PluginWorlds, Reconcile(v) PROVE WorldsFollowed'
  <2>1. /\ UNCHANGED <<worldsUp, connected>> /\ publisher[rec].step = "free"
        /\ publisher' = [publisher EXCEPT ![rec] =
              [step |-> "state", world |-> v, value |-> v \in worldsUp,
               todo |-> publisher[rec].todo \ {v}]]
        /\ torn' = torn \ {v}
    BY <1>11 DEF Reconcile
  <2>2. /\ publisher'[rec].step = "state" /\ publisher'[rec].world = v
        /\ publisher'[rec].value <=> v \in worldsUp
        /\ publisher'["pump"] = publisher["pump"]
    BY <1>1, <2>1
  <2>3. \A w : /\ Compares(rec, w)' <=> w = v
               /\ Compares("pump", w)' <=> Compares("pump", w)
               /\ ~Compares(rec, w)
    BY <2>1, <2>2 DEF Compares
  <2>4. \A w : w # v => (w \in torn' <=> w \in torn)  BY <2>1
  <2>5. QED  BY <1>1, <1>2, <2>1, <2>2, <2>3, <2>4 DEF WorldsFollowed
<1>12. CASE CancelPump
  <2>1. /\ UNCHANGED <<worldsUp, connected>>
        /\ publisher' = [publisher EXCEPT !["pump"] = AtRest]
        /\ torn' = IF publisher["pump"].step = "edge" THEN torn
                   ELSE torn \cup {publisher["pump"].world}
    BY <1>12 DEF CancelPump
  <2>2. publisher'["pump"].step = "idle" /\ publisher'[rec] = publisher[rec]
    BY <1>1, <2>1 DEF AtRest
  <2>3. \A w : /\ ~Compares("pump", w)'
               /\ Compares(rec, w)' <=> Compares(rec, w)
               /\ w \notin torn' => w \notin torn /\ ~Compares("pump", w)
    BY <2>1, <2>2 DEF Compares
  <2>4. QED  BY <1>1, <1>2, <2>1, <2>2, <2>3 DEF WorldsFollowed
<1>13. ASSUME NEW p \in Publishers, ResumePublisher(p) PROVE WorldsFollowed'
  <2>1. /\ woken # <<>> /\ woken[1] = p /\ UNCHANGED <<worldsUp, torn>>
        /\ publisher[p].step = "state" => publisher[p].world \in PluginWorlds
        /\ \A q \in Publishers : q # p => publisher'[q] = publisher[q]
        /\ publisher'[p].step # "state"
        /\ \/ /\ publisher[p].step = "state"
              /\ connected' = IF publisher[p].value THEN connected \cup {publisher[p].world}
                              ELSE connected \ {publisher[p].world}
           \/ /\ publisher[p].step = "state" =>
                     (publisher[p].value <=> publisher[p].world \in connected)
              /\ UNCHANGED connected
    BY <1>1, <1>13, ResumeStep
  <2>2. \A w : /\ ~Compares(p, w)'
               /\ \A q \in Publishers : q # p => (Compares(q, w)' <=> Compares(q, w))
    BY <2>1 DEF Compares
  <2>3. \A w : /\ Compares(p, w) => (w \in connected' <=> publisher[p].value)
               /\ ~Compares(p, w) => (w \in connected' <=> w \in connected)
    BY <2>1 DEF Compares
  <2>4. CASE p = "pump"
    <3>1. ~ReconciliationFirst
      <4>1. 1 \in 1..Len(woken) /\ \A i \in 1..Len(woken) : ~(i < 1)
        <5>1. Len(woken) \in Nat /\ Len(woken) # 0  BY <1>1, <2>1
        <5>2. QED  BY <5>1
      <4>2. QED  BY <2>1, <2>4, <4>1 DEF ReconciliationFirst
    <3>2. publisher'[rec] = publisher[rec]  BY <1>1, <2>1, <2>4
    <3>3. \A w : ~Compares("pump", w)' /\ (Compares(rec, w)' <=> Compares(rec, w))
      BY <1>1, <2>2, <2>4
    <3>4. ASSUME NEW w \in PluginWorlds, w \notin torn', \A q \in Publishers : ~Compares(q, w)'
          PROVE  w \in connected' <=> w \in worldsUp'
      <4>1. ~Compares(rec, w) /\ w \notin torn  BY <1>1, <2>1, <3>3, <3>4
      <4>2. CASE Compares("pump", w)  BY <1>2, <2>1, <2>3, <2>4, <4>2
      <4>3. CASE ~Compares("pump", w)
        BY <1>1, <1>2, <2>1, <2>3, <2>4, <4>1, <4>3
      <4>4. QED  BY <4>2, <4>3
    <3>5. \A w \in PluginWorlds : w \notin torn' /\ Compares(rec, w)' =>
             (publisher'[rec].value <=> w \in worldsUp')
      BY <1>2, <2>1, <3>1, <3>2, <3>3
    <3>6. QED  BY <3>3, <3>4, <3>5 DEF WorldsFollowed
  <2>5. CASE p = rec
    <3>1. publisher'["pump"] = publisher["pump"]  BY <1>1, <2>1, <2>5
    <3>2. \A w : ~Compares(rec, w)' /\ (Compares("pump", w)' <=> Compares("pump", w))
      BY <1>1, <2>2, <2>5
    <3>3. ASSUME NEW w \in PluginWorlds, w \notin torn', \A q \in Publishers : ~Compares(q, w)'
          PROVE  w \in connected' <=> w \in worldsUp'
      <4>1. ~Compares("pump", w) /\ w \notin torn  BY <1>1, <2>1, <3>2, <3>3
      <4>2. CASE Compares(rec, w)  BY <1>2, <2>1, <2>3, <2>5, <4>1, <4>2
      <4>3. CASE ~Compares(rec, w)
        BY <1>1, <1>2, <2>1, <2>3, <2>5, <4>1, <4>3
      <4>4. QED  BY <4>2, <4>3
    <3>4. \A w \in PluginWorlds : Compares("pump", w)' =>
             (publisher'["pump"].value <=> w \in worldsUp')
      BY <1>2, <2>1, <3>1, <3>2
    <3>5. QED  BY <3>2, <3>3, <3>4 DEF WorldsFollowed
  <2>6. QED  BY <1>1, <2>4, <2>5
<1>14. QED
  BY <1>5, <1>6, <1>7, <1>8, <1>9, <1>10, <1>11, <1>12, <1>13 DEF PluginLifecycleNext

\* Whatever is merged, cancelled and reconciled, when the queue is empty and nobody publishes
\* the handlers know every inbound event and the state of every world (plugins.py
\* publish_session_state, _dispatch_lifecycle_events).
THEOREM HandlersKnow == PluginLifecycleSpec => []HandlersUpToDate
<1>1. PluginLifecycleInit => LifecycleInv
  <2> SUFFICES ASSUME PluginLifecycleInit PROVE LifecycleInv
    OBVIOUS
  <2>1. /\ worldsUp = {} /\ connected = {} /\ told = {} /\ torn = {} /\ seed = 0
        /\ woken = <<>> /\ entries = <<>> /\ merged = <<>> /\ seen = 0 /\ heard = 0
        /\ delivering = NoEntry /\ publisher = [p \in Publishers |-> AtRest]
    BY DEF PluginLifecycleInit
  <2>2. /\ AtRest \in PublisherStates /\ AtRest.step = "idle" /\ AtRest.todo = {}
        /\ NoEntry.waiter = "none" /\ "pump" \in Publishers /\ "none" \notin Publishers
    BY DEF AtRest, PublisherStates, NoEntry, Publishers
  <2>3. /\ <<>> \in Seq(LifecycleEntries) /\ <<>> \in Seq(Publishers) /\ Len(<<>>) = 0
        /\ DOMAIN <<>> = {}
    OBVIOUS
  <2>4. publisher \in [Publishers -> PublisherStates] /\ \A p \in Publishers : publisher[p].step = "idle"
        /\ publisher["pump"].todo = {}
    BY <2>1, <2>2
  <2>5. LifecycleTypes  BY <2>1, <2>2, <2>3, <2>4 DEF LifecycleTypes
  <2>6. ActivityCounted
    <3>1. DOMAIN merged = {}  BY <2>1, <2>3
    <3>2. Tokens = {}  BY <3>1 DEF Tokens
    <3>3. IsFiniteSet(Tokens) /\ Cardinality(Tokens) = 0  BY <3>2, FS_EmptySet
    <3>4. QED  BY <2>1, <2>3, <3>1, <3>3 DEF ActivityCounted
  <2>7. OneEntryEach
    BY <2>1, <2>2, <2>3, <2>4 DEF OneEntryEach, InWoken, InDelivery, InEntries, Waits
  <2>8. EdgesTell  BY <2>1, <2>3 DEF EdgesTell
  <2>9. WorldsFollowed  BY <2>1, <2>4, <2>2 DEF WorldsFollowed, Compares, Publishers
  <2>10. QED  BY <2>5, <2>6, <2>7, <2>8, <2>9 DEF LifecycleInv
<1>2. LifecycleInv /\ [PluginLifecycleNext]_lifecycleVars => LifecycleInv'
  BY LifecycleTypesStep, ActivityCountedStep, OneEntryEachStep, EdgesTellStep, WorldsFollowedStep
     DEF LifecycleInv
<1>3. LifecycleInv => HandlersUpToDate
  <2> SUFFICES ASSUME LifecycleInv, entries = <<>>, torn = {},
                      \A p \in Publishers : publisher[p].step = "idle"
               PROVE  told = worldsUp /\ heard = seen
    BY DEF HandlersUpToDate
  <2>1. Len(entries) = 0  OBVIOUS
  <2>2. \A w \in PluginWorlds : w \in told <=> w \in connected
    BY <2>1 DEF LifecycleInv, EdgesTell
  <2>3. \A w \in PluginWorlds : w \in connected <=> w \in worldsUp
    BY DEF LifecycleInv, WorldsFollowed, Compares
  <2>4. told = worldsUp  BY <2>2, <2>3 DEF LifecycleInv, LifecycleTypes
  <2>5. DOMAIN merged = {}
    <3>1. \A k \in DOMAIN merged : \E i \in 1..Len(entries) : entries[i].kind = "activity"
      BY DEF LifecycleInv, ActivityCounted
    <3>2. 1..Len(entries) = {}  BY <2>1
    <3>3. QED  BY <3>1, <3>2
  <2>6. Tokens = {}  BY <2>5 DEF Tokens
  <2>7. Cardinality(Tokens) = 0  BY <2>6, FS_EmptySet
  <2>8. heard + Cardinality(Tokens) = seen /\ heard \in Nat
    BY DEF LifecycleInv, ActivityCounted
  <2>9. QED  BY <2>4, <2>7, <2>8
<1>4. QED  BY <1>1, <1>2, <1>3, PTL DEF PluginLifecycleSpec

-----------------------------------------------------------------------------
(* The transcript of a browser: WebFeed.                                   *)

WebMessages ==
    [type : {"hello"}, generation : Nat, gap : BOOLEAN]
      \cup [type : {"event", "cursor", "ready"}, cursor : Nat]

WebTypes ==
    /\ log \in Seq([generation : Nat, visible : BOOLEAN]) /\ worldGen \in Nat /\ evicted \in Nat
    /\ snapshot \in [after : Nat, cursor : Nat, selected : SUBSET Nat, gaps : SUBSET Nat]
    /\ liveQueue \in Seq(Nat) /\ stream \in Seq(WebMessages)
    /\ session \in {"closed", "subscribed", "sending"}
    /\ browser \in [cursor : Nat, ready : BOOLEAN, generation : Nat, events : Seq(Nat)]

\* The events a browser may see, and those of them that no snapshot will have any more.
Seen == {i \in DOMAIN log : log[i].visible}
Behind(i) == {j \in Seen : j > i}
Hidden(i) == \/ i <= evicted
             \/ Cardinality(Behind(i)) >= SnapshotLimit \/ Cardinality(Behind(i)) >= FitLimit

GenerationsRise ==
    /\ \A i, j \in DOMAIN log : i < j => log[i].generation <= log[j].generation
    /\ \A i \in DOMAIN log : log[i].generation <= worldGen

\* In a set of events: from the first of its generation up to the cursor c none is missing.
NoHole(E, g, c) ==
    \A i \in Seen, j \in E :
        j < i /\ i <= c /\ log[i].generation = g /\ log[j].generation = g => i \in E

PageSound ==
    LET e == browser.events IN
    /\ \A j, k \in DOMAIN e : j < k => e[j] < e[k]
    /\ Transcript \subseteq Seen /\ browser.cursor <= Len(log)
    /\ \A i \in Transcript : log[i].generation <= browser.generation
    /\ browser.generation <= worldGen
    /\ \A i \in Seen, j \in Transcript :
           browser.cursor < i /\ i < j /\ i \notin Transcript => Hidden(i)
    /\ ~blind => NoHole(Transcript, browser.generation, browser.cursor)

\* P is on its way to a page that is not ready, from a snapshot taken at c.
OnTheWay(P, c) ==
    /\ ~browser.ready /\ browser.cursor <= c /\ c <= Len(log)
    /\ \A i \in P : i \in Seen /\ browser.cursor < i /\ i <= c
    /\ \A i \in Transcript : i <= c
    /\ \A i \in P, j \in Transcript : i < j => i \in Transcript

\* What is in the snapshot at c but not in P is out of reach, and older than P.
RestHidden(P, c) ==
    /\ \A i \in Seen : browser.cursor < i /\ i <= c /\ i \notin P => Hidden(i)
    /\ \A i \in Seen, j \in P : j < i /\ i <= c => i \in P

SubscribedSound ==
    LET P == Newest(snapshot.selected, FitLimit)
        c == snapshot.cursor
    IN /\ stream = <<>>
       /\ OnTheWay(P, c) /\ RestHidden(P, c)
       /\ snapshot.after = browser.cursor /\ snapshot.selected \subseteq Seen
       /\ browser.cursor = 0 /\ ~blind => Transcript = {}
       /\ \A i \in Seen : /\ browser.cursor > 0 /\ browser.cursor < i /\ i <= c
                          /\ log[i].generation = worldGen /\ worldGen \notin snapshot.gaps
                          => i \in snapshot.selected

Announced(P, c, m) ==
    /\ RestHidden(P, c)
    /\ m.generation <= worldGen /\ browser.generation <= m.generation
    /\ \A i \in Seen : i <= c => log[i].generation <= m.generation
    /\ ~m.gap /\ ~blind =>
         \/ Transcript = {}
         \/ \A i \in Seen : browser.cursor < i /\ i <= c /\ log[i].generation = m.generation
                            => i \in P

Following(P, c) ==
    /\ \A i \in P : log[i].generation <= browser.generation
    /\ \A i \in Seen : browser.cursor < i /\ i <= c /\ i \notin P \cup Transcript => Hidden(i)
    /\ ~blind => NoHole(P \cup Transcript, browser.generation, c)

\* The stream: the announced events P, the "ready" at place r with the cursor c, and then
\* every event after c; r = 0 when the page is ready.
Announcement(P, c, r) ==
    IF r = 0
    THEN browser.ready /\ P = {} /\ c = browser.cursor /\ \A i \in Transcript : i <= c
    ELSE /\ r \in DOMAIN stream /\ stream[r].type = "ready" /\ stream[r].cursor = c
         /\ OnTheWay(P, c)
         /\ \A k \in DOMAIN stream : k < r /\ stream[k].type # "event" =>
                k = 1 /\ stream[k].type = "hello"
         /\ \A k \in DOMAIN stream : k < r /\ stream[k].type = "event" => stream[k].cursor \in P
         /\ \A i \in P : \E k \in DOMAIN stream :
                k < r /\ stream[k].type = "event" /\ stream[k].cursor = i
         /\ \A j, k \in DOMAIN stream :
                j < k /\ k < r /\ stream[j].type = "event" => stream[j].cursor < stream[k].cursor
         /\ IF stream[1].type = "hello" THEN Announced(P, c, stream[1]) ELSE Following(P, c)

\* Every event after c follows at place r: in the stream, and then in the queue.
Live(c, r) ==
    \A k \in DOMAIN stream : k > r =>
        /\ stream[k].cursor = c + (k - r)
        /\ stream[k].type = IF log[c + (k - r)].visible THEN "event" ELSE "cursor"
LiveFrom(c, n) ==
    /\ c + n <= Len(log)
    /\ \/ liveQueue # <<>> /\ liveQueue[1] = 0
       \/ c + n + Len(liveQueue) = Len(log) /\ \A k \in DOMAIN liveQueue : liveQueue[k] = c + n + k

SendingSound ==
    \E r \in 0..Len(stream), c \in 0..Len(log), P \in SUBSET (1..Len(log)) :
        Announcement(P, c, r) /\ Live(c, r) /\ LiveFrom(c, Len(stream) - r)

SessionSound ==
    /\ session = "closed" => stream = <<>> /\ ~browser.ready
    /\ session = "subscribed" => SubscribedSound /\ LiveFrom(snapshot.cursor, 0)
    /\ session = "sending" => SendingSound

TranscriptInv == WebTypes /\ GenerationsRise /\ PageSound /\ SessionSound

\* Nth lists a finite set of numbers in rising order.
LEMMA NthLists ==
  ASSUME NEW S \in SUBSET Nat, IsFiniteSet(S)
  PROVE  /\ Cardinality(S) \in Nat
         /\ \A n \in 1..Cardinality(S) : Nth(S, n) \in S
         /\ \A m, n \in 1..Cardinality(S) : m < n => Nth(S, m) < Nth(S, n)
         /\ \A i \in S : \E n \in 1..Cardinality(S) : Nth(S, n) = i
<1> DEFINE upTo(i) == {j \in S : j <= i}
           top == Cardinality(S)
           rank == [i \in S |-> Cardinality(upTo(i))]
<1>1. top \in Nat /\ IsFiniteSet(1..top) /\ Cardinality(1..top) = top
  BY FS_CardinalityType, FS_Interval
<1>2. ASSUME NEW i \in S
      PROVE  IsFiniteSet(upTo(i)) /\ Cardinality(upTo(i)) \in 1..top
  <2>1. IsFiniteSet(upTo(i)) /\ Cardinality(upTo(i)) <= top  BY FS_Subset
  <2>2. Cardinality(upTo(i)) \in Nat  BY <2>1, FS_CardinalityType
  <2>3. i \in upTo(i)  OBVIOUS
  <2>4. Cardinality(upTo(i)) # 0  BY <2>1, <2>3, FS_EmptySet
  <2>5. QED  BY <1>1, <2>1, <2>2, <2>4
<1>3. ASSUME NEW i \in S, NEW j \in S, i < j
      PROVE  rank[i] < rank[j]
  <2>1. upTo(i) \in SUBSET upTo(j)
    <3>1. \A x \in S : x \in Nat /\ i \in Nat /\ j \in Nat /\ (x <= i => x <= j)  BY <1>3
    <3>2. QED  BY <3>1
  <2>2. j \in upTo(j) /\ j \notin upTo(i)  BY <1>3
  <2>3. Cardinality(upTo(i)) <= Cardinality(upTo(j))
        /\ Cardinality(upTo(i)) # Cardinality(upTo(j))
    BY <1>2, <2>1, <2>2, FS_Subset
  <2>4. Cardinality(upTo(i)) \in Nat /\ Cardinality(upTo(j)) \in Nat  BY <1>2
  <2> HIDE DEF upTo
  <2>5. QED  BY <2>3, <2>4
<1>4. rank \in [S -> 1..top] /\ \A i \in S : rank[i] = Cardinality(upTo(i))  BY <1>2
<1> HIDE DEF rank, top
<1>5. \A i, j \in S : rank[i] = rank[j] => i = j
  <2> SUFFICES ASSUME NEW i \in S, NEW j \in S, i # j PROVE rank[i] # rank[j]
    OBVIOUS
  <2>1. i \in Nat /\ j \in Nat /\ rank[i] \in Nat /\ rank[j] \in Nat  BY <1>4
  <2>2. CASE i < j  BY <1>3, <2>1, <2>2
  <2>3. CASE j < i  BY <1>3, <2>1, <2>3
  <2>4. QED  BY <2>1, <2>2, <2>3
<1>6. rank \in Surjection(S, 1..top)
  <2>1. rank \in Injection(S, 1..top)  BY <1>4, <1>5 DEF Injection, IsInjective
  <2>2. QED  BY <1>1, <2>1, FS_Injection DEF top
<1>7. ASSUME NEW n \in 1..top PROVE Nth(S, n) \in S /\ rank[Nth(S, n)] = n
  <2>1. PICK i \in S : rank[i] = n  BY <1>6 DEF Surjection
  <2>2. i \in S /\ Cardinality({j \in S : j <= i}) = n  BY <1>4, <2>1
  <2>3. Nth(S, n) \in S /\ Cardinality({j \in S : j <= Nth(S, n)}) = n  BY <2>2 DEF Nth
  <2>4. QED  BY <1>4, <2>3
<1>8. ASSUME NEW m \in 1..top, NEW n \in 1..top, m < n PROVE Nth(S, m) < Nth(S, n)
  <2>1. PICK i \in S : i = Nth(S, m) /\ rank[i] = m  BY <1>7
  <2>2. PICK j \in S : j = Nth(S, n) /\ rank[j] = n  BY <1>7
  <2>3. ~(j < i) /\ i # j
    <3>1. rank[i] \in Nat /\ rank[j] \in Nat /\ rank[i] < rank[j]  BY <1>1, <1>8, <2>1, <2>2
    <3>2. QED  BY <1>3, <3>1
  <2>4. i < j  BY <2>3
  <2>5. QED  BY <2>1, <2>2, <2>4
<1>9. ASSUME NEW i \in S PROVE \E n \in 1..top : Nth(S, n) = i
  <2>1. rank[i] \in 1..top  BY <1>4
  <2>2. Nth(S, rank[i]) \in S /\ rank[Nth(S, rank[i])] = rank[i]  BY <1>7, <2>1
  <2>3. QED  BY <1>5, <2>1, <2>2
<1>10. QED  BY <1>1, <1>7, <1>8, <1>9 DEF top

\* The events of a snapshot, as they are sent.
LEMMA EventsOfLists ==
  ASSUME NEW S \in SUBSET Nat, IsFiniteSet(S)
  PROVE  /\ EventsOf(S) \in Seq([type : {"event"}, cursor : Nat])
         /\ \A k \in 1..Len(EventsOf(S)) : EventsOf(S)[k].cursor \in S
         /\ \A j, k \in 1..Len(EventsOf(S)) : j < k => EventsOf(S)[j].cursor < EventsOf(S)[k].cursor
         /\ \A i \in S : \E k \in 1..Len(EventsOf(S)) : EventsOf(S)[k].cursor = i
<1>1. PICK n \in Nat : n = Cardinality(S)  BY NthLists
<1>2. /\ \A k \in 1..n : Nth(S, k) \in S /\ Nth(S, k) \in Nat
      /\ \A j, k \in 1..n : j < k => Nth(S, j) < Nth(S, k)
      /\ \A i \in S : \E k \in 1..n : Nth(S, k) = i
  BY <1>1, NthLists
<1>3. PICK e : e = EventsOf(S)  OBVIOUS
<1>4. e = [k \in 1..n |-> [type |-> "event", cursor |-> Nth(S, k)]]  BY <1>1, <1>3 DEF EventsOf
<1>5. e \in Seq([type : {"event"}, cursor : Nat]) /\ Len(e) = n /\ \A k \in 1..n : e[k].cursor = Nth(S, k)
  <2>1. \A k \in 1..n : [type |-> "event", cursor |-> Nth(S, k)] \in [type : {"event"}, cursor : Nat]
    BY <1>2
  <2>2. e \in [1..n -> [type : {"event"}, cursor : Nat]]  BY <1>4, <2>1
  <2>3. e \in Seq([type : {"event"}, cursor : Nat]) /\ Len(e) = n
    <3> DEFINE M == [type : {"event"}, cursor : Nat]
    <3>1. e \in [1..n -> M]  BY <2>2
    <3> HIDE DEF M
    <3>2. e \in Seq(M) /\ Len(e) = n  BY <1>1, <3>1
    <3>3. QED  BY <3>2 DEF M
  <2>4. QED  BY <1>4, <2>3
<1>6. QED  BY <1>2, <1>3, <1>5

\* What Without leaves: all events of other generations, in their order.
LEMMA WithoutKeeps ==
  ASSUME NEW e \in Seq(Nat), NEW g, NEW w, w = Without(e, g)
  PROVE  /\ w \in Seq(Nat)
         /\ \A x : (\E k \in 1..Len(w) : w[k] = x) <=>
                   (\E j \in 1..Len(e) : e[j] = x /\ log[x].generation # g)
         /\ (\A i, j \in 1..Len(e) : i < j => e[i] < e[j]) =>
                \A i, j \in 1..Len(w) : i < j => w[i] < w[j]
<1> DEFINE kept == {k \in DOMAIN e : log[e[k]].generation # g}
<1>1. kept \in SUBSET Nat /\ IsFiniteSet(kept) /\ DOMAIN e = 1..Len(e)
  <2>1. DOMAIN e = 1..Len(e) /\ Len(e) \in Nat  OBVIOUS
  <2>2. IsFiniteSet(1..Len(e))  BY <2>1, FS_Interval
  <2>3. IsFiniteSet(kept)  BY <2>1, <2>2, FS_Subset
  <2>4. QED  BY <2>1, <2>3
<1>2. \A k \in kept : k \in 1..Len(e) /\ log[e[k]].generation # g  BY <1>1
<1>3. \A k \in 1..Len(e) : log[e[k]].generation # g => k \in kept  BY <1>1
<1>5. w = [n \in 1..Cardinality(kept) |-> e[Nth(kept, n)]]  BY DEF Without
<1> HIDE DEF kept
<1>6. PICK n \in Nat : n = Cardinality(kept)  BY <1>1, NthLists
<1>7. /\ \A k \in 1..n : Nth(kept, k) \in kept
      /\ \A j, k \in 1..n : j < k => Nth(kept, j) < Nth(kept, k)
      /\ \A i \in kept : \E k \in 1..n : Nth(kept, k) = i
  BY <1>1, <1>6, NthLists
<1>8. /\ w \in Seq(Nat) /\ Len(w) = n /\ \A k \in 1..n : w[k] = e[Nth(kept, k)]
  <2>1. \A k \in 1..n : e[Nth(kept, k)] \in Nat  BY <1>2, <1>7
  <2>2. w \in [1..n -> Nat]  BY <1>5, <1>6, <2>1
  <2>3. QED  BY <1>5, <1>6, <2>2
<1>9. \A k \in 1..n : \E j \in 1..Len(e) : w[k] = e[j] /\ log[e[j]].generation # g
  BY <1>2, <1>7, <1>8
<1>10. ASSUME NEW j \in 1..Len(e), log[e[j]].generation # g PROVE \E k \in 1..n : w[k] = e[j]
  <2>1. PICK k \in 1..n : Nth(kept, k) = j  BY <1>3, <1>7, <1>10
  <2>2. QED  BY <1>8, <2>1
<1>11. ASSUME \A i, j \in 1..Len(e) : i < j => e[i] < e[j], NEW i \in 1..n, NEW j \in 1..n, i < j
       PROVE  w[i] < w[j]
  <2>1. Nth(kept, i) \in 1..Len(e) /\ Nth(kept, j) \in 1..Len(e)  BY <1>2, <1>7
  <2>2. Nth(kept, i) < Nth(kept, j)  BY <1>7, <1>11
  <2>3. QED  BY <1>8, <1>11, <2>1, <2>2
<1>12. ASSUME NEW x
       PROVE  (\E k \in 1..n : w[k] = x) <=> (\E j \in 1..Len(e) : e[j] = x /\ log[x].generation # g)
  <2>1. ASSUME NEW k \in 1..n, w[k] = x
        PROVE  \E j \in 1..Len(e) : e[j] = x /\ log[x].generation # g
    <3>1. PICK j \in 1..Len(e) : w[k] = e[j] /\ log[e[j]].generation # g  BY <1>9, <2>1
    <3>2. QED  BY <2>1, <3>1
  <2>2. ASSUME NEW j \in 1..Len(e), e[j] = x, log[x].generation # g
        PROVE  \E k \in 1..n : w[k] = x
    BY <1>10, <2>2
  <2>3. QED  BY <2>1, <2>2
<1>13. QED  BY <1>8, <1>11, <1>12

LEMMA SeenIsFinite ==
  ASSUME WebTypes
  PROVE  /\ Seen \subseteq Nat /\ IsFiniteSet(Seen) /\ Len(log) \in Nat /\ DOMAIN log = 1..Len(log)
         /\ \A i : IsFiniteSet(Behind(i)) /\ Cardinality(Behind(i)) \in Nat
<1>1. Len(log) \in Nat /\ DOMAIN log = 1..Len(log)  BY DEF WebTypes
<1>2. IsFiniteSet(Seen)
  <2>1. IsFiniteSet(1..Len(log))  BY <1>1, FS_Interval
  <2>2. Seen \in SUBSET (1..Len(log))  BY <1>1 DEF Seen
  <2>3. QED  BY <2>1, <2>2, FS_Subset
<1>3. Seen \subseteq Nat  BY <1>1 DEF Seen
<1>4. ASSUME NEW i PROVE IsFiniteSet(Behind(i)) /\ Cardinality(Behind(i)) \in Nat
  <2>1. Behind(i) \in SUBSET Seen  BY DEF Behind
  <2>2. IsFiniteSet(Behind(i))  BY <1>2, <2>1, FS_Subset
  <2>3. QED  BY <2>2, FS_CardinalityType
<1>5. QED  BY <1>1, <1>2, <1>3, <1>4

\* A snapshot has every event after the cursor that is not out of reach.
LEMMA SnapshotHasTheRest ==
  ASSUME WebTypes, NEW R, R = {i \in Seen : i > browser.cursor /\ i > evicted}
  PROVE  LET S == Newest(R, SnapshotLimit)
             P == Newest(S, FitLimit)
         IN  /\ P \subseteq S /\ S \subseteq R
             /\ \A i \in Seen : i > browser.cursor => (i \in P <=> ~Hidden(i))
<1> DEFINE S == Newest(R, SnapshotLimit)
           P == Newest(S, FitLimit)
<1>1. /\ Seen \subseteq Nat /\ \A i : IsFiniteSet(Behind(i)) /\ Cardinality(Behind(i)) \in Nat
      /\ browser.cursor \in Nat /\ evicted \in Nat
  BY SeenIsFinite DEF WebTypes
<1>2. SnapshotLimit \in Nat /\ FitLimit \in Nat  BY WebFeedAssumption
<1>3. ASSUME NEW i \in R PROVE {j \in R : j > i} = Behind(i)
  <2>1. i \in Nat /\ i > browser.cursor /\ i > evicted  BY <1>1
  <2>2. \A j \in Seen : j > i => j \in R  BY <1>1, <2>1
  <2>3. QED  BY <2>2 DEF Behind
<1>4. \A i \in R : i \in S <=> Cardinality(Behind(i)) < SnapshotLimit
  BY <1>3 DEF Newest
<1>5. P \subseteq S /\ S \subseteq R  BY DEF Newest
<1>6. ASSUME NEW i \in S PROVE {j \in S : j > i} = Behind(i)
  <2>1. i \in R /\ Cardinality(Behind(i)) < SnapshotLimit  BY <1>4, <1>5
  <2>2. ASSUME NEW j \in Behind(i) PROVE j \in S
    <3>1. j \in R /\ j > i /\ i \in Nat /\ j \in Nat
      <4>1. j \in {k \in R : k > i}  BY <1>3, <2>1
      <4>2. QED  BY <1>1, <2>1, <4>1
    <3>2. Behind(j) \in SUBSET Behind(i)
      <4>1. \A k \in Seen : k > j => k > i  BY <1>1, <3>1
      <4>2. QED  BY <4>1 DEF Behind
    <3>3. Cardinality(Behind(j)) <= Cardinality(Behind(i))  BY <1>1, <3>2, FS_Subset
    <3>4. Cardinality(Behind(j)) < SnapshotLimit  BY <1>1, <1>2, <2>1, <3>3
    <3>5. QED  BY <1>4, <3>1, <3>4
  <2>3. \A j \in S : j > i => j \in Behind(i)  BY <1>5 DEF Behind
  <2>4. \A j \in Behind(i) : j > i  BY DEF Behind
  <2>5. QED  BY <2>2, <2>3, <2>4
<1>7. \A i \in S : i \in P <=> Cardinality(Behind(i)) < FitLimit
  BY <1>6 DEF Newest
<1>8. ASSUME NEW i \in Seen, i > browser.cursor PROVE i \in P <=> ~Hidden(i)
  <2>1. i \in R <=> ~(i <= evicted)  BY <1>1, <1>8
  <2>2. Cardinality(Behind(i)) < SnapshotLimit <=> ~(Cardinality(Behind(i)) >= SnapshotLimit)
    BY <1>1, <1>2
  <2>3. Cardinality(Behind(i)) < FitLimit <=> ~(Cardinality(Behind(i)) >= FitLimit)
    BY <1>1, <1>2
  <2> HIDE DEF P, S
  <2>4. QED  BY <1>4, <1>5, <1>7, <2>1, <2>2, <2>3 DEF Hidden
<1>9. QED  BY <1>5, <1>8

\* The log only grows, and the history loses only its oldest events.
LogGrows ==
    /\ Len(log) <= Len(log') /\ evicted <= evicted'
    /\ \A i \in DOMAIN log : i \in DOMAIN log' /\ log'[i] = log[i]

LEMMA HiddenStays ==
  ASSUME WebTypes, WebTypes', LogGrows, NEW i \in Nat, Hidden(i)
  PROVE  Hidden(i)'
<1>1. Behind(i) \in SUBSET (Behind(i)')  BY DEF LogGrows, Behind, Seen
<1>2. Cardinality(Behind(i)) \in Nat  BY SeenIsFinite
<1>3. IsFiniteSet(Behind(i)') /\ Cardinality(Behind(i)') \in Nat
  <2>1. Len(log') \in Nat /\ DOMAIN log' = 1..Len(log')  BY DEF WebTypes
  <2>2. IsFiniteSet(1..Len(log'))  BY <2>1, FS_Interval
  <2>3. Behind(i)' \in SUBSET (1..Len(log'))  BY <2>1 DEF Behind, Seen
  <2>4. IsFiniteSet(Behind(i)')  BY <2>2, <2>3, FS_Subset
  <2>5. QED  BY <2>4, FS_CardinalityType
<1>4. Cardinality(Behind(i)) <= Cardinality(Behind(i)')  BY <1>1, <1>3, FS_Subset
<1>5. SnapshotLimit \in Nat /\ FitLimit \in Nat  BY WebFeedAssumption
<1>6. evicted \in Nat /\ evicted' \in Nat /\ evicted <= evicted'  BY DEF WebTypes, LogGrows
<1>7. QED  BY <1>2, <1>3, <1>4, <1>5, <1>6 DEF Hidden

LEMMA LogEntries ==
  ASSUME WebTypes PROVE \A i \in DOMAIN log : log[i].generation \in Nat
<1> DEFINE M == [generation : Nat, visible : BOOLEAN]
<1>1. log \in Seq(M)  BY DEF WebTypes
<1> HIDE DEF M
<1>2. \A i \in DOMAIN log : log[i] \in M  BY <1>1
<1>3. QED  BY <1>2 DEF M

\* What comes first is known: an announced event, the "ready", or the event after the cursor.
LEMMA StreamIsKnown ==
  ASSUME TranscriptInv, stream # <<>>
  PROVE  /\ session = "sending" /\ stream[1] \in WebMessages
         /\ stream[1].type = "event" => stream[1].cursor \in DOMAIN log
<1>1. /\ stream \in Seq(WebMessages) /\ Len(stream) \in Nat /\ DOMAIN stream = 1..Len(stream)
      /\ 1 \in DOMAIN stream /\ stream[1] \in WebMessages
  BY DEF TranscriptInv, WebTypes
<1>2. session = "sending" /\ SendingSound
  BY DEF TranscriptInv, WebTypes, SessionSound, SubscribedSound
<1>3. PICK r \in 0..Len(stream), c \in 0..Len(log), P \in SUBSET (1..Len(log)) :
        /\ Announcement(P, c, r)
        /\ \A k \in DOMAIN stream : k > r => stream[k].cursor = c + (k - r)
        /\ LiveFrom(c, Len(stream) - r)
  BY <1>2 DEF SendingSound, Live
<1>4. Len(log) \in Nat /\ DOMAIN log = 1..Len(log)  BY DEF TranscriptInv, WebTypes
<1>5. ASSUME stream[1].type = "event" PROVE stream[1].cursor \in DOMAIN log
  <2>1. CASE r = 0
    <3>1. stream[1].cursor = c + 1 /\ c + Len(stream) <= Len(log)
      BY <1>1, <1>3, <2>1 DEF LiveFrom
    <3>2. QED  BY <1>1, <1>4, <3>1
  <2>2. CASE r # 0
    <3>1. stream[r].type = "ready" /\ r \in DOMAIN stream  BY <1>3, <2>2 DEF Announcement
    <3>2. r # 1  BY <1>5, <3>1
    <3>3. 1 < r  BY <1>1, <3>1, <3>2
    <3>4. stream[1].cursor \in P  BY <1>1, <1>3, <1>5, <2>2, <3>3 DEF Announcement
    <3>5. QED  BY <1>4, <3>4
  <2>3. QED  BY <2>1, <2>2
<1>6. QED  BY <1>1, <1>2, <1>5

LEMMA WebTypesStep == TranscriptInv /\ [WebFeedNext]_webFeedVars => WebTypes'
<1> SUFFICES ASSUME TranscriptInv, [WebFeedNext]_webFeedVars PROVE WebTypes'
  OBVIOUS
<1>0. WebTypes  BY DEF TranscriptInv
<1> USE <1>0
<1>1. CASE UNCHANGED webFeedVars  BY <1>1 DEF WebTypes, webFeedVars
<1>2. ASSUME NEW visible \in BOOLEAN, PublishEvent(visible) PROVE WebTypes'
  <2>1. log' \in Seq([generation : Nat, visible : BOOLEAN])
    <3>1. [generation |-> worldGen, visible |-> visible] \in [generation : Nat, visible : BOOLEAN]
      BY DEF WebTypes
    <3> DEFINE M == [generation : Nat, visible : BOOLEAN]
               m == [generation |-> worldGen, visible |-> visible]
    <3>2. m \in M /\ log \in Seq(M) /\ log' = Append(log, m)  BY <1>2, <3>1 DEF WebTypes, PublishEvent
    <3> HIDE DEF M, m
    <3>3. log' \in Seq(M)  BY <3>2
    <3>4. QED  BY <3>3 DEF M
  <2>2. liveQueue' \in Seq(Nat)
    <3>1. Len(log) + 1 \in Nat /\ liveQueue \in Seq(Nat)  BY DEF WebTypes
    <3>2. \/ liveQueue' = liveQueue \/ liveQueue' = <<0>>
          \/ liveQueue' = Append(liveQueue, Len(log) + 1)
      BY <1>2 DEF PublishEvent
    <3>3. PICK n \in Nat : n = Len(log) + 1  BY <3>1
    <3>4. Append(liveQueue, n) \in Seq(Nat) /\ <<0>> \in Seq(Nat)  BY <3>1
    <3>5. QED  BY <3>1, <3>2, <3>3, <3>4
  <2>3. QED  BY <1>2, <2>1, <2>2 DEF PublishEvent, WebTypes
<1>3. CASE NewConnection \/ EvictOldest
  <2>1. worldGen' \in Nat /\ evicted' \in Nat
    BY SMTT(30), <1>3 DEF NewConnection, EvictOldest, WebTypes
  <2>2. UNCHANGED <<log, snapshot, liveQueue, stream, session, browser>>
    BY <1>3 DEF NewConnection, EvictOldest
  <2>3. QED  BY <2>1, <2>2 DEF WebTypes
<1>4. CASE ConnectPage
  <2>1. /\ snapshot'.after = browser.cursor /\ snapshot'.cursor = Len(log)
        /\ snapshot' \in [after : Nat, cursor : Nat, selected : SUBSET Nat, gaps : SUBSET Nat]
    <3> DEFINE visible == {i \in DOMAIN log : log[i].visible /\ i > browser.cursor}
               retained == {i \in visible : i > evicted}
               selected == Newest(retained, SnapshotLimit)
               missing == {log[i].generation : i \in retained \ selected}
                            \cup {log[i].generation : i \in Of(visible \ retained, worldGen)}
    <3>1. snapshot' = [after |-> browser.cursor, cursor |-> Len(log), selected |-> selected,
                       gaps |-> IF browser.cursor = 0 THEN {} ELSE missing]
      BY <1>4 DEF ConnectPage
    <3>2. selected \subseteq DOMAIN log /\ retained \subseteq DOMAIN log /\ visible \subseteq DOMAIN log
      BY DEF Newest
    <3>3. DOMAIN log \subseteq Nat /\ \A i \in DOMAIN log : log[i].generation \in Nat
      BY LogEntries, SeenIsFinite
    <3>4. missing \subseteq Nat
      <4>1. \A i \in retained \ selected : log[i].generation \in Nat  BY <3>2, <3>3
      <4>2. \A i \in Of(visible \ retained, worldGen) : log[i].generation \in Nat
        BY <3>2, <3>3 DEF Of
      <4> HIDE DEF visible, retained, selected
      <4>3. QED  BY <4>1, <4>2
    <3>5. selected \subseteq Nat  BY <3>2, <3>3
    <3>6. browser.cursor \in Nat /\ Len(log) \in Nat  BY DEF WebTypes
    <3> HIDE DEF selected, missing, retained, visible
    <3>7. QED  BY <3>1, <3>4, <3>5, <3>6
  <2>2. browser' = [browser EXCEPT !.ready = FALSE] /\ liveQueue' = <<>> /\ stream' = <<>>
        /\ session' = "subscribed" /\ UNCHANGED <<log, worldGen, evicted>>
    BY <1>4 DEF ConnectPage
  <2>3. browser' \in [cursor : Nat, ready : BOOLEAN, generation : Nat, events : Seq(Nat)]
    BY <2>2 DEF WebTypes
  <2>4. QED  BY <2>1, <2>2, <2>3 DEF WebTypes
<1>5. CASE SendInitialState
  <2> DEFINE newest == Newest(snapshot.selected, FitLimit)
             hello == [type |-> "hello", generation |-> worldGen, gap |-> Gap(newest)]
             ready == [type |-> "ready", cursor |-> snapshot.cursor]
  <2>1. stream' = <<hello>> \o EventsOf(newest) \o <<ready>> /\ snapshot' = NoSnapshot
        /\ session' = "sending"
        /\ UNCHANGED <<log, worldGen, evicted, liveQueue, browser, blind, connects>>
    BY <1>5 DEF SendInitialState
  <2>2. hello \in WebMessages
    <3>1. Gap(newest) \in BOOLEAN  BY DEF Gap
    <3> HIDE DEF newest
    <3>2. QED  BY <3>1 DEF WebTypes, WebMessages
  <2>3. ready \in WebMessages  BY DEF WebTypes, WebMessages
  <2>4. EventsOf(newest) \in Seq(WebMessages)
    <3>1. snapshot.selected \subseteq Seen
      BY <1>5 DEF SendInitialState, TranscriptInv, SessionSound, SubscribedSound
    <3>2. newest \in SUBSET Nat /\ newest \in SUBSET Seen  BY <3>1, SeenIsFinite DEF Newest
    <3>3. IsFiniteSet(newest)  BY <3>2, SeenIsFinite, FS_Subset
    <3>4. EventsOf(newest) \in Seq([type : {"event"}, cursor : Nat])  BY <3>2, <3>3, EventsOfLists
    <3>5. [type : {"event"}, cursor : Nat] \subseteq WebMessages  BY DEF WebMessages
    <3> DEFINE E == [type : {"event"}, cursor : Nat]
    <3>6. EventsOf(newest) \in Seq(E) /\ E \subseteq WebMessages  BY <3>4, <3>5
    <3> HIDE DEF E, newest
    <3>7. QED  BY <3>6
  <2> HIDE DEF hello, ready
  <2>5. stream' \in Seq(WebMessages)  BY <2>1, <2>2, <2>3, <2>4
  <2>6. NoSnapshot \in [after : Nat, cursor : Nat, selected : SUBSET Nat, gaps : SUBSET Nat]
    BY DEF NoSnapshot
  <2>7. QED  BY <2>1, <2>5, <2>6 DEF WebTypes
<1>6. CASE SendEvent
  <2> DEFINE m == [type |-> IF log[Head(liveQueue)].visible THEN "event" ELSE "cursor",
                   cursor |-> Head(liveQueue)]
  <2>1. m \in WebMessages  BY SMTT(30), <1>6 DEF SendEvent, WebTypes, WebMessages
  <2>2. stream' = Append(stream, m)  BY <1>6 DEF SendEvent
  <2> HIDE DEF m
  <2>3. stream' \in Seq(WebMessages)  BY <2>1, <2>2 DEF WebTypes
  <2>4. liveQueue' \in Seq(Nat)  BY <1>6 DEF SendEvent, WebTypes
  <2>5. QED  BY <1>6, <2>3, <2>4 DEF SendEvent, WebTypes
<1>7. CASE BreakPage
  <2>1. browser' = [browser EXCEPT !.ready = FALSE] /\ liveQueue' = <<>> /\ stream' = <<>>
        /\ session' = "closed" /\ snapshot' = NoSnapshot /\ UNCHANGED <<log, worldGen, evicted>>
    BY <1>7 DEF BreakPage
  <2>2. browser' \in [cursor : Nat, ready : BOOLEAN, generation : Nat, events : Seq(Nat)]
    BY <2>1 DEF WebTypes
  <2>3. snapshot' \in [after : Nat, cursor : Nat, selected : SUBSET Nat, gaps : SUBSET Nat]
    BY <2>1 DEF NoSnapshot
  <2>4. QED  BY <2>1, <2>2, <2>3 DEF WebTypes
<1>8. CASE HandleMessage
  <2> DEFINE B == [cursor : Nat, ready : BOOLEAN, generation : Nat, events : Seq(Nat)]
  <2>1. PICK m \in WebMessages : m = Head(stream)  BY <1>8 DEF HandleMessage, WebTypes
  <2>2. browser \in B /\ stream' \in Seq(WebMessages)  BY <1>8 DEF HandleMessage, WebTypes
  <2>3. browser' \in B
    <3>1. CASE m.type = "hello"
      <4>1. browser' = AfterHello(m)  BY <1>8, <2>1, <3>1 DEF HandleMessage
      <4>2. m.generation \in Nat  BY <3>1 DEF WebMessages
      <4>3. browser.events \in Seq(Nat)  BY <2>2
      <4>4. Without(browser.events, m.generation) \in Seq(Nat)  BY <4>3, WithoutKeeps
      <4>5. QED  BY <2>2, <4>1, <4>2, <4>4 DEF AfterHello
    <3>2. CASE m.type = "event"
      <4>1. browser' = AfterEvent(m.cursor)  BY <1>8, <2>1, <3>2 DEF HandleMessage
      <4>2. PICK i \in Nat : i = m.cursor  BY <3>2 DEF WebMessages
      <4>3. CASE browser' = browser  BY <2>2, <4>3
      <4>4. CASE browser' = [browser EXCEPT
                     !.generation = IF log[i].generation > @ THEN log[i].generation ELSE @,
                     !.cursor = IF browser.ready THEN i ELSE @, !.events = Append(@, i)]
        <5>1. PICK g \in Nat : g = IF log[i].generation > browser.generation
                                   THEN log[i].generation ELSE browser.generation
          <6>1. i \in DOMAIN log
            <7>1. stream # <<>> /\ m = stream[1]  BY <1>8, <2>1 DEF HandleMessage, WebTypes
            <7>2. QED  BY <3>2, <4>2, <7>1, StreamIsKnown
          <6>2. log[i].generation \in Nat  BY <6>1, LogEntries
          <6>3. QED  BY <2>2, <6>2
        <5>2. Append(browser.events, i) \in Seq(Nat)  BY <2>2
        <5>3. browser' = [browser EXCEPT !.generation = g,
                                         !.cursor = IF browser.ready THEN i ELSE @,
                                         !.events = Append(browser.events, i)]
          BY <2>2, <4>4, <5>1
        <5>4. QED  BY <2>2, <5>2, <5>3
      <4>5. QED  BY <4>1, <4>2, <4>3, <4>4 DEF AfterEvent
    <3>3. CASE m.type \in {"cursor", "ready"}
      <4>1. m.cursor \in Nat  BY <3>3 DEF WebMessages
      <4>2. \/ browser' = [browser EXCEPT !.cursor = m.cursor]
            \/ browser' = [browser EXCEPT !.cursor = m.cursor, !.ready = TRUE]
        BY <1>8, <2>1, <3>3 DEF HandleMessage
      <4>3. QED  BY <2>2, <4>1, <4>2
    <3>4. QED  BY <3>1, <3>2, <3>3 DEF WebMessages
  <2>4. QED  BY <1>8, <2>2, <2>3 DEF HandleMessage, WebTypes
<1>9. QED
  BY <1>1, <1>2, <1>3, <1>4, <1>5, <1>6, <1>7, <1>8 DEF WebFeedNext

LEMMA GenerationsRiseStep ==
  WebTypes /\ GenerationsRise /\ [WebFeedNext]_webFeedVars => GenerationsRise' /\ LogGrows
<1> SUFFICES ASSUME WebTypes, GenerationsRise, [WebFeedNext]_webFeedVars
             PROVE  GenerationsRise' /\ LogGrows
  OBVIOUS
<1>0. /\ worldGen \in Nat /\ evicted \in Nat /\ Len(log) \in Nat /\ DOMAIN log = 1..Len(log)
      /\ \A i \in DOMAIN log : log[i].generation \in Nat
  BY LogEntries, SeenIsFinite DEF WebTypes
<1>1. ASSUME NEW visible \in BOOLEAN, PublishEvent(visible) PROVE GenerationsRise' /\ LogGrows
  <2> DEFINE M == [generation : Nat, visible : BOOLEAN]
             m == [generation |-> worldGen, visible |-> visible]
  <2>1. m \in M /\ m.generation = worldGen  BY <1>0
  <2>2. log \in Seq(M) /\ log' = Append(log, m) /\ worldGen' = worldGen /\ evicted' = evicted
    BY <1>1 DEF WebTypes, PublishEvent
  <2> HIDE DEF M, m
  <2>3. /\ Len(log') = Len(log) + 1 /\ DOMAIN log' = 1..Len(log) + 1
        /\ \A i \in DOMAIN log : i \in DOMAIN log' /\ log'[i] = log[i]
        /\ \A i \in DOMAIN log' : i \notin DOMAIN log => i = Len(log) + 1 /\ log'[i] = m
    BY <1>0, <2>1, <2>2
  <2>4. \A i \in DOMAIN log' : log'[i].generation <= worldGen
    BY <1>0, <2>1, <2>3 DEF GenerationsRise
  <2>5. ASSUME NEW i \in DOMAIN log', NEW j \in DOMAIN log', i < j
        PROVE  log'[i].generation <= log'[j].generation
    <3>1. i \in DOMAIN log  BY <1>0, <2>3, <2>5
    <3>2. CASE j \in DOMAIN log  BY <2>3, <2>5, <3>1, <3>2 DEF GenerationsRise
    <3>3. CASE j \notin DOMAIN log  BY <2>1, <2>3, <2>4, <3>3
    <3>4. QED  BY <3>2, <3>3
  <2>6. QED  BY <1>0, <2>2, <2>3, <2>4, <2>5 DEF GenerationsRise, LogGrows
<1>2. CASE NewConnection
  <2>1. log' = log /\ worldGen' = worldGen + 1 /\ evicted' = evicted  BY <1>2 DEF NewConnection
  <2>2. QED  BY <1>0, <2>1 DEF GenerationsRise, LogGrows
<1>3. CASE EvictOldest
  <2>1. log' = log /\ worldGen' = worldGen /\ evicted' = evicted + 1  BY <1>3 DEF EvictOldest
  <2>2. QED  BY <1>0, <2>1 DEF GenerationsRise, LogGrows
<1>4. CASE UNCHANGED <<log, worldGen, evicted>>
  BY <1>0, <1>4 DEF GenerationsRise, LogGrows
<1>5. QED
  BY <1>1, <1>2, <1>3, <1>4
     DEF WebFeedNext, webFeedVars, ConnectPage, SendInitialState, SendEvent, BreakPage, HandleMessage

\* A step of the history: what the page has, and what is on its way, stays as sound as it was.
HistoryMoves ==
    /\ TranscriptInv /\ WebTypes' /\ GenerationsRise' /\ LogGrows
    /\ UNCHANGED <<browser, stream, snapshot, session, blind>>
    /\ worldGen <= worldGen' /\ \A i \in DOMAIN log : worldGen' = worldGen \/ log[i].generation < worldGen'

LEMMA HistoryFrame ==
  ASSUME HistoryMoves
  PROVE  /\ \A i \in DOMAIN log : i \in DOMAIN log' /\ log'[i] = log[i]
         /\ \A i \in Seen : i \in Seen' /\ i \in DOMAIN log /\ i \in Nat
         /\ \A i \in Seen', c \in Nat : c <= Len(log) /\ i <= c => i \in Seen
         /\ \A i \in Nat : Hidden(i) => Hidden(i)'
         /\ Transcript' = Transcript /\ browser' = browser
         /\ Len(log) <= Len(log') /\ Len(log) \in Nat /\ Len(log') \in Nat
         /\ DOMAIN log = 1..Len(log) /\ DOMAIN log' = 1..Len(log')
<1>1. WebTypes /\ WebTypes' /\ LogGrows  BY DEF HistoryMoves, TranscriptInv
<1>2. /\ Len(log) \in Nat /\ Len(log') \in Nat
      /\ DOMAIN log = 1..Len(log) /\ DOMAIN log' = 1..Len(log')
  BY SMTT(30), <1>1 DEF WebTypes
<1>3. browser' = browser  BY DEF HistoryMoves
<1>4. Transcript' = Transcript  BY <1>3 DEF Transcript
<1>5. \A i \in Nat : Hidden(i) => Hidden(i)'  BY <1>1, HiddenStays
<1>6. \A i \in DOMAIN log : i \in DOMAIN log' /\ log'[i] = log[i]  BY <1>1 DEF LogGrows
<1>7. \A i \in Seen : i \in Seen' /\ i \in DOMAIN log /\ i \in Nat  BY <1>2, <1>6 DEF Seen
<1>8. \A i \in Seen', c \in Nat : c <= Len(log) /\ i <= c => i \in Seen
  BY <1>2, <1>6 DEF Seen
<1>9. Len(log) <= Len(log')  BY <1>1 DEF LogGrows
<1>10. QED  BY <1>2, <1>3, <1>4, <1>5, <1>6, <1>7, <1>8, <1>9

LEMMA NoHoleStays ==
  ASSUME HistoryMoves, NEW E, E \subseteq Seen, NEW g, NEW c \in Nat, c <= Len(log), NoHole(E, g, c)
  PROVE  NoHole(E, g, c)'
<1> SUFFICES ASSUME NEW i \in Seen', NEW j \in E, j < i, i <= c,
                    log'[i].generation = g, log'[j].generation = g
             PROVE  i \in E
  BY DEF NoHole
<1>1. i \in Seen /\ j \in Seen  BY HistoryFrame
<1>2. log[i].generation = g /\ log[j].generation = g  BY <1>1, HistoryFrame
<1>3. QED  BY <1>1, <1>2 DEF NoHole

LEMMA PageStays == ASSUME HistoryMoves PROVE PageSound'
<1>1. PageSound /\ WebTypes  BY DEF HistoryMoves, TranscriptInv
<1>2. browser.cursor \in Nat /\ browser.cursor <= Len(log) /\ browser.cursor <= Len(log')
  BY <1>1, HistoryFrame DEF PageSound, WebTypes
<1>3. Transcript \subseteq Seen  BY <1>1 DEF PageSound
<1>4. Transcript' \subseteq Seen'  BY <1>3, HistoryFrame
<1>5. \A i \in Transcript : log'[i].generation <= browser.generation
  BY <1>1, <1>3, HistoryFrame DEF PageSound
<1>6. browser.generation <= worldGen'
  <2>1. browser.generation \in Nat /\ worldGen \in Nat /\ worldGen' \in Nat /\ worldGen <= worldGen'
    BY DEF HistoryMoves, TranscriptInv, WebTypes
  <2>2. QED  BY <1>1, <2>1 DEF PageSound
<1>7. ASSUME NEW i \in Seen', NEW j \in Transcript,
             browser.cursor < i, i < j, i \notin Transcript
      PROVE  Hidden(i)'
  <2>1. j \in Seen /\ j <= Len(log) /\ j \in Nat /\ Len(log) \in Nat  BY <1>3, HistoryFrame
  <2>2. i \in Nat  BY HistoryFrame DEF Seen
  <2>3. i \in Seen  BY <1>7, <2>1, <2>2, HistoryFrame
  <2>4. Hidden(i)  BY <1>1, <1>7, <2>3 DEF PageSound
  <2>5. QED  BY <2>2, <2>4, HistoryFrame
<1>8. ~blind' => NoHole(Transcript, browser.generation, browser.cursor)'
  <2>1. blind' = blind /\ browser' = browser /\ Transcript' = Transcript  BY HistoryFrame DEF HistoryMoves
  <2>2. ASSUME ~blind, NEW E, E = Transcript, NEW g, g = browser.generation, NEW c, c = browser.cursor
        PROVE  NoHole(E, g, c)'
    <3>1. NoHole(E, g, c)  BY <1>1, <2>2 DEF PageSound
    <3>2. QED  BY <1>2, <1>3, <2>2, <3>1, NoHoleStays
  <2>3. QED  BY <2>1, <2>2 DEF NoHole
<1>9. \A j, k \in DOMAIN browser.events : j < k => browser.events[j] < browser.events[k]
  BY <1>1 DEF PageSound
<1>10. QED
  BY <1>2, <1>4, <1>5, <1>6, <1>7, <1>8, <1>9, HistoryFrame DEF PageSound

LEMMA OnTheWayStays ==
  ASSUME HistoryMoves, NEW P, NEW c \in Nat, OnTheWay(P, c)
  PROVE  OnTheWay(P, c)'
<1>1. c <= Len(log')  BY HistoryFrame DEF OnTheWay
<1>2. \A i \in P : i \in Seen'  BY HistoryFrame DEF OnTheWay
<1>3. QED  BY <1>1, <1>2, HistoryFrame DEF OnTheWay

LEMMA RestStaysHidden ==
  ASSUME HistoryMoves, NEW P, NEW c \in Nat, c <= Len(log), RestHidden(P, c)
  PROVE  RestHidden(P, c)'
<1>1. \A i \in Seen' : i <= c => i \in Seen /\ i \in Nat  BY HistoryFrame
<1>2. \A i \in Seen' : browser'.cursor < i /\ i <= c /\ i \notin P => Hidden(i)'
  BY <1>1, HistoryFrame DEF RestHidden
<1>3. \A i \in Seen', j \in P : j < i /\ i <= c => i \in P  BY <1>1 DEF RestHidden
<1>4. QED  BY <1>2, <1>3 DEF RestHidden

LEMMA SubscribedStays ==
  ASSUME HistoryMoves, SubscribedSound
  PROVE  SubscribedSound'
<1>1. PICK c \in Nat : c = snapshot.cursor  BY DEF HistoryMoves, TranscriptInv, WebTypes
<1>2. PICK P : P = Newest(snapshot.selected, FitLimit)  OBVIOUS
<1>3. /\ snapshot' = snapshot /\ stream' = stream
      /\ snapshot'.cursor = c /\ P = Newest(snapshot.selected, FitLimit)'
  BY <1>1, <1>2 DEF HistoryMoves, Newest
<1>4. OnTheWay(P, c) /\ RestHidden(P, c) /\ c <= Len(log)
  BY <1>1, <1>2 DEF SubscribedSound, OnTheWay
<1>5. OnTheWay(P, c)' /\ RestHidden(P, c)'  BY <1>4, OnTheWayStays, RestStaysHidden
<1>6. snapshot.selected \subseteq Seen'  BY HistoryFrame DEF SubscribedSound
<1>7. ASSUME NEW i \in Seen', browser.cursor > 0, browser.cursor < i, i <= c,
             log'[i].generation = worldGen', worldGen' \notin snapshot.gaps
      PROVE  i \in snapshot.selected
  <2>1. i \in Seen /\ i \in DOMAIN log  BY <1>4, <1>7, HistoryFrame
  <2>2. log[i].generation = worldGen'  BY <1>7, <2>1, HistoryFrame
  <2>3. log[i].generation \in Nat  BY <2>1, LogEntries DEF HistoryMoves, TranscriptInv
  <2>4. worldGen' = worldGen  BY <2>1, <2>2, <2>3 DEF HistoryMoves
  <2>5. QED  BY <1>1, <1>7, <2>1, <2>2, <2>4 DEF SubscribedSound
<1>8. browser.cursor = 0 /\ ~blind' => Transcript = {}  BY DEF SubscribedSound, HistoryMoves
<1>9. stream' = <<>> /\ snapshot'.after = browser'.cursor
  BY <1>3, HistoryFrame DEF SubscribedSound
<1>10. QED
  BY <1>3, <1>5, <1>6, <1>7, <1>8, <1>9, HistoryFrame DEF SubscribedSound

LEMMA AnnouncedStays ==
  ASSUME HistoryMoves, NEW P, NEW c \in Nat, c <= Len(log), NEW m, m.generation \in Nat,
         Announced(P, c, m)
  PROVE  Announced(P, c, m)'
<1>1. RestHidden(P, c)'  BY RestStaysHidden DEF Announced
<1>2. m.generation <= worldGen'
  <2>1. worldGen \in Nat /\ worldGen' \in Nat /\ worldGen <= worldGen'
    BY DEF HistoryMoves, TranscriptInv, WebTypes
  <2>2. QED  BY <2>1 DEF Announced
<1>3. \A i \in Seen' : i <= c => i \in Seen /\ log'[i] = log[i]  BY HistoryFrame
<1>4. \A i \in Seen' : i <= c => log'[i].generation <= m.generation  BY <1>3 DEF Announced
<1>5. ASSUME ~m.gap, ~blind', Transcript # {},
             NEW i \in Seen', browser.cursor < i, i <= c, log'[i].generation = m.generation
      PROVE  i \in P
  <2>1. ~blind  BY <1>5 DEF HistoryMoves
  <2>2. QED  BY <1>3, <1>5, <2>1 DEF Announced
<1>6. QED  BY <1>1, <1>2, <1>4, <1>5, HistoryFrame DEF Announced

LEMMA FollowingStays ==
  ASSUME HistoryMoves, NEW P, P \subseteq Seen, NEW c \in Nat, c <= Len(log), Following(P, c)
  PROVE  Following(P, c)'
<1>1. PageSound  BY DEF HistoryMoves, TranscriptInv
<1>2. P \cup Transcript \subseteq Seen  BY <1>1 DEF PageSound
<1>3. \A i \in P : log'[i].generation <= browser.generation  BY <1>2, HistoryFrame DEF Following
<1>4. \A i \in Seen' : browser.cursor < i /\ i <= c /\ i \notin P \cup Transcript => Hidden(i)'
  <2>1. \A i \in Seen' : i <= c => i \in Seen /\ i \in Nat  BY HistoryFrame
  <2>2. QED  BY <2>1, HistoryFrame DEF Following
<1>5. ~blind' => NoHole(P \cup Transcript, browser.generation, c)'
  <2>1. ASSUME ~blind, NEW E, E = P \cup Transcript, NEW g, g = browser.generation
        PROVE  NoHole(E, g, c)'
    <3>1. NoHole(E, g, c)  BY <2>1 DEF Following
    <3>2. QED  BY <1>2, <2>1, <3>1, NoHoleStays
  <2>2. blind' = blind  BY DEF HistoryMoves
  <2>3. QED  BY <2>1, <2>2, HistoryFrame DEF NoHole
<1>6. QED  BY <1>3, <1>4, <1>5, HistoryFrame DEF Following

LEMMA AnnouncementStays ==
  ASSUME HistoryMoves, NEW P, NEW c \in Nat, c <= Len(log), NEW r \in Nat, Announcement(P, c, r)
  PROVE  Announcement(P, c, r)'
<1>1. stream' = stream  BY DEF HistoryMoves
<1>2. CASE r = 0  BY <1>2, HistoryFrame DEF Announcement
<1>3. CASE r # 0
  <2>1. OnTheWay(P, c)  BY <1>3 DEF Announcement
  <2>2. OnTheWay(P, c)'  BY <2>1, OnTheWayStays
  <2>3. CASE stream[1].type = "hello"
    <3>1. Announced(P, c, stream[1])  BY <1>3, <2>3 DEF Announcement
    <3>2. PICK m : m = stream[1]  OBVIOUS
    <3>3. m.generation \in Nat
      <4>1. stream[1] \in WebMessages
        <5>1. stream # <<>>  BY <1>3 DEF Announcement
        <5>2. QED  BY <5>1, StreamIsKnown DEF HistoryMoves
      <4>2. QED  BY <2>3, <3>2, <4>1 DEF WebMessages
    <3>4. Announced(P, c, m)'  BY <3>1, <3>2, <3>3, AnnouncedStays
    <3>5. Announced(P, c, stream[1])'  BY <1>1, <3>2, <3>4 DEF Announced
    <3>6. QED  BY <1>1, <1>3, <2>2, <2>3, <3>5 DEF Announcement
  <2>4. CASE stream[1].type # "hello"
    <3>1. Following(P, c)  BY <1>3, <2>4 DEF Announcement
    <3>2. P \subseteq Seen  BY <2>1 DEF OnTheWay
    <3>3. Following(P, c)'  BY <3>1, <3>2, FollowingStays
    <3>4. QED  BY <1>1, <1>3, <2>2, <2>4, <3>3 DEF Announcement
  <2>5. QED  BY <2>3, <2>4
<1>4. QED  BY <1>2, <1>3

LEMMA HistoryStays ==
  ASSUME HistoryMoves, \A c, n \in Nat : LiveFrom(c, n) => LiveFrom(c, n)'
  PROVE  PageSound' /\ SessionSound'
<1>1. SessionSound /\ session' = session /\ stream' = stream /\ snapshot' = snapshot
  BY DEF HistoryMoves, TranscriptInv
<1>2. session = "closed" => stream' = <<>> /\ ~browser'.ready
  BY <1>1, HistoryFrame DEF SessionSound
<1>3. session = "subscribed" => SubscribedSound' /\ LiveFrom(snapshot.cursor, 0)'
  <2>1. PICK c \in Nat : c = snapshot.cursor  BY DEF HistoryMoves, TranscriptInv, WebTypes
  <2>2. session = "subscribed" => LiveFrom(c, 0)'  BY <1>1, <2>1 DEF SessionSound
  <2>3. LiveFrom(c, 0)' => LiveFrom(snapshot.cursor, 0)'  BY <1>1, <2>1 DEF LiveFrom
  <2>4. QED  BY <1>1, <2>2, <2>3, SubscribedStays DEF SessionSound
<1>4. session = "sending" => SendingSound'
  <2> SUFFICES ASSUME SendingSound PROVE SendingSound'
    BY <1>1 DEF SessionSound
  <2>1. PICK r \in 0..Len(stream), c \in 0..Len(log), P \in SUBSET (1..Len(log)) :
           Announcement(P, c, r) /\ Live(c, r) /\ LiveFrom(c, Len(stream) - r)
    BY DEF SendingSound
  <2>2. Len(stream) \in Nat  BY DEF HistoryMoves, TranscriptInv, WebTypes
  <2>3. c \in Nat /\ c <= Len(log) /\ r \in Nat /\ Len(stream) - r \in Nat /\ c \in 0..Len(log')
        /\ P \in SUBSET (1..Len(log'))
    BY <2>2, HistoryFrame
  <2>4. Announcement(P, c, r)'  BY <2>1, <2>3, AnnouncementStays
  <2>5. PICK n \in Nat : n = Len(stream) - r  BY <2>3
  <2>6. LiveFrom(c, n)'  BY <2>1, <2>5, <2>3
  <2>7. LiveFrom(c, Len(stream) - r)'  BY <1>1, <2>5, <2>6 DEF LiveFrom
  <2>8. Live(c, r)'
    <3> SUFFICES ASSUME NEW k \in DOMAIN stream, k > r
                 PROVE  /\ stream[k].cursor = c + (k - r)
                        /\ stream[k].type = IF log'[c + (k - r)].visible THEN "event" ELSE "cursor"
      BY <1>1 DEF Live
    <3>1. c + (k - r) \in DOMAIN log
      <4>1. k \in Nat /\ k <= Len(stream) /\ DOMAIN log = 1..Len(log) /\ Len(log) \in Nat
        BY HistoryFrame DEF HistoryMoves, TranscriptInv, WebTypes
      <4>2. c + (Len(stream) - r) <= Len(log)  BY <2>1 DEF LiveFrom
      <4>3. QED  BY <2>2, <2>3, <4>1, <4>2
    <3>2. QED  BY <2>1, <3>1, HistoryFrame DEF Live
  <2>9. QED  BY <1>1, <2>3, <2>4, <2>7, <2>8 DEF SendingSound
<1>5. QED  BY <1>1, <1>2, <1>3, <1>4, PageStays DEF SessionSound

LEMMA PublishStep ==
  ASSUME TranscriptInv, WebTypes', GenerationsRise', LogGrows, NEW visible \in BOOLEAN, PublishEvent(visible)
  PROVE  PageSound' /\ SessionSound'
<1>1. /\ log' = Append(log, [generation |-> worldGen, visible |-> visible])
      /\ UNCHANGED <<worldGen, evicted, snapshot, stream, session, browser, blind>>
  BY DEF PublishEvent
<1>2. Len(log) \in Nat /\ Len(log') = Len(log) + 1 /\ liveQueue \in Seq(Nat) /\ worldGen \in Nat
  BY <1>1 DEF TranscriptInv, WebTypes
<1>3. CASE session = "closed"
  <2>1. stream' = <<>> /\ ~browser'.ready  BY <1>1, <1>3 DEF TranscriptInv, SessionSound
  <2>2. HistoryMoves  BY <1>1, <1>2 DEF HistoryMoves
  <2>3. PageSound'  BY <2>2, PageStays
  <2>4. QED  BY <1>1, <1>3, <2>1, <2>3 DEF SessionSound
<1>4. CASE session # "closed"
  <2>1. HistoryMoves  BY <1>1, <1>2 DEF HistoryMoves
  <2>2. ASSUME NEW c \in Nat, NEW n \in Nat, LiveFrom(c, n)
        PROVE  LiveFrom(c, n)'
    <3>1. c + n <= Len(log') /\ c + n \in Nat  BY <1>2, <2>2 DEF LiveFrom
    <3>2. CASE liveQueue # <<>> /\ liveQueue[1] = 0
      <4>1. Head(liveQueue) = 0  BY <1>2, <3>2
      <4>2. liveQueue' = liveQueue  BY <3>2, <4>1 DEF PublishEvent
      <4>3. QED  BY <3>1, <3>2, <4>2 DEF LiveFrom
    <3>3. CASE ~(liveQueue # <<>> /\ liveQueue[1] = 0)
      <4>1. c + n + Len(liveQueue) = Len(log) /\ \A k \in DOMAIN liveQueue : liveQueue[k] = c + n + k
        BY <2>2, <3>3 DEF LiveFrom
      <4>2. ~(liveQueue # <<>> /\ Head(liveQueue) = 0)  BY <1>2, <3>3
      <4>3. liveQueue' = <<0>> \/ liveQueue' = Append(liveQueue, Len(log) + 1)
        BY <1>4, <4>2 DEF PublishEvent
      <4>4. CASE liveQueue' = <<0>>
        <5>1. liveQueue' # <<>> /\ liveQueue'[1] = 0  BY <4>4
        <5>2. QED  BY <3>1, <5>1 DEF LiveFrom
      <4>5. CASE liveQueue' = Append(liveQueue, Len(log) + 1)
        <5>1. PICK q \in Seq(Nat) : q = liveQueue  BY <1>2
        <5>2. /\ Len(liveQueue') = Len(q) + 1 /\ Len(q) \in Nat
              /\ DOMAIN liveQueue' = 1..Len(q) + 1 /\ liveQueue'[Len(q) + 1] = Len(log) + 1
              /\ \A k \in 1..Len(q) : liveQueue'[k] = q[k]
          BY <1>2, <4>5, <5>1
        <5>3. \A k \in DOMAIN liveQueue' : liveQueue'[k] = c + n + k
          <6> SUFFICES ASSUME NEW k \in 1..Len(q) + 1 PROVE liveQueue'[k] = c + n + k
            BY <5>2
          <6>1. CASE k \in 1..Len(q)  BY <4>1, <5>1, <5>2, <6>1
          <6>2. CASE k \notin 1..Len(q)
            <7>1. k = Len(q) + 1  BY <5>2, <6>2
            <7>2. c + n + Len(q) = Len(log)  BY <4>1, <5>1
            <7>3. Len(log) \in Nat /\ Len(q) \in Nat  BY <1>2, <5>2
            <7>4. c + n + (Len(q) + 1) = Len(log) + 1  BY <7>2, <7>3
            <7>5. QED  BY <5>2, <7>1, <7>4
          <6>3. QED  BY <6>1, <6>2
        <5>4. c + n + Len(liveQueue') = Len(log')  BY <1>2, <3>1, <4>1, <5>1, <5>2
        <5>5. QED  BY <3>1, <5>3, <5>4 DEF LiveFrom
      <4>6. QED  BY <4>3, <4>4, <4>5
    <3>4. QED  BY <3>2, <3>3
  <2>3. QED  BY <2>1, <2>2, HistoryStays
<1>5. QED  BY <1>3, <1>4

LEMMA RestOfHistoryStep ==
  ASSUME TranscriptInv, WebTypes', GenerationsRise', LogGrows, NewConnection \/ EvictOldest
  PROVE  PageSound' /\ SessionSound'
<1>1. /\ UNCHANGED <<log, snapshot, stream, liveQueue, session, browser, blind>>
      /\ worldGen' = worldGen \/ worldGen' = worldGen + 1
  BY DEF NewConnection, EvictOldest
<1>2. worldGen \in Nat /\ \A i \in DOMAIN log : log[i].generation \in Nat
  BY LogEntries DEF TranscriptInv, WebTypes
<1>3. \A i \in DOMAIN log : log[i].generation <= worldGen  BY DEF TranscriptInv, GenerationsRise
<1>4. \A i \in DOMAIN log : worldGen' = worldGen \/ log[i].generation < worldGen'
  BY <1>1, <1>2, <1>3
<1>5. worldGen <= worldGen'  BY <1>1, <1>2
<1>6. HistoryMoves  BY <1>1, <1>4, <1>5 DEF HistoryMoves
<1>7. \A c, n \in Nat : LiveFrom(c, n) => LiveFrom(c, n)'  BY <1>1 DEF LiveFrom
<1>8. QED  BY <1>6, <1>7, HistoryStays

LEMMA SendEventStep ==
  ASSUME TranscriptInv, WebTypes', GenerationsRise', LogGrows, SendEvent
  PROVE  PageSound' /\ SessionSound'
<1>1. /\ session = "sending" /\ session' = session /\ liveQueue # <<>> /\ Head(liveQueue) # 0
      /\ liveQueue' = Tail(liveQueue)
      /\ UNCHANGED <<log, worldGen, evicted, snapshot, browser, blind>>
  BY DEF SendEvent
<1>2. PageSound'
  BY <1>1 DEF TranscriptInv, PageSound, Transcript, Hidden, Behind, Seen, NoHole
<1>3. PICK r \in 0..Len(stream), c \in 0..Len(log), P \in SUBSET (1..Len(log)) :
         Announcement(P, c, r) /\ Live(c, r) /\ LiveFrom(c, Len(stream) - r)
  BY <1>1 DEF TranscriptInv, SessionSound, SendingSound
<1>4. PICK q \in Seq(Nat) : q = liveQueue  BY DEF TranscriptInv, WebTypes
<1>5. /\ Len(q) \in Nat /\ Len(q) > 0 /\ q[1] = Head(liveQueue)
      /\ Len(liveQueue') = Len(q) - 1 /\ \A k \in 1..Len(liveQueue') : liveQueue'[k] = q[k + 1]
      /\ DOMAIN liveQueue' = 1..Len(liveQueue') /\ DOMAIN q = 1..Len(q)
  BY <1>1, <1>4
<1>6. PICK m \in WebMessages :
        /\ m.cursor = q[1] /\ m.type = IF log[q[1]].visible THEN "event" ELSE "cursor"
        /\ stream' = Append(stream, m)
  <2> DEFINE w == [type |-> IF log[q[1]].visible THEN "event" ELSE "cursor", cursor |-> q[1]]
  <2>1. q[1] \in Nat  BY <1>5
  <2>2. w \in WebMessages /\ w.cursor = q[1] /\ w.type = IF log[q[1]].visible THEN "event" ELSE "cursor"
    BY <2>1 DEF WebMessages
  <2>3. stream' = Append(stream, w)  BY <1>5 DEF SendEvent
  <2>4. QED  BY <2>2, <2>3
<1>7. PICK s \in Seq(WebMessages) : s = stream  BY DEF TranscriptInv, WebTypes
<1>8. /\ Len(s) \in Nat /\ DOMAIN s = 1..Len(s) /\ Len(stream') = Len(s) + 1
      /\ DOMAIN stream' = 1..Len(s) + 1 /\ stream'[Len(s) + 1] = m
      /\ \A k \in 1..Len(s) : stream'[k] = s[k]
  BY <1>6, <1>7
<1>9. Len(log) \in Nat /\ c \in Nat /\ r \in Nat /\ r <= Len(s)  BY <1>7, <1>8, SeenIsFinite DEF TranscriptInv
<1>10. /\ c + (Len(s) - r) + Len(q) = Len(log)
       /\ \A k \in DOMAIN q : q[k] = c + (Len(s) - r) + k
  BY <1>1, <1>3, <1>4, <1>5, <1>7 DEF LiveFrom
<1>11. q[1] = c + (Len(s) - r) + 1
  <2>1. 1 \in DOMAIN q  BY <1>5
  <2>2. QED  BY <1>10, <2>1
<1> DEFINE n == Len(s) - r
<1>17. n \in Nat /\ Len(s) = n + r  BY <1>8, <1>9
<1>18. c + n + Len(q) = Len(log) /\ q[1] = c + n + 1  BY <1>10, <1>11
<1>19. Len(q) \in Nat /\ Len(q) > 0 /\ Len(liveQueue') \in Nat /\ Len(q) = Len(liveQueue') + 1
  BY <1>5
<1>20. /\ c + n + 1 <= Len(log) /\ (c + n + 1) + Len(liveQueue') = Len(log) 
       /\ Len(stream') - r = n + 1 /\ c + (n + 1) = c + n + 1
  <2> HIDE DEF n
  <2>1. Len(stream') = n + r + 1  BY <1>8, <1>17
  <2>2. Len(stream') - r = n + 1  BY <1>9, <1>17, <2>1
  <2>3. QED  BY <1>9, <1>17, <1>18, <1>19, <2>2
<1>12. Live(c, r)'
  <2> SUFFICES ASSUME NEW k \in 1..Len(s) + 1, k > r
               PROVE  /\ stream'[k].cursor = c + (k - r)
                      /\ stream'[k].type = IF log[c + (k - r)].visible THEN "event" ELSE "cursor"
    BY <1>1, <1>8 DEF Live
  <2>1. CASE k \in 1..Len(s)  BY <1>3, <1>7, <1>8, <2>1 DEF Live
  <2>2. CASE k \notin 1..Len(s)
    <3>0. k = Len(s) + 1  BY <1>8, <2>2
    <3>1. q[1] = c + (k - r)
      <4>1. k - r = n + 1  BY <1>9, <1>17, <3>0
      <4>2. QED  BY <1>18, <1>20, <4>1
    <3>2. QED  BY <1>6, <1>8, <3>0, <3>1
  <2>3. QED  BY <2>1, <2>2
<1>13. LiveFrom(c, Len(stream) - r)'
  <2>1. \A k \in DOMAIN liveQueue' : liveQueue'[k] = c + (n + 1) + k
    <3> SUFFICES ASSUME NEW k \in 1..Len(liveQueue') PROVE liveQueue'[k] = c + (n + 1) + k
      BY <1>5
    <3>1. k + 1 \in DOMAIN q /\ liveQueue'[k] = q[k + 1] /\ k \in Nat  BY <1>5, <1>19
    <3>2. q[k + 1] = c + n + (k + 1)  BY <1>10, <3>1
    <3> HIDE DEF n
    <3>3. QED  BY <1>9, <1>17, <3>1, <3>2
  <2> DEFINE l == n + 1
  <2>2. /\ \A k \in DOMAIN liveQueue' : liveQueue'[k] = c + l + k
        /\ c + l <= Len(log) /\ c + l + Len(liveQueue') = Len(log) /\ Len(stream') - r = l
    BY <1>20, <2>1
  <2> HIDE DEF l
  <2>3. LiveFrom(c, l)'  BY <1>1, <2>2 DEF LiveFrom
  <2>4. QED  BY <2>2, <2>3 DEF LiveFrom
<1>14. Announcement(P, c, r)'
  <2>1. CASE r = 0  BY <1>1, <1>3, <2>1 DEF Announcement, Transcript
  <2>2. CASE r # 0
    <3>1. r \in 1..Len(s) /\ 1 \in 1..Len(s)  BY <1>8, <1>9, <2>2
    <3>2. stream'[1] = s[1] /\ stream'[r] = s[r] /\ r \in DOMAIN stream'  BY <1>8, <3>1
    <3>3. OnTheWay(P, c)'
      <4>1. OnTheWay(P, c)  BY <1>3, <2>2 DEF Announcement
      <4>2. QED  BY <1>1, <4>1 DEF OnTheWay, Transcript, Seen
    <3>4. (IF stream[1].type = "hello" THEN Announced(P, c, stream[1]) ELSE Following(P, c))'
      <4>1. IF stream[1].type = "hello" THEN Announced(P, c, stream[1]) ELSE Following(P, c)
        BY <1>3, <2>2 DEF Announcement
      <4>2. PICK x : x = stream[1] /\ x = stream'[1]  BY <1>7, <3>2
      <4>3. (\A i : Hidden(i) <=> Hidden(i)') /\ Seen' = Seen /\ Transcript' = Transcript
        BY <1>1 DEF Hidden, Behind, Seen, Transcript
      <4>4. CASE x.type = "hello"
        <5>1. Announced(P, c, x)  BY <4>1, <4>2, <4>4
        <5>2. Announced(P, c, x)'  BY <1>1, <4>3, <5>1 DEF Announced, RestHidden
        <5>3. QED  BY <4>2, <4>4, <5>2 DEF Announced
      <4>5. CASE x.type # "hello"
        <5>1. Following(P, c)  BY <4>1, <4>2, <4>5
        <5>2. Following(P, c)'  BY <1>1, <4>3, <5>1 DEF Following, NoHole
        <5>3. QED  BY <4>2, <4>5, <5>2
      <4>6. QED  BY <4>4, <4>5
    <3>5. \A k \in DOMAIN stream' : k < r => k \in DOMAIN s /\ stream'[k] = s[k]
      BY <1>8, <1>9
    <3>6. \A k \in DOMAIN s : k \in DOMAIN stream'  BY <1>8
    <3>7. /\ \A k \in DOMAIN stream' : k < r /\ stream'[k].type # "event" =>
                 k = 1 /\ stream'[k].type = "hello"
          /\ \A k \in DOMAIN stream' : k < r /\ stream'[k].type = "event" => stream'[k].cursor \in P
      BY <1>3, <1>7, <2>2, <3>5 DEF Announcement
    <3>8. \A i \in P : \E k \in DOMAIN stream' :
                 k < r /\ stream'[k].type = "event" /\ stream'[k].cursor = i
      <4> SUFFICES ASSUME NEW i \in P
                   PROVE  \E k \in DOMAIN stream' :
                              k < r /\ stream'[k].type = "event" /\ stream'[k].cursor = i
        OBVIOUS
      <4>1. PICK k \in DOMAIN s : k < r /\ s[k].type = "event" /\ s[k].cursor = i
        BY <1>3, <1>7, <2>2 DEF Announcement
      <4>2. k \in DOMAIN stream' /\ stream'[k] = s[k]  BY <3>5, <3>6, <4>1
      <4>3. QED  BY <4>1, <4>2
    <3>9. \A j, k \in DOMAIN stream' :
             j < k /\ k < r /\ stream'[j].type = "event" => stream'[j].cursor < stream'[k].cursor
      <4> SUFFICES ASSUME NEW j \in DOMAIN stream', NEW k \in DOMAIN stream',
                          j < k, k < r, stream'[j].type = "event"
                   PROVE  stream'[j].cursor < stream'[k].cursor
        OBVIOUS
      <4>1. j \in Nat /\ k \in Nat /\ j < r  BY <1>8, <1>9
      <4>2. /\ j \in DOMAIN s /\ stream'[j] = s[j] /\ k \in DOMAIN s /\ stream'[k] = s[k]
        BY <3>5, <4>1
      <4>3. QED  BY <1>3, <1>7, <2>2, <4>2 DEF Announcement
    <3>10. stream'[r].type = "ready" /\ stream'[r].cursor = c
      BY <1>3, <1>7, <2>2, <3>2 DEF Announcement
    <3>11. QED
      BY <2>2, <3>2, <3>3, <3>4, <3>7, <3>8, <3>9, <3>10 DEF Announcement
  <2>3. QED  BY <2>1, <2>2
<1>15. SendingSound'
  <2>1. r \in 0..Len(stream') /\ c \in 0..Len(log') /\ P \in SUBSET (1..Len(log'))
    BY <1>1, <1>8, <1>9
  <2>2. \E rr \in 0..Len(stream'), cc \in 0..Len(log'), PP \in SUBSET (1..Len(log')) :
          Announcement(PP, cc, rr)' /\ Live(cc, rr)' /\ LiveFrom(cc, Len(stream) - rr)'
    BY <1>12, <1>13, <1>14, <2>1
  <2>3. QED  BY <2>2 DEF SendingSound
<1>16. QED  BY <1>1, <1>2, <1>15 DEF SessionSound

LEMMA BreakStep ==
  ASSUME TranscriptInv, WebTypes', BreakPage
  PROVE  PageSound' /\ SessionSound'
<1>1. /\ browser' = [browser EXCEPT !.ready = FALSE] /\ stream' = <<>> /\ session' = "closed"
      /\ UNCHANGED <<log, worldGen, evicted, blind>>
  BY DEF BreakPage
<1>2. /\ browser'.events = browser.events /\ browser'.cursor = browser.cursor
      /\ browser'.generation = browser.generation /\ ~browser'.ready
  BY <1>1 DEF TranscriptInv, WebTypes
<1>3. PageSound'
  BY <1>1, <1>2 DEF TranscriptInv, PageSound, Transcript, Hidden, Behind, Seen, NoHole
<1>4. QED  BY <1>1, <1>2, <1>3 DEF SessionSound

LEMMA ConnectStep ==
  ASSUME TranscriptInv, WebTypes', ConnectPage
  PROVE  PageSound' /\ SessionSound'
<1>0. WebTypes /\ PageSound /\ SessionSound  BY DEF TranscriptInv
<1>1. PICK R : R = {i \in Seen : i > browser.cursor /\ i > evicted}  OBVIOUS
<1>2. PICK S : S = Newest(R, SnapshotLimit)  OBVIOUS
<1>3. PICK P : P = Newest(S, FitLimit)  OBVIOUS
<1>4. PICK c \in Nat : c = Len(log)  BY <1>0, SeenIsFinite
<1>5. P \subseteq S /\ S \subseteq R /\ \A i \in Seen : i > browser.cursor => (i \in P <=> ~Hidden(i))
  BY <1>0, <1>1, <1>2, <1>3, SnapshotHasTheRest
<1>6. /\ Seen \subseteq Nat /\ DOMAIN log = 1..c
      /\ \A i : IsFiniteSet(Behind(i)) /\ Cardinality(Behind(i)) \in Nat
      /\ browser.cursor \in Nat /\ evicted \in Nat /\ SnapshotLimit \in Nat /\ FitLimit \in Nat
  BY <1>0, <1>4, SeenIsFinite, WebFeedAssumption DEF WebTypes
<1>7. /\ session' = "subscribed" /\ stream' = <<>> /\ liveQueue' = <<>>
      /\ browser' = [browser EXCEPT !.ready = FALSE]
      /\ UNCHANGED <<log, worldGen, evicted>>
      /\ blind' = (blind \/ (browser.cursor = 0 /\ browser.events # <<>>))
  BY DEF ConnectPage
<1>8. /\ browser'.events = browser.events /\ browser'.cursor = browser.cursor
      /\ browser'.generation = browser.generation /\ ~browser'.ready
  BY <1>0, <1>7 DEF WebTypes
<1>9. Transcript' = Transcript /\ Seen' = Seen /\ \A i : Hidden(i) <=> Hidden(i)'
  BY <1>7, <1>8 DEF Transcript, Seen, Hidden, Behind
<1>10. ~blind' => ~blind /\ (browser.cursor = 0 => Transcript = {})
  <2>1. browser.events = <<>> => Transcript = {}  BY DEF Transcript
  <2>2. QED  BY <1>7, <2>1
<1>11. PageSound'
  BY <1>0, <1>7, <1>8, <1>9, <1>10 DEF PageSound, NoHole
<1>12. /\ snapshot'.after = browser.cursor /\ snapshot'.cursor = c /\ snapshot'.selected = S
       /\ \A i \in Seen : browser.cursor > 0 /\ browser.cursor < i
                          /\ log[i].generation = worldGen /\ worldGen \notin snapshot'.gaps => i \in S
  <2> DEFINE visible == {i \in DOMAIN log : log[i].visible /\ i > browser.cursor}
             retained == {i \in visible : i > evicted}
             missing == {log[i].generation : i \in retained \ S}
                          \cup {log[i].generation : i \in Of(visible \ retained, worldGen)}
  <2>1. retained = R /\ visible = {i \in Seen : i > browser.cursor}  BY <1>1 DEF Seen
  <2>2. snapshot' = [after |-> browser.cursor, cursor |-> c, selected |-> S,
                     gaps |-> IF browser.cursor = 0 THEN {} ELSE missing]
    BY <1>2, <1>4, <2>1 DEF ConnectPage
  <2>3. ASSUME NEW i \in Seen, browser.cursor < i, log[i].generation = worldGen, i \notin S
        PROVE  worldGen \in missing
    <3>1. i \in visible  BY <1>6, <2>1, <2>3
    <3>2. CASE i \in retained  BY <2>3, <3>2
    <3>3. CASE i \notin retained  BY <2>3, <3>1, <3>3 DEF Of
    <3>4. QED  BY <3>2, <3>3
  <2> HIDE DEF missing
  <2>4. browser.cursor > 0 => snapshot'.gaps = missing  BY <1>6, <2>2
  <2>5. QED  BY <2>2, <2>3, <2>4
<1>13. OnTheWay(P, c)'
  <2>1. browser.cursor <= c /\ \A i \in Transcript : i \in Seen  BY <1>0, <1>4 DEF PageSound
  <2>2. \A i \in Seen : i <= c  BY <1>6 DEF Seen
  <2>3. \A i \in P : i \in Seen /\ browser.cursor < i  BY <1>1, <1>5, <1>6
  <2>4. \A i \in P, j \in Transcript : i < j => i \in Transcript
    BY <1>0, <1>5, <1>6, <2>3 DEF PageSound
  <2>5. c <= Len(log')  BY <1>4, <1>7
  <2>6. QED  BY <1>8, <1>9, <2>1, <2>2, <2>3, <2>4, <2>5 DEF OnTheWay
<1>14. RestHidden(P, c)'
  <2>1. ASSUME NEW i \in Seen, NEW j \in P, j < i PROVE i \in P
    <3>1. j \in Seen /\ j > browser.cursor /\ ~Hidden(j)  BY <1>1, <1>5
    <3>2. i \in Nat /\ j \in Nat /\ i > browser.cursor  BY <1>6, <2>1, <3>1
    <3>3. Behind(i) \in SUBSET Behind(j)
      <4>1. \A x \in Seen : x > i => x > j  BY <1>6, <2>1, <3>2
      <4>2. QED  BY <4>1 DEF Behind
    <3>4. Cardinality(Behind(i)) <= Cardinality(Behind(j))  BY <1>6, <3>3, FS_Subset
    <3>5. ~Hidden(i)  BY <1>6, <2>1, <3>1, <3>2, <3>4 DEF Hidden
    <3>6. QED  BY <1>5, <3>2, <3>5
  <2>2. \A i \in Seen : browser.cursor < i /\ i \notin P => Hidden(i)  BY <1>5, <1>6
  <2>3. QED  BY <1>8, <1>9, <2>1, <2>2 DEF RestHidden
<1>15. SubscribedSound'
  <2>1. P = Newest(snapshot'.selected, FitLimit)  BY <1>3, <1>12
  <2>2. P = Newest(snapshot.selected, FitLimit)'  BY <2>1 DEF Newest
  <2>3. S \subseteq Seen  BY <1>1, <1>5
  <2>4. browser'.cursor = 0 /\ ~blind' => Transcript' = {}  BY <1>8, <1>9, <1>10
  <2>5. \A i \in Seen' : /\ browser'.cursor > 0 /\ browser'.cursor < i
                         /\ log'[i].generation = worldGen' /\ worldGen' \notin snapshot'.gaps
                         => i \in snapshot'.selected
    BY <1>7, <1>8, <1>9, <1>12
  <2>6. snapshot'.after = browser'.cursor /\ snapshot'.selected \subseteq Seen'
    BY <1>8, <1>9, <1>12, <2>3
  <2>7. QED  BY <1>7, <1>12, <1>13, <1>14, <2>2, <2>4, <2>5, <2>6 DEF SubscribedSound
<1>16. LiveFrom(snapshot.cursor, 0)'
  <2>1. c + 0 <= Len(log') /\ c + 0 + 0 = Len(log')  BY <1>4, <1>7
  <2>2. Len(liveQueue') = 0 /\ DOMAIN liveQueue' = {}  BY <1>7
  <2>3. QED  BY <1>12, <2>1, <2>2 DEF LiveFrom
<1>17. QED  BY <1>7, <1>11, <1>15, <1>16 DEF SessionSound

LEMMA SendInitialStep ==
  ASSUME TranscriptInv, WebTypes', SendInitialState
  PROVE  PageSound' /\ SessionSound'
<1>0. WebTypes /\ PageSound /\ SubscribedSound /\ LiveFrom(snapshot.cursor, 0) /\ GenerationsRise
  BY DEF TranscriptInv, SessionSound, SendInitialState
<1>1. PICK S : S = snapshot.selected  OBVIOUS
<1>2. PICK P : P = Newest(S, FitLimit)  OBVIOUS
<1>3. PICK c \in Nat : c = snapshot.cursor  BY <1>0 DEF WebTypes
<1>4. UNCHANGED <<log, worldGen, evicted, liveQueue, browser, blind>> /\ session' = "sending"
  BY DEF SendInitialState
<1>5. /\ S \subseteq Seen /\ IsFiniteSet(Seen) /\ Seen \subseteq Nat /\ P \subseteq S
      /\ Len(log) \in Nat /\ DOMAIN log = 1..Len(log)
  BY <1>0, <1>1, <1>2, SeenIsFinite DEF SubscribedSound, Newest
<1>6. P \in SUBSET Nat /\ IsFiniteSet(P) /\ IsFiniteSet(S)
  <2>1. IsFiniteSet(S)  BY <1>5, FS_Subset
  <2>2. IsFiniteSet(P)  BY <1>5, <2>1, FS_Subset
  <2>3. QED  BY <1>5, <2>1, <2>2
<1>7. OnTheWay(P, c) /\ RestHidden(P, c)
  BY <1>0, <1>1, <1>2, <1>3 DEF SubscribedSound
<1>8. (\A i : Hidden(i) <=> Hidden(i)') /\ Seen' = Seen /\ Transcript' = Transcript
  BY <1>4 DEF Hidden, Behind, Seen, Transcript
<1>9. PageSound'
  BY <1>0, <1>4, <1>8 DEF PageSound, NoHole
<1>10. PICK G \in Nat : G = worldGen  BY <1>0 DEF WebTypes
<1>11. PICK hello : /\ hello \in WebMessages
                    /\ hello.type = "hello" /\ hello.generation = G
                    /\ hello.gap <=> Gap(P)
                    /\ hello = [type |-> "hello", generation |-> worldGen, gap |-> Gap(P)]
  <2>1. Gap(P) \in BOOLEAN  BY DEF Gap
  <2>2. PICK b \in BOOLEAN : b = Gap(P)  BY <2>1
  <2>3. [type |-> "hello", generation |-> G, gap |-> b] \in WebMessages  BY DEF WebMessages
  <2> DEFINE h == [type |-> "hello", generation |-> G, gap |-> b]
  <2>4. h.type = "hello" /\ h.generation = G /\ h.gap = b  OBVIOUS
  <2>5. h = [type |-> "hello", generation |-> worldGen, gap |-> Gap(P)]  BY <1>10, <2>2
  <2>6. QED  BY <2>2, <2>3, <2>4, <2>5
<1>12. PICK last : /\ last \in WebMessages /\ last.type = "ready" /\ last.cursor = c
                   /\ last = [type |-> "ready", cursor |-> snapshot.cursor]
  <2> DEFINE l == [type |-> "ready", cursor |-> c]
  <2>1. l \in WebMessages /\ l.type = "ready" /\ l.cursor = c  BY DEF WebMessages
  <2>2. l = [type |-> "ready", cursor |-> snapshot.cursor]  BY <1>3
  <2>3. QED  BY <2>1, <2>2
<1>13. PICK e : e = EventsOf(P)  OBVIOUS
<1>14. PICK E : E = [type : {"event"}, cursor : Nat]  OBVIOUS
<1>15. /\ e \in Seq(E)
       /\ \A k \in 1..Len(e) : e[k].cursor \in P
       /\ \A j, k \in 1..Len(e) : j < k => e[j].cursor < e[k].cursor
       /\ \A i \in P : \E k \in 1..Len(e) : e[k].cursor = i
  BY <1>6, <1>13, <1>14, EventsOfLists
<1>16. e \in Seq(WebMessages) /\ Len(e) \in Nat /\ \A k \in 1..Len(e) : e[k].type = "event"
  <2>1. E \subseteq WebMessages  BY <1>14 DEF WebMessages
  <2>2. \A k \in 1..Len(e) : e[k] \in E  BY <1>15
  <2>3. \A x \in E : x.type = "event"  BY <1>14
  <2>4. Len(e) \in Nat /\ e \in Seq(WebMessages)  BY <1>15, <2>1
  <2>5. QED  BY <2>2, <2>3, <2>4
<1>17. PICK n \in Nat : n = Len(e)  BY <1>16
<1>18. stream' = <<hello>> \o e \o <<last>>
  BY <1>1, <1>2, <1>11, <1>12, <1>13 DEF SendInitialState
<1>19. /\ Len(stream') = n + 2 /\ DOMAIN stream' = 1..n + 2
       /\ stream'[1] = hello /\ stream'[n + 2] = last
       /\ \A k \in 1..n : stream'[k + 1] = e[k]
  <2>1. <<hello>> \in Seq(WebMessages) /\ <<last>> \in Seq(WebMessages)  BY <1>11, <1>12
  <2>2. PICK f : f = <<hello>> \o e  OBVIOUS
  <2>3. /\ f \in Seq(WebMessages) /\ Len(f) = n + 1 /\ f[1] = hello
        /\ \A k \in 1..n : f[k + 1] = e[k]
    BY <1>16, <1>17, <2>1, <2>2
  <2>4. stream' = f \o <<last>>  BY <1>18, <2>2
  <2>5. Len(stream') = n + 2 /\ stream' \in Seq(WebMessages)  BY <2>1, <2>3, <2>4
  <2>6. stream'[n + 2] = last /\ \A k \in 1..n + 1 : stream'[k] = f[k]  BY <2>1, <2>3, <2>4
  <2>7. 1 \in 1..n + 1 /\ \A k \in 1..n : k + 1 \in 1..n + 1  OBVIOUS
  <2>8. QED  BY <2>3, <2>5, <2>6, <2>7
<1>20. \A k \in 1..n + 2 : k < n + 2 /\ k # 1 => k - 1 \in 1..n /\ stream'[k] = e[k - 1]
  <2> SUFFICES ASSUME NEW k \in 1..n + 2, k < n + 2, k # 1
               PROVE  k - 1 \in 1..n /\ stream'[k] = e[k - 1]
    OBVIOUS
  <2>1. k - 1 \in 1..n /\ (k - 1) + 1 = k  OBVIOUS
  <2>2. QED  BY <1>19, <2>1
<1>21. Announced(P, c, hello)'
  <2>1. \A i \in Seen : log[i].generation <= G  BY <1>0, <1>10 DEF GenerationsRise, Seen
  <2>2. browser.generation <= G  BY <1>0, <1>10 DEF PageSound
  <2>3. ASSUME ~hello.gap, ~blind, Transcript # {},
               NEW i \in Seen, browser.cursor < i, i <= c, log[i].generation = G
        PROVE  i \in P
    <3>1. ~Gap(P)  BY <1>11, <2>3
    <3>2. browser.cursor \in Nat /\ browser.cursor # 0 /\ snapshot.after = browser.cursor
      BY <1>0, <2>3 DEF SubscribedSound, WebTypes
    <3>3. i \in S  BY <1>0, <1>1, <1>3, <1>10, <2>3, <3>1, <3>2 DEF SubscribedSound, Gap
    <3>4. PICK A : A = Of(S, G)  OBVIOUS
    <3>5. PICK B : B = Of(P, G)  OBVIOUS
    <3>6. ~(Cardinality(A) > Cardinality(B))  BY <1>1, <1>10, <3>1, <3>2, <3>4, <3>5 DEF Gap
    <3>7. B \in SUBSET A /\ A \in SUBSET S  BY <1>5, <3>4, <3>5 DEF Of
    <3>8. IsFiniteSet(A) /\ IsFiniteSet(B)
      <4>1. IsFiniteSet(A)  BY <1>6, <3>7, FS_Subset
      <4>2. QED  BY <4>1, <3>7, FS_Subset
    <3>9. Cardinality(A) \in Nat /\ Cardinality(B) \in Nat  BY <3>8, FS_CardinalityType
    <3>10. Cardinality(A) = Cardinality(B)
      <4>1. Cardinality(B) <= Cardinality(A)  BY <3>7, <3>8, FS_Subset
      <4>2. QED  BY <3>6, <3>9, <4>1
    <3>11. A = B  BY <3>7, <3>8, <3>10, FS_Subset
    <3>12. i \in A  BY <2>3, <3>3, <3>4 DEF Of
    <3>13. QED  BY <3>5, <3>11, <3>12 DEF Of
  <2>4. RestHidden(P, c)'  BY <1>4, <1>7, <1>8 DEF RestHidden
  <2>5. G <= G  OBVIOUS
  <2>6. QED  BY <1>4, <1>8, <1>10, <1>11, <2>1, <2>2, <2>3, <2>4, <2>5 DEF Announced
<1>22. PICK r \in Nat : r = n + 2  OBVIOUS
<1>23. Announcement(P, c, r)'
  <2>1. OnTheWay(P, c)'  BY <1>4, <1>7, <1>8 DEF OnTheWay
  <2>2. r # 0 /\ r \in DOMAIN stream' /\ stream'[r].type = "ready" /\ stream'[r].cursor = c
    BY <1>12, <1>19, <1>22
  <2>3. \A k \in DOMAIN stream' : k < r /\ stream'[k].type # "event" =>
            k = 1 /\ stream'[k].type = "hello"
    BY <1>11, <1>16, <1>17, <1>19, <1>20, <1>22
  <2>4. \A k \in DOMAIN stream' : k < r /\ stream'[k].type = "event" =>
            k # 1 /\ k - 1 \in 1..n /\ stream'[k] = e[k - 1]
    <3>1. stream'[1].type # "event"  BY <1>11, <1>19
    <3>2. QED  BY <1>19, <1>20, <1>22, <3>1
  <2>5. \A k \in DOMAIN stream' : k < r /\ stream'[k].type = "event" => stream'[k].cursor \in P
    BY <1>15, <1>17, <2>4
  <2>6. \A i \in P : \E k \in DOMAIN stream' :
            k < r /\ stream'[k].type = "event" /\ stream'[k].cursor = i
    <3> SUFFICES ASSUME NEW i \in P
                 PROVE  \E k \in DOMAIN stream' :
                            k < r /\ stream'[k].type = "event" /\ stream'[k].cursor = i
      OBVIOUS
    <3>1. PICK k \in 1..n : e[k].cursor = i  BY <1>15, <1>17
    <3>2. k + 1 \in DOMAIN stream' /\ k + 1 < r /\ stream'[k + 1] = e[k] /\ e[k].type = "event"
      BY <1>16, <1>17, <1>19, <1>22
    <3>3. QED  BY <3>1, <3>2
  <2>7. \A j, k \in DOMAIN stream' :
            j < k /\ k < r /\ stream'[j].type = "event" => stream'[j].cursor < stream'[k].cursor
    <3> SUFFICES ASSUME NEW j \in DOMAIN stream', NEW k \in DOMAIN stream',
                        j < k, k < r, stream'[j].type = "event"
                 PROVE  stream'[j].cursor < stream'[k].cursor
      OBVIOUS
    <3>1. j \in 1..n + 2 /\ k \in 1..n + 2  BY <1>19
    <3>2. j < r /\ k # 1  BY <1>22, <3>1
    <3>3. j - 1 \in 1..n /\ stream'[j] = e[j - 1]  BY <2>4, <3>2
    <3>4. k - 1 \in 1..n /\ stream'[k] = e[k - 1]  BY <1>20, <1>22, <3>1, <3>2
    <3>5. j - 1 < k - 1  BY <3>1
    <3>6. QED  BY <1>15, <1>17, <3>3, <3>4, <3>5
  <2>8. (IF stream[1].type = "hello" THEN Announced(P, c, stream[1]) ELSE Following(P, c))'
    <3>1. stream'[1] = hello  BY <1>19
    <3>2. Announced(P, c, stream[1])'  BY <1>21, <3>1 DEF Announced
    <3>3. QED  BY <1>11, <3>1, <3>2
  <2>9. QED  BY <2>1, <2>2, <2>3, <2>5, <2>6, <2>7, <2>8 DEF Announcement
<1>24. Live(c, r)'  BY <1>19, <1>22 DEF Live
<1>25. LiveFrom(c, Len(stream) - r)'
  <2>1. Len(stream') - r = 0  BY <1>19, <1>22
  <2>2. LiveFrom(c, 0)  BY <1>0, <1>3
  <2>3. LiveFrom(c, 0)'  BY <1>4, <2>2 DEF LiveFrom
  <2>4. QED  BY <2>1, <2>3 DEF LiveFrom
<1>26. SendingSound'
  <2>1. r \in 0..Len(stream') /\ c \in 0..Len(log') /\ P \in SUBSET (1..Len(log'))
    <3>1. r \in 0..Len(stream')  BY <1>19, <1>22
    <3>2. c \in 0..Len(log')  BY <1>4, <1>5, <1>7 DEF OnTheWay
    <3>3. P \in SUBSET (1..Len(log'))  BY <1>4, <1>5 DEF Seen
    <3>4. QED  BY <3>1, <3>2, <3>3
  <2>2. \E rr \in 0..Len(stream'), cc \in 0..Len(log'), PP \in SUBSET (1..Len(log')) :
          Announcement(PP, cc, rr)' /\ Live(cc, rr)' /\ LiveFrom(cc, Len(stream) - rr)'
    BY <1>23, <1>24, <1>25, <2>1
  <2>3. QED  BY <2>2 DEF SendingSound
<1>27. QED  BY <1>4, <1>9, <1>26 DEF SessionSound

\* The first message leaves the stream; the events after the snapshot stay where they are.
LEMMA LiveAfterHead ==
  ASSUME WebTypes, stream # <<>>, stream' = Tail(stream), UNCHANGED <<log, liveQueue>>,
         NEW c \in Nat, NEW r \in Nat, r <= Len(stream), Live(c, r), LiveFrom(c, Len(stream) - r),
         NEW d \in Nat, NEW q \in Nat, d + r = c + q + 1, q + 1 >= r, q + 1 <= Len(stream)
  PROVE  /\ Live(d, q)' /\ LiveFrom(d, Len(stream) - q)'
         /\ q \in 0..Len(stream') /\ d <= Len(log)
<1>1. PICK s \in Seq(WebMessages) : s = stream  BY DEF WebTypes
<1>2. /\ Len(s) \in Nat /\ Len(s) > 0 /\ DOMAIN s = 1..Len(s) /\ Len(stream') = Len(s) - 1
      /\ DOMAIN stream' = 1..Len(s) - 1 /\ \A k \in 1..Len(s) - 1 : stream'[k] = s[k + 1]
  BY <1>1
<1>3. Live(d, q)'
  <2> SUFFICES ASSUME NEW k \in 1..Len(s) - 1, k > q
               PROVE  /\ stream'[k].cursor = d + (k - q)
                      /\ stream'[k].type = IF log[d + (k - q)].visible THEN "event" ELSE "cursor"
    BY <1>2 DEF Live
  <2>1. k + 1 \in DOMAIN s /\ k + 1 > r /\ stream'[k] = s[k + 1]  BY <1>2
  <2>2. c + ((k + 1) - r) = d + (k - q)
    <3>1. k \in Nat  BY <1>2
    <3>2. QED  BY <3>1
  <2>3. QED  BY <1>1, <2>1, <2>2 DEF Live
<1>13. PICK l \in Nat : l = Len(s) /\ r <= l /\ q + 1 <= l /\ Len(stream') = l - 1  BY <1>1, <1>2
<1>14. l - r \in Nat /\ (l - 1) - q \in Nat  BY <1>13
<1>4. PICK n \in Nat : n = l - r  BY <1>14
<1>5. PICK m \in Nat : m = (l - 1) - q  BY <1>14
<1>6. d + m = c + n  BY <1>4, <1>5
<1>7. LiveFrom(c, n)  BY <1>1, <1>4, <1>13
<1>8. LiveFrom(d, m)'  BY <1>6, <1>7 DEF LiveFrom
<1>9. LiveFrom(d, Len(stream) - q)'  BY <1>5, <1>8, <1>13 DEF LiveFrom
<1>10. q \in 0..Len(stream')  BY <1>13
<1>11. d <= Len(log)
  <2>1. d + m <= Len(log)  BY <1>6, <1>7 DEF LiveFrom
  <2>2. Len(log) \in Nat  BY DEF WebTypes
  <2>3. QED  BY <2>1, <2>2
<1>12. QED  BY <1>3, <1>9, <1>10, <1>11

LEMMA AnnouncementAfterHead ==
  ASSUME WebTypes, stream' = Tail(stream),
         NEW P, NEW c, NEW r \in Nat, r > 1, Announcement(P, c, r),
         NEW Q, Q = (IF stream[1].type = "event" THEN P \ {stream[1].cursor} ELSE P),
         OnTheWay(Q, c)', Following(Q, c)'
  PROVE  Announcement(Q, c, r - 1)'
<1>1. PICK s \in Seq(WebMessages) : s = stream  BY DEF WebTypes
<1>2. /\ r \in DOMAIN s /\ s[r].type = "ready" /\ s[r].cursor = c
      /\ \A k \in DOMAIN s : k < r /\ s[k].type # "event" => k = 1 /\ s[k].type = "hello"
      /\ \A k \in DOMAIN s : k < r /\ s[k].type = "event" => s[k].cursor \in P
      /\ \A i \in P : \E k \in DOMAIN s : k < r /\ s[k].type = "event" /\ s[k].cursor = i
      /\ \A j, k \in DOMAIN s : j < k /\ k < r /\ s[j].type = "event" => s[j].cursor < s[k].cursor
  BY <1>1 DEF Announcement
<1>3. /\ Len(s) \in Nat /\ r <= Len(s) /\ DOMAIN s = 1..Len(s) /\ s # <<>>
      /\ DOMAIN stream' = 1..Len(s) - 1 /\ \A k \in 1..Len(s) - 1 : stream'[k] = s[k + 1]
  BY <1>1, <1>2
<1>4. PICK q \in Nat : q = r - 1  OBVIOUS
<1>5. q # 0 /\ q \in DOMAIN stream' /\ stream'[q] = s[r]
  <2>1. q # 0 /\ q \in 1..Len(s) - 1 /\ q + 1 = r  BY <1>3, <1>4
  <2>2. QED  BY <1>3, <2>1
<1>6. \A k \in DOMAIN stream' : k < q =>
          /\ k + 1 \in DOMAIN s /\ k + 1 < r /\ k + 1 # 1 /\ 1 < k + 1 /\ k \in Nat
          /\ stream'[k] = s[k + 1] /\ s[k + 1].type = "event"
  <2> SUFFICES ASSUME NEW k \in DOMAIN stream', k < q
               PROVE  /\ k + 1 \in DOMAIN s /\ k + 1 < r /\ k + 1 # 1 /\ 1 < k + 1 /\ k \in Nat
                      /\ stream'[k] = s[k + 1] /\ s[k + 1].type = "event"
    OBVIOUS
  <2>1. /\ k + 1 \in DOMAIN s /\ k + 1 < r /\ k + 1 # 1 /\ 1 < k + 1 /\ k \in Nat
        /\ stream'[k] = s[k + 1]
    BY <1>3, <1>4
  <2>2. QED  BY <1>2, <2>1
<1>7. 1 \in DOMAIN s /\ 1 < r  BY <1>3
<1>8. \A k \in DOMAIN stream' : k < q => stream'[k].cursor \in Q
  <2> SUFFICES ASSUME NEW k \in DOMAIN stream', k < q PROVE stream'[k].cursor \in Q
    OBVIOUS
  <2>1. stream'[k].cursor \in P  BY <1>2, <1>6
  <2>2. ASSUME s[1].type = "event" PROVE stream'[k].cursor # s[1].cursor
    <3>1. s[1].cursor < s[k + 1].cursor  BY <1>2, <1>6, <1>7, <2>2
    <3>2. s[1].cursor \in Nat
      <4>1. s[1] \in WebMessages  BY <1>7
      <4>2. QED  BY <2>2, <4>1 DEF WebMessages
    <3>3. QED  BY <1>6, <3>1, <3>2
  <2>3. QED  BY <1>1, <2>1, <2>2
<1>9. \A i \in Q : \E k \in DOMAIN stream' :
          k < q /\ stream'[k].type = "event" /\ stream'[k].cursor = i
  <2> SUFFICES ASSUME NEW i \in Q
               PROVE  \E k \in DOMAIN stream' :
                          k < q /\ stream'[k].type = "event" /\ stream'[k].cursor = i
    OBVIOUS
  <2>1. PICK k \in DOMAIN s : k < r /\ s[k].type = "event" /\ s[k].cursor = i  BY <1>2
  <2>2. k # 1  BY <1>1, <2>1
  <2>3. k - 1 \in DOMAIN stream' /\ k - 1 < q /\ (k - 1) + 1 = k  BY <1>3, <1>4, <2>1, <2>2
  <2>4. stream'[k - 1] = s[k]  BY <1>3, <2>3
  <2>5. QED  BY <2>1, <2>3, <2>4
<1>10. \A j, k \in DOMAIN stream' :
           j < k /\ k < q /\ stream'[j].type = "event" => stream'[j].cursor < stream'[k].cursor
  <2> SUFFICES ASSUME NEW j \in DOMAIN stream', NEW k \in DOMAIN stream', j < k, k < q
               PROVE  stream'[j].cursor < stream'[k].cursor
    OBVIOUS
  <2>1. j < q /\ j + 1 < k + 1  BY <1>3, <1>4
  <2>2. QED  BY <1>2, <1>6, <2>1
<1>11. stream'[1].type # "hello"
  <2>1. CASE q = 1  BY <1>2, <1>5, <2>1
  <2>2. CASE q # 1
    <3>1. 1 \in DOMAIN stream' /\ 1 < q  BY <1>3, <1>4, <2>2
    <3>2. QED  BY <1>6, <3>1
  <2>3. QED  BY <2>1, <2>2
<1>12. Announcement(Q, c, q)'
  BY SMTT(30), <1>2, <1>5, <1>6, <1>8, <1>9, <1>10, <1>11 DEF Announcement
<1>13. QED  BY <1>4, <1>12

LEMMA StillSending ==
  ASSUME session' = "sending",
         NEW r \in 0..Len(stream'), NEW c \in 0..Len(log'), NEW P \in SUBSET (1..Len(log')),
         Announcement(P, c, r)', Live(c, r)', LiveFrom(c, Len(stream) - r)'
  PROVE  SessionSound'
<1>1. \E rr \in 0..Len(stream'), cc \in 0..Len(log'), PP \in SUBSET (1..Len(log')) :
        Announcement(PP, cc, rr)' /\ Live(cc, rr)' /\ LiveFrom(cc, Len(stream) - rr)'
  OBVIOUS
<1>2. SendingSound'  BY <1>1 DEF SendingSound
<1>3. QED  BY <1>2 DEF SessionSound

\* A page that is ready takes the next event, or only its cursor.
LEMMA HandleLiveStep ==
  ASSUME TranscriptInv, WebTypes', HandleMessage, NEW c \in 0..Len(log), NEW P,
         Announcement(P, c, 0), Live(c, 0), LiveFrom(c, Len(stream) - 0)
  PROVE  PageSound' /\ SessionSound'
<1>0. WebTypes /\ PageSound /\ GenerationsRise  BY DEF TranscriptInv
<1>1. /\ stream # <<>> /\ stream' = Tail(stream)
      /\ UNCHANGED <<log, worldGen, evicted, snapshot, liveQueue, session, blind>>
  BY DEF HandleMessage
<1>2. session = "sending"  BY <1>1, StreamIsKnown
<1>3. browser.ready /\ P = {} /\ c = browser.cursor /\ \A i \in Transcript : i <= c
  BY DEF Announcement
<1>4. Len(log) \in Nat /\ DOMAIN log = 1..Len(log) /\ c \in Nat /\ \A i \in DOMAIN log : log[i].generation \in Nat
  BY <1>0, SeenIsFinite, LogEntries
<1>5. PICK i \in Nat : i = c + 1  BY <1>4
<1>6. Len(stream) \in Nat /\ 0 + 1 <= Len(stream) /\ 1 \in DOMAIN stream /\ Head(stream) = stream[1]
  BY <1>0, <1>1 DEF WebTypes
<1>7. /\ Live(i, 0)' /\ LiveFrom(i, Len(stream) - 0)'
      /\ 0 \in 0..Len(stream') /\ i <= Len(log)
  <2>1. i + 0 = c + 0 + 1 /\ 0 + 1 >= 0 /\ 0 <= Len(stream)  BY <1>4, <1>5, <1>6
  <2>2. QED  BY <1>0, <1>1, <1>4, <1>6, <2>1, LiveAfterHead
<1>8. i \in DOMAIN log /\ i \in 0..Len(log)  BY <1>4, <1>5, <1>7
<1>9. PICK m : m = stream[1]  OBVIOUS
<1>10. m.cursor = i /\ m.type = IF log[i].visible THEN "event" ELSE "cursor"
  <2>1. c + (1 - 0) = i /\ 1 > 0  BY <1>4, <1>5
  <2>2. QED  BY <1>6, <1>9, <2>1 DEF Live
<1>11. (\A x : Hidden(x) <=> Hidden(x)') /\ Seen' = Seen  BY <1>1 DEF Hidden, Behind, Seen
<1>12. PICK e \in Seq(Nat) : e = browser.events  BY <1>0 DEF WebTypes
<1>13. DOMAIN e = 1..Len(e) /\ Len(e) \in Nat /\ \A k \in DOMAIN e : e[k] \in Transcript /\ e[k] \in Nat
  BY <1>12 DEF Transcript
<1>14. /\ Transcript \subseteq Seen /\ (\A x \in Transcript : log[x].generation <= browser.generation)
       /\ browser.generation \in Nat /\ browser.generation <= worldGen /\ worldGen \in Nat
       /\ browser.cursor \in Nat /\ \A j, k \in DOMAIN e : j < k => e[j] < e[k]
  BY <1>0, <1>12 DEF PageSound, WebTypes
<1>15. CASE ~log[i].visible
  <2>1. browser' = [browser EXCEPT !.cursor = i]  BY <1>1, <1>6, <1>9, <1>10, <1>15 DEF HandleMessage
  <2>2. /\ browser'.events = e /\ browser'.cursor = i /\ browser'.ready = browser.ready
        /\ browser'.generation = browser.generation
    BY <1>0, <1>12, <2>1 DEF WebTypes
  <2>3. Transcript' = Transcript  BY <1>12, <2>2 DEF Transcript
  <2>4. i \notin Seen /\ \A x \in Seen : x <= i => x <= c  BY <1>4, <1>5, <1>15 DEF Seen
  <2>5. ~blind => NoHole(Transcript, browser.generation, i)
    <3>1. ~blind => NoHole(Transcript, browser.generation, c)  BY <1>0, <1>3 DEF PageSound
    <3>2. QED  BY <2>4, <3>1 DEF NoHole
  <2>6. \A x \in Seen, j \in Transcript : i < x /\ x < j /\ x \notin Transcript => Hidden(x)
    <3>1. \A x \in Seen : i < x => c < x  BY <1>4, <1>5 DEF Seen
    <3>2. QED  BY <1>0, <1>3, <3>1 DEF PageSound
  <2>7. ~blind' => NoHole(Transcript, browser.generation, browser.cursor)'
    BY <1>1, <1>11, <2>2, <2>3, <2>5 DEF NoHole
  <2>8. PageSound'
    BY <1>1, <1>7, <1>11, <1>12, <1>14, <2>2, <2>3, <2>6, <2>7 DEF PageSound
  <2>9. Announcement({}, i, 0)'
    <3>1. \A x \in Transcript : x <= i  BY <1>3, <1>4, <1>5, <1>13, <1>14 DEF Seen
    <3>2. QED  BY <1>3, <2>2, <2>3, <3>1 DEF Announcement
  <2>10. session' = "sending" /\ i \in 0..Len(log') /\ {} \in SUBSET (1..Len(log'))  BY <1>1, <1>2, <1>8
  <2>11. SessionSound'  BY <1>7, <2>9, <2>10, StillSending
  <2>12. QED  BY <2>8, <2>11
<1>16. CASE log[i].visible
  <2>1. browser' = AfterEvent(i)  BY <1>1, <1>6, <1>9, <1>10, <1>16 DEF HandleMessage
  <2>2. i \notin Transcript  BY <1>3, <1>4, <1>5
  <2>3. PICK g \in Nat : g = IF log[i].generation > browser.generation THEN log[i].generation
                            ELSE browser.generation
    BY <1>4, <1>8, <1>14
  <2>4. /\ browser'.events = Append(e, i) /\ browser'.cursor = i /\ browser'.ready = browser.ready
        /\ browser'.generation = g
    <3>1. browser' = [browser EXCEPT !.generation = g, !.cursor = i, !.events = Append(e, i)]
      BY <1>3, <1>12, <2>1, <2>2, <2>3 DEF AfterEvent, Transcript
    <3>2. QED  BY <1>0, <3>1 DEF WebTypes
  <2>5. PICK f : f = browser'.events  OBVIOUS
  <2>6. /\ DOMAIN f = 1..Len(e) + 1 /\ f[Len(e) + 1] = i /\ \A k \in 1..Len(e) : f[k] = e[k]
    BY <1>12, <1>13, <2>4, <2>5
  <2>7. \A k \in DOMAIN f : f[k] = i \/ f[k] \in Transcript
    BY <1>13, <2>6
  <2>8. \A x \in Transcript : \E k \in DOMAIN f : f[k] = x
    <3>1. \A x \in Transcript : \E k \in 1..Len(e) : e[k] = x  BY <1>12, <1>13 DEF Transcript
    <3>2. \A k \in 1..Len(e) : k \in DOMAIN f /\ f[k] = e[k]  BY <1>13, <2>6
    <3>3. QED  BY <3>1, <3>2
  <2>9. \E k \in DOMAIN f : f[k] = i  BY <1>13, <2>6
  <2>10. Transcript' = Transcript \cup {i}
    <3>1. Transcript' = {f[k] : k \in DOMAIN f}  BY <2>5 DEF Transcript
    <3>2. QED  BY <2>7, <2>8, <2>9, <3>1
  <2>11. \A j, k \in DOMAIN f : j < k => f[j] < f[k]
    <3> SUFFICES ASSUME NEW j \in DOMAIN f, NEW k \in DOMAIN f, j < k PROVE f[j] < f[k]
      OBVIOUS
    <3>1. j \in 1..Len(e) /\ f[j] = e[j]  BY <1>13, <2>6
    <3>2. CASE k \in 1..Len(e)  BY <1>13, <1>14, <2>6, <3>1, <3>2
    <3>3. CASE k \notin 1..Len(e)
      <4>1. k = Len(e) + 1  BY <1>13, <2>6, <3>3
      <4>2. e[j] \in Transcript /\ e[j] \in Nat  BY <1>13, <3>1
      <4>3. e[j] <= c  BY <1>3, <4>2
      <4>4. QED  BY <1>4, <1>5, <2>6, <3>1, <4>1, <4>2, <4>3
    <3>4. QED  BY <3>2, <3>3
  <2>12. i \in Seen  BY <1>8, <1>16 DEF Seen
  <2>13. log[i].generation \in Nat /\ log[i].generation <= g /\ browser.generation <= g /\ g <= worldGen
    <3>1. log[i].generation <= worldGen /\ log[i].generation \in Nat
      BY <1>0, <1>4, <1>8 DEF GenerationsRise
    <3>2. QED  BY <1>14, <2>3, <3>1
  <2>14. \A x \in Transcript \cup {i} : x \in Seen /\ log[x].generation <= g /\ x <= i
    <3> SUFFICES ASSUME NEW x \in Transcript PROVE x \in Seen /\ log[x].generation <= g /\ x <= i
      BY <1>5, <2>12, <2>13
    <3>1. x \in Seen /\ x \in DOMAIN log  BY <1>14 DEF Seen
    <3>2. log[x].generation \in Nat /\ log[x].generation <= browser.generation  BY <1>4, <1>14, <3>1
    <3>3. log[x].generation <= g  BY <1>14, <2>13, <3>2
    <3>4. x <= i  BY <1>3, <1>4, <1>5, <3>1
    <3>5. QED  BY <3>1, <3>3, <3>4
  <2>15. ~blind => NoHole(Transcript \cup {i}, g, i)
    <3>1. SUFFICES ASSUME ~blind, NEW x \in Seen, NEW j \in Transcript \cup {i}, j < x, x <= i, x # i,
                          log[x].generation = g, log[j].generation = g
                   PROVE  x \in Transcript
      BY DEF NoHole
    <3>2. x \in Nat /\ x <= c  BY <1>4, <1>5, <3>1 DEF Seen
    <3>3. j \in Transcript  BY <1>5, <3>1, <3>2
    <3>4. g = browser.generation  BY <1>14, <2>3, <3>1, <3>3
    <3>5. NoHole(Transcript, g, c)  BY <1>0, <1>3, <3>1, <3>4 DEF PageSound
    <3>6. QED  BY <3>1, <3>2, <3>3, <3>5 DEF NoHole
  <2>16. ~blind' => NoHole(Transcript, browser.generation, browser.cursor)'
    BY <1>1, <1>11, <2>4, <2>10, <2>15 DEF NoHole
  <2>17. \A x \in Seen, j \in Transcript \cup {i} : ~(i < x /\ x < j)
    <3> SUFFICES ASSUME NEW x \in Seen, NEW j \in Transcript \cup {i}, i < x, x < j PROVE FALSE
      OBVIOUS
    <3>1. j <= i /\ j \in Nat /\ x \in Nat  BY <1>4, <2>14 DEF Seen
    <3>2. QED  BY <3>1
  <2>18. PageSound'
    <3>1. browser'.cursor <= Len(log') /\ browser'.generation <= worldGen'
      BY <1>1, <1>7, <2>4, <2>13
    <3>2. Transcript' \subseteq Seen' /\ \A x \in Transcript' : log'[x].generation <= browser'.generation
      BY <1>1, <1>11, <2>4, <2>10, <2>14
    <3>3. \A x \in Seen', j \in Transcript' :
             browser'.cursor < x /\ x < j /\ x \notin Transcript' => Hidden(x)'
      BY <1>11, <2>4, <2>10, <2>17
    <3>4. QED  BY <2>5, <2>11, <2>16, <3>1, <3>2, <3>3 DEF PageSound
  <2>19. Announcement({}, i, 0)'
    BY <1>3, <2>4, <2>10, <2>14 DEF Announcement
  <2>20. session' = "sending" /\ i \in 0..Len(log') /\ {} \in SUBSET (1..Len(log'))  BY <1>1, <1>2, <1>8
  <2>21. SessionSound'  BY <1>7, <2>19, <2>20, StillSending
  <2>22. QED  BY <2>18, <2>21
<1>17. QED  BY <1>15, <1>16

\* "ready" is the first message: everything announced has arrived.
LEMMA HandleReadyStep ==
  ASSUME TranscriptInv, WebTypes', HandleMessage, NEW c \in 0..Len(log), NEW P,
         Announcement(P, c, 1), Live(c, 1), LiveFrom(c, Len(stream) - 1)
  PROVE  PageSound' /\ SessionSound'
<1>0. WebTypes /\ PageSound /\ GenerationsRise  BY DEF TranscriptInv
<1>1. /\ stream # <<>> /\ stream' = Tail(stream)
      /\ UNCHANGED <<log, worldGen, evicted, snapshot, liveQueue, session, blind>>
  BY DEF HandleMessage
<1>2. session = "sending"  BY <1>1, StreamIsKnown
<1>3. Len(log) \in Nat /\ DOMAIN log = 1..Len(log) /\ c \in Nat /\ Seen \subseteq Nat
  BY <1>0, SeenIsFinite
<1>4. Len(stream) \in Nat /\ DOMAIN stream = 1..Len(stream) /\ 1 <= Len(stream) /\ Head(stream) = stream[1]
  BY <1>0, <1>1 DEF WebTypes
<1>5. PICK m : m = stream[1]  OBVIOUS
<1>6. m.type = "ready" /\ m.cursor = c /\ OnTheWay(P, c) /\ Following(P, c)
  BY <1>5 DEF Announcement
<1>7. P = {}
  <2>1. \A k \in DOMAIN stream : ~(k < 1)  BY <1>4
  <2>2. QED  BY <2>1 DEF Announcement
<1>8. /\ Live(c, 0)' /\ LiveFrom(c, Len(stream) - 0)' /\ 0 \in 0..Len(stream')
  <2>1. c + 1 = c + 0 + 1 /\ 0 + 1 >= 1 /\ 0 + 1 <= Len(stream)  BY <1>3, <1>4
  <2>2. QED  BY <1>0, <1>1, <1>3, <1>4, <2>1, LiveAfterHead
<1>9. browser' = [browser EXCEPT !.cursor = c, !.ready = TRUE]
  BY <1>1, <1>4, <1>5, <1>6 DEF HandleMessage
<1>10. /\ browser'.events = browser.events /\ browser'.cursor = c /\ browser'.ready
       /\ browser'.generation = browser.generation
  BY <1>0, <1>9 DEF WebTypes
<1>11. Transcript' = Transcript  BY <1>10 DEF Transcript
<1>12. (\A x : Hidden(x) <=> Hidden(x)') /\ Seen' = Seen  BY <1>1 DEF Hidden, Behind, Seen
<1>13. \A x \in Transcript : x <= c /\ x \in Nat  BY <1>0, <1>3, <1>6 DEF OnTheWay, PageSound
<1>14. PageSound'
  <2>1. ~blind => NoHole(Transcript, browser.generation, c)
    <3>1. P \cup Transcript = Transcript  BY <1>7
    <3>2. QED  BY <1>6, <3>1 DEF Following
  <2>2. ~blind' => NoHole(Transcript, browser.generation, browser.cursor)'
    BY <1>1, <1>10, <1>11, <1>12, <2>1 DEF NoHole
  <2>3. \A x \in Seen, j \in Transcript : ~(c < x /\ x < j)  BY <1>3, <1>13
  <2>4. c <= Len(log)  BY <1>3
  <2>5. QED  BY <1>0, <1>1, <1>10, <1>11, <1>12, <2>2, <2>3, <2>4 DEF PageSound
<1>15. Announcement({}, c, 0)'  BY <1>10, <1>11, <1>13 DEF Announcement
<1>16. session' = "sending" /\ c \in 0..Len(log') /\ {} \in SUBSET (1..Len(log'))  BY <1>1, <1>2
<1>17. SessionSound'  BY <1>8, <1>15, <1>16, StillSending
<1>18. QED  BY <1>14, <1>17

LEMMA TranscriptAfterGap ==
  ASSUME browser.events \in Seq(Nat), NEW g, browser'.events = Without(browser.events, g)
  PROVE  Transcript' = {x \in Transcript : log[x].generation # g}
<1>1. PICK e \in Seq(Nat) : e = browser.events  OBVIOUS
<1>2. PICK f : f = Without(e, g)  OBVIOUS
<1>3. \A x : (\E k \in 1..Len(f) : f[k] = x) <=>
            (\E j \in 1..Len(e) : e[j] = x /\ log[x].generation # g)
  BY SMTT(30), <1>2, WithoutKeeps
<1>4. f \in Seq(Nat)  BY <1>2, WithoutKeeps
<1>5. DOMAIN e = 1..Len(e) /\ DOMAIN f = 1..Len(f)  BY <1>4
<1>6. \A x : x \in Transcript <=> \E j \in 1..Len(e) : e[j] = x  BY <1>1, <1>5 DEF Transcript
<1>7. \A x : x \in Transcript' <=> \E k \in 1..Len(f) : f[k] = x
  <2>1. browser'.events = f  BY <1>1, <1>2
  <2>2. QED  BY <1>5, <2>1 DEF Transcript
<1>8. \A x : x \in Transcript' <=> x \in Transcript /\ log[x].generation # g
  BY <1>3, <1>6, <1>7
<1>9. QED  BY <1>8

\* After "hello": what a gap removes from the transcript is its end, and none of it is announced.
LEMMA HandleHelloStep ==
  ASSUME TranscriptInv, WebTypes', HandleMessage, NEW c \in 0..Len(log), NEW P \in SUBSET (1..Len(log)),
         NEW r \in 0..Len(stream), r > 1,
         Announcement(P, c, r), Live(c, r), LiveFrom(c, Len(stream) - r), stream[1].type = "hello"
  PROVE  PageSound' /\ SessionSound'
<1>0. WebTypes /\ PageSound /\ GenerationsRise  BY DEF TranscriptInv
<1>1. /\ stream # <<>> /\ stream' = Tail(stream)
      /\ UNCHANGED <<log, worldGen, evicted, snapshot, liveQueue, session, blind>>
  BY DEF HandleMessage
<1>2. session = "sending"  BY <1>1, StreamIsKnown
<1>3. /\ Len(log) \in Nat /\ DOMAIN log = 1..Len(log) /\ c \in Nat /\ Seen \subseteq Nat
      /\ \A i \in Seen : log[i].generation \in Nat /\ i \in DOMAIN log
  BY <1>0, SeenIsFinite, LogEntries DEF Seen
<1>4. Len(stream) \in Nat /\ r \in Nat /\ r <= Len(stream) /\ Head(stream) = stream[1]
  BY <1>0, <1>1 DEF WebTypes
<1>5. PICK m : m = stream[1]  OBVIOUS
<1>6. OnTheWay(P, c) /\ Announced(P, c, m) /\ m.type = "hello"
  BY <1>5 DEF Announcement
<1>7. PICK g \in Nat : g = m.generation
  <2>1. m \in WebMessages  BY <1>1, <1>5, StreamIsKnown
  <2>2. QED  BY <1>6, <2>1 DEF WebMessages
<1>8. PICK q \in Nat : q = r - 1
  <2>1. r - 1 \in Nat  BY <1>4
  <2>2. QED  BY <2>1
<1>9. /\ Live(c, q)' /\ LiveFrom(c, Len(stream) - q)' /\ q \in 0..Len(stream')
  <2>1. c + r = c + q + 1 /\ q + 1 >= r /\ q + 1 <= Len(stream)  BY <1>3, <1>4, <1>8
  <2>2. QED  BY <1>0, <1>1, <1>3, <1>4, <2>1, LiveAfterHead
<1>10. PICK e \in Seq(Nat) : e = browser.events  BY <1>0 DEF WebTypes
<1>11. PICK f : f = IF m.gap THEN Without(e, g) ELSE e  OBVIOUS
<1>12. /\ browser'.events = f /\ browser'.cursor = browser.cursor /\ ~browser'.ready
       /\ browser'.generation = g
  <2>1. browser' = AfterHello(m)  BY <1>1, <1>4, <1>5, <1>6 DEF HandleMessage
  <2>2. browser' = [browser EXCEPT !.ready = FALSE, !.generation = g, !.events = f]
    BY <1>7, <1>10, <1>11, <2>1 DEF AfterHello
  <2>3. QED  BY <1>0, <2>2 DEF WebTypes
<1>13. PICK T : T = Transcript  OBVIOUS
<1>14. PICK U : U = Transcript'  OBVIOUS
<1>15. /\ T = {e[k] : k \in 1..Len(e)} /\ U = {f[k] : k \in DOMAIN f}
       /\ \A j, k \in 1..Len(e) : j < k => e[j] < e[k]
  <2>1. DOMAIN e = 1..Len(e)  BY <1>10
  <2>2. QED  BY <1>0, <1>10, <1>12, <1>13, <1>14, <2>1 DEF Transcript, PageSound
<1>16. U = (IF m.gap THEN {x \in T : log[x].generation # g} ELSE T)
       /\ \A j, k \in DOMAIN f : j < k => f[j] < f[k]
  <2>1. CASE ~m.gap
    <3>1. f = e /\ DOMAIN e = 1..Len(e)  BY <1>10, <1>11, <2>1
    <3>2. QED  BY <1>15, <2>1, <3>1
  <2>2. CASE m.gap
    <3>1. f = Without(e, g)  BY <1>11, <2>2
    <3>2. f \in Seq(Nat)  BY <3>1, WithoutKeeps
    <3>3. DOMAIN f = 1..Len(f)  BY <3>2
    <3>4. \A i, j \in 1..Len(f) : i < j => f[i] < f[j]
      BY <1>15, <3>1, WithoutKeeps
    <3>5. browser'.events = Without(browser.events, g) /\ browser.events \in Seq(Nat)
      BY <1>10, <1>12, <3>1
    <3>6. U = {x \in T : log[x].generation # g}  BY <1>13, <1>14, <3>5, TranscriptAfterGap
    <3>7. QED  BY <2>2, <3>3, <3>4, <3>6
  <2>3. QED  BY <2>1, <2>2
<1>17. U \subseteq T /\ (\A x \in T : x \in U \/ (m.gap /\ log[x].generation = g))
       /\ \A x \in U : ~(m.gap /\ log[x].generation = g)
  BY <1>16
<1>18. (\A x : Hidden(x) <=> Hidden(x)') /\ Seen' = Seen  BY <1>1 DEF Hidden, Behind, Seen
<1>19. /\ T \subseteq Seen /\ browser.cursor \in Nat /\ browser.cursor <= Len(log)
       /\ browser.generation \in Nat /\ browser.generation <= g /\ g <= worldGen
       /\ \A x \in T : log[x].generation <= browser.generation
       /\ \A i \in Seen, j \in T : browser.cursor < i /\ i < j /\ i \notin T => Hidden(i)
       /\ ~blind => NoHole(T, browser.generation, browser.cursor)
  BY <1>0, <1>6, <1>7, <1>13 DEF PageSound, Announced, WebTypes
<1>20. /\ \A i \in P : i \in Seen /\ browser.cursor < i /\ i <= c
       /\ (\A i \in T : i <= c) /\ browser.cursor <= c /\ c <= Len(log)
       /\ \A i \in P, j \in T : i < j => i \in T
  BY <1>6, <1>13 DEF OnTheWay
<1>21. /\ \A i \in Seen : i <= c => log[i].generation <= g
       /\ \A i \in Seen : browser.cursor < i /\ i <= c /\ i \notin P => Hidden(i)
       /\ \A i \in Seen, j \in P : j < i /\ i <= c => i \in P
       /\ ~m.gap /\ ~blind =>
            \/ T = {}
            \/ \A i \in Seen : browser.cursor < i /\ i <= c /\ log[i].generation = g => i \in P
  BY <1>6, <1>7, <1>13 DEF Announced, RestHidden
\* What is removed comes after all that stays.
<1>22. \A i \in T, j \in U : i < j => i \in U
  <2> SUFFICES ASSUME NEW i \in T, NEW j \in U, i < j, m.gap, log[i].generation = g PROVE FALSE
    BY <1>17
  <2>1. i \in Seen /\ j \in Seen /\ j <= c  BY <1>17, <1>19, <1>20
  <2>2. log[i].generation <= log[j].generation  BY <1>0, <1>3, <2>1 DEF GenerationsRise
  <2>3. log[j].generation <= g /\ log[j].generation \in Nat  BY <1>3, <1>21, <2>1
  <2>4. log[j].generation = g  BY <2>2, <2>3
  <2>5. QED  BY <1>17, <2>4
<1>23. OnTheWay(P, c)'
  <2>1. \A i \in P, j \in U : i < j => i \in U  BY <1>17, <1>20, <1>22
  <2>2. \A i \in U : i <= c  BY <1>17, <1>20
  <2>3. QED  BY <1>1, <1>12, <1>14, <1>18, <1>20, <2>1, <2>2 DEF OnTheWay
<1>24. ASSUME ~blind PROVE NoHole(P \cup U, g, c)
  <2> SUFFICES ASSUME NEW i \in Seen, NEW j \in P \cup U, j < i, i <= c,
                      log[i].generation = g, log[j].generation = g, i \notin P
               PROVE  i \in U
    BY DEF NoHole
  <2>1. j \in U /\ j \in T  BY <1>17, <1>21
  <2>2. ~m.gap /\ U = T  BY <1>16, <1>17, <2>1
  <2>3. i \in Nat /\ i <= browser.cursor  BY <1>3, <1>19, <1>21, <1>24, <2>1, <2>2
  <2>4. browser.generation = g  BY <1>19, <2>1
  <2>5. QED  BY <1>19, <1>24, <2>1, <2>2, <2>3, <2>4 DEF NoHole
<1>25. Following(P, c)'
  <2>1. \A i \in P : log'[i].generation <= browser'.generation  BY <1>1, <1>12, <1>20, <1>21
  <2>2. \A i \in Seen' : browser'.cursor < i /\ i <= c /\ i \notin P \cup U => Hidden(i)'
    BY <1>12, <1>18, <1>21
  <2>3. ~blind' => NoHole(P \cup Transcript, browser.generation, c)'
    BY <1>1, <1>12, <1>14, <1>18, <1>24 DEF NoHole
  <2>4. QED  BY <1>14, <2>1, <2>2, <2>3 DEF Following
<1>26. Announcement(P, c, q)'
  <2>1. P = IF stream[1].type = "event" THEN P \ {stream[1].cursor} ELSE P  OBVIOUS
  <2>2. QED  BY <1>0, <1>1, <1>4, <1>8, <1>23, <1>25, <2>1, AnnouncementAfterHead
<1>27. PageSound'
  <2>1. ~blind' => NoHole(Transcript, browser.generation, browser.cursor)'
    <3>1. ASSUME ~blind PROVE NoHole(U, g, browser.cursor)
      <4> SUFFICES ASSUME NEW i \in Seen, NEW j \in U, j < i, i <= browser.cursor,
                          log[i].generation = g, log[j].generation = g
                   PROVE  i \in U
        BY DEF NoHole
      <4>1. ~m.gap /\ U = T /\ j \in T  BY <1>16, <1>17
      <4>2. browser.generation = g  BY <1>19, <4>1
      <4>3. QED  BY <1>19, <3>1, <4>1, <4>2 DEF NoHole
    <3>2. QED  BY <1>1, <1>12, <1>14, <1>18, <3>1 DEF NoHole
  <2>2. \A i \in Seen, j \in U : browser.cursor < i /\ i < j /\ i \notin U => Hidden(i)
    BY <1>17, <1>19, <1>22
  <2>3. U \subseteq Seen /\ \A x \in U : log[x].generation <= g
    BY <1>17, <1>19, <1>20, <1>21
  <2>4. \A j, k \in DOMAIN browser'.events : j < k => browser'.events[j] < browser'.events[k]
    BY <1>12, <1>16
  <2>5. Transcript' \subseteq Seen' /\ browser'.cursor <= Len(log') /\ browser'.generation <= worldGen'
    BY <1>1, <1>12, <1>14, <1>18, <1>19, <2>3
  <2>6. \A x \in Transcript' : log'[x].generation <= browser'.generation
    BY <1>1, <1>12, <1>14, <2>3
  <2>7. \A i \in Seen', j \in Transcript' :
            browser'.cursor < i /\ i < j /\ i \notin Transcript' => Hidden(i)'
    BY <1>12, <1>14, <1>18, <2>2
  <2>8. QED  BY <2>1, <2>4, <2>5, <2>6, <2>7 DEF PageSound
<1>28. session' = "sending" /\ c \in 0..Len(log') /\ P \in SUBSET (1..Len(log'))  BY <1>1, <1>2
<1>29. SessionSound'  BY <1>9, <1>26, <1>28, StillSending
<1>30. QED  BY <1>27, <1>29

\* An announced event arrives: the page has it already, or appends it.
LEMMA HandleEventStep ==
  ASSUME TranscriptInv, WebTypes', HandleMessage, NEW c \in 0..Len(log), NEW P \in SUBSET (1..Len(log)),
         NEW r \in 0..Len(stream), r > 1,
         Announcement(P, c, r), Live(c, r), LiveFrom(c, Len(stream) - r), stream[1].type = "event"
  PROVE  PageSound' /\ SessionSound'
<1>0. WebTypes /\ PageSound /\ GenerationsRise  BY DEF TranscriptInv
<1>1. /\ stream # <<>> /\ stream' = Tail(stream)
      /\ UNCHANGED <<log, worldGen, evicted, snapshot, liveQueue, session, blind>>
  BY DEF HandleMessage
<1>2. session = "sending"  BY <1>1, StreamIsKnown
<1>3. /\ Len(log) \in Nat /\ DOMAIN log = 1..Len(log) /\ c \in Nat /\ Seen \subseteq Nat
      /\ \A i \in Seen : log[i].generation \in Nat /\ i \in DOMAIN log
  BY <1>0, SeenIsFinite, LogEntries DEF Seen
<1>4. /\ Len(stream) \in Nat /\ r \in Nat /\ r <= Len(stream) /\ Head(stream) = stream[1]
      /\ DOMAIN stream = 1..Len(stream) /\ 1 \in DOMAIN stream
  BY <1>0, <1>1 DEF WebTypes
<1>5. PICK m : m = stream[1]  OBVIOUS
<1>6. OnTheWay(P, c) /\ Following(P, c) /\ m.type = "event" /\ m.cursor \in P
  BY <1>4, <1>5 DEF Announcement
<1>7. PICK i \in Nat : i = m.cursor  BY <1>3, <1>6
<1>8. PICK q \in Nat : q = r - 1
  <2>1. r - 1 \in Nat  BY <1>4
  <2>2. QED  BY <2>1
<1>9. /\ Live(c, q)' /\ LiveFrom(c, Len(stream) - q)' /\ q \in 0..Len(stream')
  <2>1. c + r = c + q + 1 /\ q + 1 >= r /\ q + 1 <= Len(stream)  BY <1>3, <1>4, <1>8
  <2>2. QED  BY <1>0, <1>1, <1>3, <1>4, <2>1, LiveAfterHead
<1>10. PICK Q : Q = P \ {i}  OBVIOUS
\* It is the oldest of the announced ones.
<1>11. \A x \in Q : i < x
  <2> SUFFICES ASSUME NEW x \in Q PROVE i < x
    OBVIOUS
  <2>1. PICK k \in DOMAIN stream : k < r /\ stream[k].type = "event" /\ stream[k].cursor = x
    BY <1>4, <1>10 DEF Announcement
  <2>2. k # 1  BY <1>5, <1>7, <1>10, <2>1
  <2>3. 1 < k  BY <1>4, <2>2
  <2>4. stream[1].cursor < stream[k].cursor  BY <1>4, <2>1, <2>3 DEF Announcement
  <2>5. QED  BY <1>5, <1>7, <2>1, <2>4
<1>12. PICK T : T = Transcript  OBVIOUS
<1>13. PICK e \in Seq(Nat) : e = browser.events  BY <1>0 DEF WebTypes
<1>14. /\ DOMAIN e = 1..Len(e) /\ Len(e) \in Nat /\ (\A k \in DOMAIN e : e[k] \in T /\ e[k] \in Nat)
       /\ \A x : x \in T <=> \E k \in DOMAIN e : e[k] = x
  BY <1>12, <1>13 DEF Transcript
<1>15. /\ T \subseteq Seen /\ browser.cursor \in Nat /\ browser.cursor <= Len(log)
       /\ browser.generation \in Nat /\ browser.generation <= worldGen
       /\ \A x \in T : log[x].generation <= browser.generation
       /\ \A x \in Seen, j \in T : browser.cursor < x /\ x < j /\ x \notin T => Hidden(x)
       /\ ~blind => NoHole(T, browser.generation, browser.cursor)
       /\ \A j, k \in DOMAIN e : j < k => e[j] < e[k]
  BY <1>0, <1>12, <1>13 DEF PageSound, WebTypes
<1>16. /\ ~browser.ready /\ \A x \in P : x \in Seen /\ browser.cursor < x /\ x <= c
       /\ (\A x \in T : x <= c) /\ browser.cursor <= c /\ c <= Len(log)
       /\ \A x \in P, j \in T : x < j => x \in T
  BY <1>6, <1>12 DEF OnTheWay
<1>17. /\ \A x \in P : log[x].generation <= browser.generation
       /\ \A x \in Seen : browser.cursor < x /\ x <= c /\ x \notin P \cup T => Hidden(x)
       /\ ~blind => NoHole(P \cup T, browser.generation, c)
  BY <1>6, <1>12 DEF Following
<1>18. i \in P /\ i \in Seen /\ P = Q \cup {i} /\ i \notin Q  BY <1>6, <1>7, <1>10, <1>16
<1>19. (\A x : Hidden(x) <=> Hidden(x)') /\ Seen' = Seen  BY <1>1 DEF Hidden, Behind, Seen
<1>20. PICK U : U = T \cup {i}  OBVIOUS
<1>21. /\ browser'.cursor = browser.cursor /\ browser'.generation = browser.generation
       /\ ~browser'.ready /\ Transcript' = U
       /\ \A j, k \in DOMAIN browser'.events : j < k => browser'.events[j] < browser'.events[k]
  <2>1. browser' = AfterEvent(i)  BY <1>1, <1>4, <1>5, <1>6, <1>7 DEF HandleMessage
  <2>2. CASE i \in T
    <3>1. browser' = browser  BY <1>12, <2>1, <2>2 DEF AfterEvent, Transcript
    <3>2. U = T  BY <1>20, <2>2
    <3>3. Transcript' = T  BY <1>12, <3>1 DEF Transcript
    <3>4. QED  BY <1>13, <1>15, <1>16, <3>1, <3>2, <3>3
  <2>3. CASE i \notin T
    <3>1. log[i].generation \in Nat /\ ~(log[i].generation > browser.generation)
      BY <1>3, <1>15, <1>17, <1>18
    <3>2. browser' = [browser EXCEPT !.generation = browser.generation, !.cursor = browser.cursor,
                                     !.events = Append(e, i)]
      BY <1>12, <1>13, <1>16, <2>1, <2>3, <3>1 DEF AfterEvent, Transcript
    <3>3. /\ browser'.events = Append(e, i) /\ browser'.cursor = browser.cursor
          /\ browser'.generation = browser.generation /\ browser'.ready = browser.ready
      BY <1>0, <3>2 DEF WebTypes
    <3>4. PICK f : f = browser'.events  OBVIOUS
    <3>5. /\ DOMAIN f = 1..Len(e) + 1 /\ f[Len(e) + 1] = i /\ \A k \in 1..Len(e) : f[k] = e[k]
      BY <1>14, <3>3, <3>4
    <3>6. \A x \in T : x < i
      <4> SUFFICES ASSUME NEW x \in T PROVE x < i
        OBVIOUS
      <4>1. x \in Nat /\ x # i /\ ~(i < x)  BY <1>3, <1>15, <1>16, <1>18, <2>3
      <4>2. QED  BY <4>1
    <3>7. \A j, k \in DOMAIN f : j < k => f[j] < f[k]
      <4> SUFFICES ASSUME NEW j \in DOMAIN f, NEW k \in DOMAIN f, j < k PROVE f[j] < f[k]
        OBVIOUS
      <4>1. j \in 1..Len(e) /\ f[j] = e[j]  BY <1>14, <3>5
      <4>2. CASE k \in 1..Len(e)  BY <1>14, <1>15, <3>5, <4>1, <4>2
      <4>3. CASE k \notin 1..Len(e)
        <5>1. f[k] = i  BY <1>14, <3>5, <4>3
        <5>2. e[j] < i  BY <1>14, <3>6, <4>1
        <5>3. QED  BY <4>1, <5>1, <5>2
      <4>4. QED  BY <4>2, <4>3
    <3>8. Transcript' = U
      <4>1. \A x : x \in Transcript' <=> \E k \in DOMAIN f : f[k] = x  BY <3>4 DEF Transcript
      <4>2. \A k \in DOMAIN f : f[k] \in U
        <5> SUFFICES ASSUME NEW k \in DOMAIN f PROVE f[k] \in U
          OBVIOUS
        <5>1. CASE k \in 1..Len(e)  BY <1>14, <1>20, <3>5, <5>1
        <5>2. CASE k \notin 1..Len(e)  BY <1>14, <1>20, <3>5, <5>2
        <5>3. QED  BY <5>1, <5>2
      <4>3. \A x \in T : \E k \in DOMAIN f : f[k] = x
        <5> SUFFICES ASSUME NEW x \in T PROVE \E k \in DOMAIN f : f[k] = x
          OBVIOUS
        <5>1. PICK k \in 1..Len(e) : e[k] = x  BY <1>14
        <5>2. k \in DOMAIN f /\ f[k] = x  BY <1>14, <3>5, <5>1
        <5>3. QED  BY <5>2
      <4>4. \E k \in DOMAIN f : f[k] = i  BY <1>14, <3>5
      <4>5. \A x : x \in Transcript' <=> x \in U  BY <1>20, <4>1, <4>2, <4>3, <4>4
      <4>6. QED  BY <4>5
    <3>9. QED  BY <1>16, <3>3, <3>4, <3>7, <3>8
  <2>4. QED  BY <2>2, <2>3
<1>22. /\ Q \cup U = P \cup T /\ Q \subseteq P
       /\ U \subseteq Seen /\ \A x \in U : x <= c /\ log[x].generation <= browser.generation
  <2>1. Q \cup U = P \cup T /\ Q \subseteq P /\ U \subseteq Seen  BY <1>15, <1>18, <1>20
  <2>2. i <= c /\ log[i].generation <= browser.generation  BY <1>16, <1>17, <1>18
  <2>3. QED  BY <1>15, <1>16, <1>20, <2>1, <2>2
<1>23. \A x \in Q, j \in U : x < j => x \in U
  <2> SUFFICES ASSUME NEW x \in Q, NEW j \in U, x < j PROVE x \in U
    OBVIOUS
  <2>1. CASE j \in T  BY <1>16, <1>20, <1>22, <2>1
  <2>2. CASE j = i
    <3>1. x \in Nat /\ i < x  BY <1>3, <1>11, <1>16, <1>22
    <3>2. QED  BY <2>2, <3>1
  <2>3. QED  BY <1>20, <2>1, <2>2
<1>24. OnTheWay(Q, c)'
  BY <1>1, <1>16, <1>19, <1>21, <1>22, <1>23 DEF OnTheWay
<1>25. Following(Q, c)'
  <2>1. \A x \in Q : log'[x].generation <= browser'.generation  BY <1>1, <1>17, <1>21, <1>22
  <2>2. \A x \in Seen' : browser'.cursor < x /\ x <= c /\ x \notin Q \cup Transcript' => Hidden(x)'
    BY <1>17, <1>19, <1>21, <1>22
  <2>3. ~blind' => NoHole(Q \cup Transcript, browser.generation, c)'
    BY <1>1, <1>17, <1>19, <1>21, <1>22 DEF NoHole
  <2>4. QED  BY <2>1, <2>2, <2>3 DEF Following
<1>26. Announcement(Q, c, q)'
  <2>1. Q = IF stream[1].type = "event" THEN P \ {stream[1].cursor} ELSE P
    BY <1>5, <1>7, <1>10
  <2>2. QED  BY <1>0, <1>1, <1>4, <1>8, <1>24, <1>25, <2>1, AnnouncementAfterHead
<1>27. PageSound'
  <2>1. ~blind' => NoHole(Transcript, browser.generation, browser.cursor)'
    <3>1. ASSUME ~blind PROVE NoHole(U, browser.generation, browser.cursor)
      <4> SUFFICES ASSUME NEW x \in Seen, NEW j \in U, j < x, x <= browser.cursor,
                          log[x].generation = browser.generation,
                          log[j].generation = browser.generation
                   PROVE  x \in U
        BY DEF NoHole
      <4>1. j \in Nat /\ x \in Nat /\ browser.cursor < i  BY <1>3, <1>16, <1>18, <1>22
      <4>2. j # i  BY <1>15, <4>1
      <4>3. j \in T  BY <1>20, <4>2
      <4>4. QED  BY <1>15, <1>20, <3>1, <4>3 DEF NoHole
    <3>2. QED  BY <1>1, <1>19, <1>21, <3>1 DEF NoHole
  <2>2. \A x \in Seen, j \in U : browser.cursor < x /\ x < j /\ x \notin U => Hidden(x)
    <3> SUFFICES ASSUME NEW x \in Seen, NEW j \in U, browser.cursor < x, x < j, x \notin U
                 PROVE  Hidden(x)
      OBVIOUS
    <3>1. CASE j \in T  BY <1>15, <1>20, <3>1
    <3>2. CASE j = i
      <4>1. x \in Nat /\ x < i /\ x <= c  BY <1>3, <1>16, <1>18, <3>2
      <4>2. x \notin Q  BY <1>11, <4>1
      <4>3. x \notin P \cup T  BY <1>22, <4>2
      <4>4. QED  BY <1>17, <4>1, <4>3
    <3>3. QED  BY <1>20, <3>1, <3>2
  <2>3. Transcript' \subseteq Seen' /\ browser'.cursor <= Len(log') /\ browser'.generation <= worldGen'
    BY <1>1, <1>15, <1>19, <1>21, <1>22
  <2>4. \A x \in Transcript' : log'[x].generation <= browser'.generation
    BY <1>1, <1>21, <1>22
  <2>5. \A x \in Seen', j \in Transcript' :
            browser'.cursor < x /\ x < j /\ x \notin Transcript' => Hidden(x)'
    BY <1>19, <1>21, <2>2
  <2>6. QED  BY <1>21, <2>1, <2>3, <2>4, <2>5 DEF PageSound
<1>28. session' = "sending" /\ c \in 0..Len(log') /\ Q \in SUBSET (1..Len(log'))  BY <1>1, <1>2, <1>10
<1>29. SessionSound'  BY <1>9, <1>26, <1>28, StillSending
<1>30. QED  BY <1>27, <1>29

LEMMA HandleStep ==
  ASSUME TranscriptInv, WebTypes', HandleMessage
  PROVE  PageSound' /\ SessionSound'
<1>1. stream # <<>> /\ session = "sending" /\ SendingSound
  <2>1. stream # <<>>  BY DEF HandleMessage
  <2>2. QED  BY <2>1, StreamIsKnown DEF TranscriptInv, SessionSound
<1>2. PICK r \in 0..Len(stream), c \in 0..Len(log), P \in SUBSET (1..Len(log)) :
         Announcement(P, c, r) /\ Live(c, r) /\ LiveFrom(c, Len(stream) - r)
  BY <1>1 DEF SendingSound
<1>3. CASE r = 0  BY <1>2, <1>3, HandleLiveStep
<1>4. CASE r = 1  BY <1>2, <1>4, HandleReadyStep
<1>5. CASE r # 0 /\ r # 1
  <2>1. r > 1 /\ 1 < r /\ 1 \in DOMAIN stream
    <3>1. stream \in Seq(WebMessages) /\ Len(stream) \in Nat /\ Len(stream) > 0
      BY SMTT(30), <1>1 DEF TranscriptInv, WebTypes
    <3>2. QED  BY <1>5, <3>1
  <2>2. stream[1].type = "event" \/ stream[1].type = "hello"  BY <1>2, <1>5, <2>1 DEF Announcement
  <2>3. CASE stream[1].type = "event"  BY <1>2, <2>1, <2>3, HandleEventStep
  <2>4. CASE stream[1].type = "hello"  BY <1>2, <2>1, <2>4, HandleHelloStep
  <2>5. QED  BY <2>2, <2>3, <2>4
<1>6. QED  BY <1>3, <1>4, <1>5

LEMMA TranscriptInvInit == WebFeedInit => TranscriptInv
<1> SUFFICES ASSUME WebFeedInit PROVE TranscriptInv
  OBVIOUS
<1>1. /\ log = <<>> /\ worldGen = 1 /\ evicted = 0 /\ snapshot = NoSnapshot /\ liveQueue = <<>>
      /\ stream = <<>> /\ session = "closed"
      /\ browser = [cursor |-> 0, ready |-> FALSE, generation |-> 0, events |-> <<>>]
  BY DEF WebFeedInit
<1>2. WebTypes
  <2>1. log \in Seq([generation : Nat, visible : BOOLEAN]) /\ stream \in Seq(WebMessages)
        /\ liveQueue \in Seq(Nat)
    BY <1>1
  <2>2. snapshot \in [after : Nat, cursor : Nat, selected : SUBSET Nat, gaps : SUBSET Nat]
    BY <1>1 DEF NoSnapshot
  <2>3. browser \in [cursor : Nat, ready : BOOLEAN, generation : Nat, events : Seq(Nat)]
    BY <1>1
  <2>4. QED  BY <1>1, <2>1, <2>2, <2>3 DEF WebTypes
<1>3. GenerationsRise
  <2>1. DOMAIN log = {}  BY <1>1
  <2>2. QED  BY <2>1 DEF GenerationsRise
<1>4. PageSound
  <2>1. DOMAIN browser.events = {} /\ Transcript = {}  BY <1>1 DEF Transcript
  <2>2. browser.cursor <= Len(log) /\ browser.generation <= worldGen  BY <1>1
  <2>3. QED  BY <2>1, <2>2 DEF PageSound, NoHole
<1>5. SessionSound  BY <1>1 DEF SessionSound
<1>6. QED  BY <1>2, <1>3, <1>4, <1>5 DEF TranscriptInv

LEMMA TranscriptInvStep == TranscriptInv /\ [WebFeedNext]_webFeedVars => TranscriptInv'
<1> SUFFICES ASSUME TranscriptInv, [WebFeedNext]_webFeedVars PROVE TranscriptInv'
  OBVIOUS
<1>1. WebTypes'  BY WebTypesStep
<1>2. GenerationsRise' /\ LogGrows  BY GenerationsRiseStep DEF TranscriptInv
<1>3. PageSound' /\ SessionSound'
  <2>1. CASE UNCHANGED webFeedVars
    <3>1. UNCHANGED <<log, worldGen, evicted, snapshot, liveQueue, stream, session, browser, blind>>
      BY <2>1 DEF webFeedVars
    <3>2. HistoryMoves
      <4>1. worldGen \in Nat /\ worldGen <= worldGen'  BY <3>1 DEF TranscriptInv, WebTypes
      <4>2. QED  BY <1>1, <1>2, <3>1, <4>1 DEF HistoryMoves
    <3>3. \A c, n \in Nat : LiveFrom(c, n) => LiveFrom(c, n)'  BY <3>1 DEF LiveFrom
    <3>4. QED  BY <3>2, <3>3, HistoryStays
  <2>2. ASSUME NEW visible \in BOOLEAN, PublishEvent(visible) PROVE PageSound' /\ SessionSound'
    BY <1>1, <1>2, <2>2, PublishStep
  <2>3. CASE NewConnection \/ EvictOldest  BY <1>1, <1>2, <2>3, RestOfHistoryStep
  <2>4. CASE ConnectPage  BY <1>1, <2>4, ConnectStep
  <2>5. CASE SendInitialState  BY <1>1, <2>5, SendInitialStep
  <2>6. CASE SendEvent  BY <1>1, <1>2, <2>6, SendEventStep
  <2>7. CASE BreakPage  BY <1>1, <2>7, BreakStep
  <2>8. CASE HandleMessage  BY <1>1, <2>8, HandleStep
  <2>9. QED  BY <2>1, <2>2, <2>3, <2>4, <2>5, <2>6, <2>7, <2>8 DEF WebFeedNext
<1>4. QED  BY <1>1, <1>2, <1>3 DEF TranscriptInv

\* The transcript of a page that is ready has no hole in the current connection of the world,
\* whatever breaks, is dropped or is left out for its size: for any number of events and
\* connections and any limits (gateway_web.py _send_initial_state, app.mjs addEvent).
THEOREM TranscriptIsWhole == WebFeedSpec => []TranscriptHasNoHole
<1>1. TranscriptInv => TranscriptHasNoHole
  <2> SUFFICES ASSUME TranscriptInv PROVE TranscriptHasNoHole
    OBVIOUS
  <2>1. PageSound  BY DEF TranscriptInv
  <2>2. \A j, k \in DOMAIN browser.events : j < k => browser.events[j] < browser.events[k]
    BY <2>1 DEF PageSound
  <2>3. ~blind => NoHole(Transcript, browser.generation, browser.cursor)  BY <2>1 DEF PageSound
  <2>4. ASSUME ~blind, NEW i \in Of(DOMAIN log, browser.generation), log[i].visible,
               i <= browser.cursor, NEW j \in Of(Transcript, browser.generation), j < i
        PROVE  i \in Transcript
    BY <2>3, <2>4 DEF NoHole, Of, Seen
  <2>5. QED  BY <2>2, <2>4 DEF TranscriptHasNoHole
<1>2. QED  BY <1>1, TranscriptInvInit, TranscriptInvStep, PTL DEF WebFeedSpec

-----------------------------------------------------------------------------
(* The output pane: Display.                                               *)

\* A set of numbers has a least one.
LEMMA LeastOfNats ==
  ASSUME NEW K \in SUBSET Nat, K # {}
  PROVE  \E m \in K : \A x \in K : m <= x
<1>1. PICK m \in K : \A x \in K : ~(<<x, m>> \in OpToRel(<, Nat))  BY NatLessThanWellFounded, WFMin, Zenon
<1>2. \A x \in K : ~(x < m)  BY <1>1 DEF OpToRel
<1>3. \A x \in K : x \in Int /\ m \in Int  OBVIOUS
<1>4. QED  BY <1>2, <1>3
(* The rows of the entries: TotalRows counts the pairs of an entry and one of its rows. *)
TextEntry == [length : Nat \ {0}, rows : Nat \ {0}, offset : Nat]
RowPairs(ts, k) == UNION {{i} \X (1..ts[i].rows) : i \in 1..k}

LEMMA RowPair ==
  ASSUME NEW ts, NEW k, NEW i, NEW j
  PROVE  <<i, j>> \in RowPairs(ts, k) <=> i \in 1..k /\ j \in 1..ts[i].rows
BY DEF RowPairs

LEMMA RowPairOf ==
  ASSUME NEW ts, NEW k, NEW p \in RowPairs(ts, k)
  PROVE  \E i \in 1..k : \E j \in 1..ts[i].rows : p = <<i, j>>
BY DEF RowPairs

LEMMA TotalIsPairs ==
  ASSUME NEW S, NEW ts \in Seq(S)
  PROVE  TotalRows(ts) = Cardinality(RowPairs(ts, Len(ts)))
<1>1. DOMAIN ts = 1..Len(ts)  BY LenProperties
<1>2. QED  BY <1>1 DEF TotalRows, RowPairs

\* One more entry brings its rows.
LEMMA RowPairsNext ==
  ASSUME NEW ts, NEW k \in Nat, NEW r \in Nat, r = ts[k + 1].rows, IsFiniteSet(RowPairs(ts, k))
  PROVE  /\ IsFiniteSet(RowPairs(ts, k + 1))
         /\ Cardinality(RowPairs(ts, k + 1)) = Cardinality(RowPairs(ts, k)) + r
<1>1. PICK D : D = {k + 1} \X (1..r)  OBVIOUS
<1>2. IsFiniteSet(D) /\ Cardinality(D) = r
  <2>1. IsFiniteSet(1..r) /\ Cardinality(1..r) = r
    <3>1. r \in Int /\ 1 \in Int /\ (1 > r <=> r = 0)  OBVIOUS
    <3>2. IsFiniteSet(1..r) /\ Cardinality(1..r) = IF 1 > r THEN 0 ELSE r - 1 + 1  BY <3>1, FS_Interval
    <3>3. QED  BY <3>1, <3>2
  <2>2. IsFiniteSet({k + 1}) /\ Cardinality({k + 1}) = 1  BY FS_Singleton
  <2>3. IsFiniteSet(D) /\ Cardinality(D) = Cardinality({k + 1}) * Cardinality(1..r)
    BY <1>1, <2>1, <2>2, FS_Product
  <2>4. QED  BY <2>1, <2>2, <2>3
<1>3. RowPairs(ts, k + 1) = RowPairs(ts, k) \cup D
  <2>1. 1..(k + 1) = 1..k \cup {k + 1}  OBVIOUS
  <2>2. QED  BY <1>1, <2>1 DEF RowPairs
<1>4. RowPairs(ts, k) \cap D = {}
  <2>1. SUFFICES ASSUME NEW p \in RowPairs(ts, k), p \in D PROVE FALSE  OBVIOUS
  <2>2. PICK i \in 1..k : \E j \in 1..ts[i].rows : p = <<i, j>>  BY <2>1, RowPairOf
  <2>3. i = k + 1  BY <1>1, <2>1, <2>2
  <2>4. QED  BY <2>2, <2>3
<1>5. Cardinality({}) = 0  BY FS_EmptySet
<1>6. PICK a \in Nat : a = Cardinality(RowPairs(ts, k))  BY FS_CardinalityType
<1>7. /\ IsFiniteSet(RowPairs(ts, k) \cup D)
      /\ Cardinality(RowPairs(ts, k) \cup D) =
           Cardinality(RowPairs(ts, k)) + Cardinality(D) - Cardinality(RowPairs(ts, k) \cap D)
  BY <1>2, FS_Union
<1>8. Cardinality(RowPairs(ts, k) \cup D) = a + r - 0  BY <1>2, <1>4, <1>5, <1>6, <1>7
<1>9. a + r - 0 = a + r  OBVIOUS
<1>10. QED  BY <1>3, <1>6, <1>7, <1>8, <1>9

LEMMA RowPairsFinite ==
  ASSUME NEW ts, NEW n \in Nat, \A i \in 1..n : ts[i].rows \in Nat
  PROVE  \A k \in 0..n : IsFiniteSet(RowPairs(ts, k))
<1>1. PICK bad \in SUBSET Nat : bad = {k \in 0..n : ~IsFiniteSet(RowPairs(ts, k))}
  <2>1. 0..n \subseteq Nat  OBVIOUS
  <2>2. {k \in 0..n : ~IsFiniteSet(RowPairs(ts, k))} \in SUBSET Nat  BY <2>1
  <2>3. QED  BY <2>2
<1>2. ASSUME bad # {} PROVE FALSE
  <2>1. PICK k \in bad : \A x \in bad : k <= x  BY <1>2, LeastOfNats
  <2>2. k \in 0..n /\ ~IsFiniteSet(RowPairs(ts, k))  BY <1>1
  <2>3. k # 0
    <3>1. 1..0 = {}  OBVIOUS
    <3>2. RowPairs(ts, 0) = {}  BY <3>1 DEF RowPairs
    <3>3. QED  BY <2>2, <3>2, FS_EmptySet
  <2>4. PICK l \in Nat : l + 1 = k
    <3>1. k - 1 \in Nat /\ (k - 1) + 1 = k  BY <2>2, <2>3
    <3>2. QED  BY <3>1
  <2>5. l \notin bad  BY <2>1, <2>4
  <2>6. l \in 0..n /\ l + 1 \in 1..n  BY <2>2, <2>4
  <2>7. IsFiniteSet(RowPairs(ts, l))  BY <1>1, <2>5, <2>6
  <2>8. PICK r \in Nat : r = ts[l + 1].rows  BY <2>6
  <2>9. IsFiniteSet(RowPairs(ts, l + 1))  BY <2>7, <2>8, RowPairsNext
  <2>10. QED  BY <2>2, <2>4, <2>9
<1>3. QED  BY <1>1, <1>2

\* TotalRows of the first entries, and of all of them.
UpTo(ts, k) == Cardinality(RowPairs(ts, k))

LEMMA UpToProperties ==
  ASSUME NEW ts \in Seq(TextEntry), NEW n, n = Len(ts)
  PROVE  /\ n \in Nat /\ \A i \in 1..n : ts[i] \in TextEntry
         /\ TotalRows(ts) = UpTo(ts, n) /\ UpTo(ts, 0) = 0
         /\ \A k \in 0..n : IsFiniteSet(RowPairs(ts, k)) /\ UpTo(ts, k) \in Nat
         /\ \A k \in 0..n : k < n => UpTo(ts, k + 1) = UpTo(ts, k) + ts[k + 1].rows
         /\ \A k \in 0..n : TotalRows(SubSeq(ts, 1, k)) = UpTo(ts, k)
<1>1. n \in Nat /\ \A i \in 1..n : ts[i] \in TextEntry  BY LenProperties, ElementOfSeq
<1>2. \A i \in 1..n : ts[i].rows \in Nat /\ ts[i].rows # 0  BY <1>1 DEF TextEntry
<1>3. \A k \in 0..n : IsFiniteSet(RowPairs(ts, k))  BY <1>1, <1>2, RowPairsFinite
<1>4. \A k \in 0..n : UpTo(ts, k) \in Nat  BY <1>3, FS_CardinalityType DEF UpTo
<1>5. TotalRows(ts) = UpTo(ts, n)  BY TotalIsPairs DEF UpTo
<1>6. UpTo(ts, 0) = 0
  <2>1. 1..0 = {}  OBVIOUS
  <2>2. RowPairs(ts, 0) = {}  BY <2>1 DEF RowPairs
  <2>3. QED  BY <2>2, FS_EmptySet DEF UpTo
<1>7. ASSUME NEW k \in 0..n, k < n PROVE UpTo(ts, k + 1) = UpTo(ts, k) + ts[k + 1].rows
  <2>1. k \in Nat /\ k + 1 \in 1..n  BY <1>1, <1>7
  <2>2. PICK r \in Nat : r = ts[k + 1].rows  BY <1>2, <2>1
  <2>3. IsFiniteSet(RowPairs(ts, k))  BY <1>3
  <2>4. QED  BY <2>1, <2>2, <2>3, RowPairsNext DEF UpTo
<1>8. ASSUME NEW k \in 0..n PROVE TotalRows(SubSeq(ts, 1, k)) = UpTo(ts, k)
  <2>1. PICK q : q = SubSeq(ts, 1, k)  OBVIOUS
  <2>2. q \in Seq(TextEntry) /\ Len(q) = k /\ \A i \in 1..k : q[i] = ts[i]
    <3>1. \A i \in 1..k : ts[i] \in TextEntry  BY <1>1
    <3>2. k \in Int /\ 1 \in Int /\ (1 <= k \/ k = 0) /\ k - 1 + 1 = k  BY <1>1
    <3>3. /\ q \in Seq(TextEntry) /\ Len(q) = IF 1 <= k THEN k - 1 + 1 ELSE 0
          /\ \A i \in 1..k - 1 + 1 : q[i] = ts[1 + i - 1]
      BY <2>1, <3>1, <3>2, SubSeqProperties
    <3>4. \A i \in 1..k : q[i] = ts[i]
      <4>1. SUFFICES ASSUME NEW i \in 1..k PROVE q[i] = ts[i]  OBVIOUS
      <4>2. i \in 1..k - 1 + 1 /\ 1 + i - 1 = i  BY <3>2
      <4>3. QED  BY <3>3, <4>2
    <3>5. QED  BY <3>2, <3>3, <3>4
  <2>3. RowPairs(q, k) = RowPairs(ts, k)  BY <2>2 DEF RowPairs
  <2>4. QED  BY <2>1, <2>2, <2>3, TotalIsPairs DEF UpTo
<1>9. QED  BY <1>1, <1>3, <1>4, <1>5, <1>6, <1>7, <1>8

LEMMA RowsOfAppend ==
  ASSUME NEW ts \in Seq(TextEntry), NEW t \in TextEntry, NEW us, us = Append(ts, t)
  PROVE  us \in Seq(TextEntry) /\ Len(us) = Len(ts) + 1 /\ TotalRows(us) = TotalRows(ts) + t.rows
<1>1. PICK n \in Nat : n = Len(ts)  BY LenProperties
<1>2. /\ us \in Seq(TextEntry) /\ Len(us) = n + 1 /\ us[n + 1] = t
      /\ \A i \in 1..n : us[i] = ts[i]
  BY <1>1, AppendProperties
<1>3. /\ TotalRows(us) = UpTo(us, n + 1) /\ UpTo(us, n + 1) = UpTo(us, n) + us[n + 1].rows
  <2>1. n \in 0..n + 1 /\ n < n + 1  OBVIOUS
  <2>2. QED  BY <1>2, <2>1, UpToProperties
<1>4. RowPairs(us, n) = RowPairs(ts, n)  BY <1>2 DEF RowPairs
<1>5. TotalRows(ts) = UpTo(ts, n)  BY <1>1, UpToProperties
<1>6. QED  BY <1>1, <1>2, <1>3, <1>4, <1>5 DEF UpTo

\* Entries that go from the front, and r rows of the next one, take their rows with them.
IsCut(ts, k, r, w) ==
  /\ ts \in Seq(TextEntry) /\ w \in Seq(TextEntry) /\ r \in Nat /\ k \in 0..Len(ts)
  /\ k = Len(ts) => r = 0
  /\ Len(w) = Len(ts) - k
  /\ \A i \in 1..Len(w) : w[i].rows = IF i = 1 THEN ts[i + k].rows - r ELSE ts[i + k].rows

LEMMA CutRows ==
  ASSUME NEW ts, NEW k, NEW r, NEW w, IsCut(ts, k, r, w)
  PROVE  TotalRows(w) = TotalRows(ts) - (UpTo(ts, k) + r)
<1>1. ts \in Seq(TextEntry) /\ w \in Seq(TextEntry) /\ r \in Nat  BY DEF IsCut
<1>2. PICK n \in Nat : n = Len(ts)  BY <1>1, LenProperties
<1>3. PICK m \in Nat : m = Len(w)  BY <1>1, LenProperties
<1>4. /\ k \in 0..n /\ k \in Nat /\ m = n - k /\ (k = n => r = 0)
       /\ \A i \in 1..m : w[i].rows = IF i = 1 THEN ts[i + k].rows - r ELSE ts[i + k].rows
  BY <1>3, <1>2 DEF IsCut
<1>5. /\ n \in Nat /\ \A i \in 1..n : ts[i] \in TextEntry
      /\ TotalRows(ts) = UpTo(ts, n)
      /\ \A i \in 0..n : UpTo(ts, i) \in Nat
      /\ \A i \in 0..n : i < n => UpTo(ts, i + 1) = UpTo(ts, i) + ts[i + 1].rows
  BY <1>1, <1>2, UpToProperties
<1>6. /\ TotalRows(w) = UpTo(w, m) /\ UpTo(w, 0) = 0
      /\ \A i \in 0..m : UpTo(w, i) \in Nat
      /\ \A i \in 0..m : i < m => UpTo(w, i + 1) = UpTo(w, i) + w[i + 1].rows
  BY <1>1, <1>3, UpToProperties
<1>7. PICK bad \in SUBSET Nat : bad = {i \in 1..m : UpTo(w, i) # UpTo(ts, k + i) - (UpTo(ts, k) + r)}
  <2>1. {i \in 1..m : UpTo(w, i) # UpTo(ts, k + i) - (UpTo(ts, k) + r)} \in SUBSET Nat  OBVIOUS
  <2>2. QED  BY <2>1
<1>8. ASSUME bad # {} PROVE FALSE
  <2>1. PICK i \in bad : \A x \in bad : i <= x  BY <1>8, LeastOfNats
  <2>2. i \in 1..m /\ UpTo(w, i) # UpTo(ts, k + i) - (UpTo(ts, k) + r)  BY <1>7
  <2>3. PICK j \in Nat : i = j + 1
    <3>1. i - 1 \in Nat /\ i = (i - 1) + 1  BY <2>2
    <3>2. QED  BY <3>1
  <2>4. PICK t \in Nat : t = ts[k + i].rows
    <3>1. k + i \in 1..n  BY <1>1, <1>5, <1>3, <1>4, <2>2
    <3>2. ts[k + i] \in TextEntry  BY <1>1, <1>5, <1>4, <3>1
    <3>3. QED  BY <3>2 DEF TextEntry
  <2>5. PICK a \in Nat : a = UpTo(ts, k + j)
    <3>1. k + j \in 0..n  BY <1>1, <1>5, <1>3, <1>4, <2>2, <2>3
    <3>2. QED  BY <1>1, <1>5, <1>4, <3>1
  <2>6. UpTo(ts, k + i) = a + t
    <3>1. k + j \in 0..n /\ k + j < n /\ (k + j) + 1 = k + i  BY <1>1, <1>5, <1>3, <1>4, <2>2, <2>3
    <3>2. QED  BY <1>1, <1>5, <1>4, <2>4, <2>5, <3>1
  <2>7. PICK b \in Nat : b = UpTo(ts, k)  BY <1>1, <1>5, <1>4
  <2>8. j \in 0..m /\ j < m  BY <2>2, <2>3
  <2>9. UpTo(w, i) = UpTo(w, j) + w[i].rows  BY <1>6, <2>3, <2>8
  <2>10. i \in 1..m /\ i + k = k + i  BY <1>4, <2>2
  <2>11. w[i].rows = IF i = 1 THEN t - r ELSE t  BY <1>4, <2>4, <2>10
  <2>12. CASE j = 0
    <3>1. UpTo(w, i) = 0 + (t - r)  BY <1>6, <2>3, <2>9, <2>11, <2>12
    <3>2. a = b  BY <1>4, <2>5, <2>7, <2>12
    <3>3. QED  BY <1>1, <2>2, <2>6, <2>7, <3>1, <3>2
  <2>13. CASE j # 0
    <3>1. j \in 1..m /\ j \notin bad  BY <2>1, <2>3, <2>8, <2>13
    <3>2. UpTo(w, j) = a - (b + r)  BY <1>7, <2>5, <2>7, <3>1
    <3>3. UpTo(w, i) = (a - (b + r)) + t  BY <2>3, <2>9, <2>11, <2>13, <3>2
    <3>4. QED  BY <1>1, <2>2, <2>6, <2>7, <3>3
  <2>14. QED  BY <2>12, <2>13
<1>9. CASE m = 0
  <2>1. k = n /\ r = 0  BY <1>1, <1>5, <1>3, <1>4, <1>9
  <2>2. PICK a \in Nat : a = UpTo(ts, n)  BY <1>1, <1>5, <1>4
  <2>3. TotalRows(w) = 0 /\ TotalRows(ts) = a /\ UpTo(ts, k) = a  BY <1>1, <1>4, <1>5, <1>6, <1>9,
                                                               <2>1, <2>2
  <2>4. QED  BY <2>1, <2>3
<1>10. CASE m # 0
  <2>1. m \in 1..m /\ m \notin bad /\ k + m = n  BY <1>1, <1>5, <1>3, <1>4, <1>8, <1>10
  <2>2. UpTo(w, m) = UpTo(ts, k + m) - (UpTo(ts, k) + r)  BY <1>7, <2>1
  <2>3. QED  BY <1>1, <1>5, <1>4, <1>6, <2>1, <2>2
<1>11. QED  BY <1>9, <1>10

LEMMA WholeDroppedIs ==
  ASSUME NEW ts \in Seq(TextEntry), NEW n, n = Len(ts), NEW k, k = WholeDropped(ts),
         NEW x \in Nat, x = Excess(ts)
  PROVE  k \in 0..n /\ UpTo(ts, k) <= x /\ (k = n \/ UpTo(ts, k + 1) > x)
<1>1. /\ n \in Nat /\ UpTo(ts, 0) = 0
      /\ \A i \in 0..n : UpTo(ts, i) \in Nat /\ TotalRows(SubSeq(ts, 1, i)) = UpTo(ts, i)
  BY UpToProperties
<1>2. PICK Full \in SUBSET Nat : Full = {i \in 0..n : i = n \/ UpTo(ts, i + 1) > x}
  <2>1. {i \in 0..n : i = n \/ UpTo(ts, i + 1) > x} \in SUBSET Nat  BY <1>1
  <2>2. QED  BY <2>1
<1>3. n \in Full  BY <1>1, <1>2
<1>4. PICK m \in Full : \A i \in Full : m <= i  BY <1>3, LeastOfNats
<1>5. m \in 0..n /\ (m = n \/ UpTo(ts, m + 1) > x)  BY <1>2
<1>6. UpTo(ts, m) <= x
  <2>1. CASE m = 0  BY <1>1, <2>1
  <2>2. CASE m # 0
    <3>1. PICK l \in Nat : m = l + 1
      <4>1. m - 1 \in Nat /\ m = (m - 1) + 1  BY <1>5, <2>2
      <4>2. QED  BY <4>1
    <3>2. l \notin Full /\ l \in 0..n /\ l # n  BY <1>1, <1>4, <1>5, <3>1
    <3>3. ~(UpTo(ts, m) > x)  BY <1>2, <3>1, <3>2
    <3>4. UpTo(ts, m) \in Nat  BY <1>1, <1>5
    <3>5. QED  BY <3>3, <3>4
  <2>3. QED  BY <2>1, <2>2
<1>7. \A i \in 0..n : (TotalRows(SubSeq(ts, 1, i)) <= x /\ (i = n \/ TotalRows(SubSeq(ts, 1, i + 1)) > x))
                        <=> (UpTo(ts, i) <= x /\ (i = n \/ UpTo(ts, i + 1) > x))
  <2>1. SUFFICES ASSUME NEW i \in 0..n
                 PROVE  i = n \/ TotalRows(SubSeq(ts, 1, i + 1)) = UpTo(ts, i + 1)
    BY <1>1
  <2>2. i = n \/ i + 1 \in 0..n  BY <1>1
  <2>3. QED  BY <1>1, <2>2
<1>8. k = CHOOSE i \in 0..n : /\ TotalRows(SubSeq(ts, 1, i)) <= x
                              /\ i = n \/ TotalRows(SubSeq(ts, 1, i + 1)) > x
  BY DEF WholeDropped
<1>9. /\ TotalRows(SubSeq(ts, 1, m)) <= x
      /\ m = n \/ TotalRows(SubSeq(ts, 1, m + 1)) > x
  BY <1>5, <1>6, <1>7
<1>10. /\ k \in 0..n /\ TotalRows(SubSeq(ts, 1, k)) <= x
       /\ k = n \/ TotalRows(SubSeq(ts, 1, k + 1)) > x
  BY <1>5, <1>8, <1>9
<1>11. QED  BY <1>7, <1>10

\* The entries kept are of the same lines, cut at their start.
SameLines(ts, k, w) ==
  \A i \in 1..Len(w) : /\ w[i].length = ts[i + k].length
                       /\ w[i].offset + w[i].rows = ts[i + k].offset + ts[i + k].rows

\* What _trim_rows leaves: the last MaxRows rows, of the same lines.
LEMMA TrimKeeps ==
  ASSUME NEW ts \in Seq(TextEntry), NEW n, n = Len(ts), NEW k, k = WholeDropped(ts), NEW w, w = Trimmed(ts),
         NEW x, x = Excess(ts)
  PROVE  /\ n \in Nat /\ k \in 0..n /\ w \in Seq(TextEntry) /\ Len(w) = n - k
         /\ x \in Nat /\ TotalRows(ts) \in Nat
         /\ TotalRows(w) = TotalRows(ts) - x /\ TotalRows(ts) - x <= MaxRows
         /\ x > 0 => TotalRows(ts) - x = MaxRows
         /\ SameLines(ts, k, w)
<1>1. /\ n \in Nat /\ \A i \in 1..n : ts[i] \in TextEntry
      /\ TotalRows(ts) = UpTo(ts, n)
      /\ \A i \in 0..n : UpTo(ts, i) \in Nat /\ TotalRows(SubSeq(ts, 1, i)) = UpTo(ts, i)
      /\ \A i \in 0..n : i < n => UpTo(ts, i + 1) = UpTo(ts, i) + ts[i + 1].rows
  BY UpToProperties
<1>2. PICK a \in Nat : a = TotalRows(ts)  BY <1>1
<1>3. MaxRows \in Nat /\ MaxRows # 0  BY DisplayAssumption
<1>4. /\ x \in Nat /\ a - x <= MaxRows /\ x <= a /\ (x > 0 => a - x = MaxRows)
      /\ (a = 0 <=> a - x = 0)
  BY <1>2, <1>3 DEF Excess, AtLeast0
<1>5. k \in 0..n /\ UpTo(ts, k) <= x /\ (k = n \/ UpTo(ts, k + 1) > x)
  BY <1>4, WholeDroppedIs
<1>6. PICK b \in Nat : b = UpTo(ts, k)  BY <1>1, <1>5
<1>7. PICK r \in Nat : r = x - b
  <2>1. x - b \in Nat  BY <1>4, <1>5, <1>6
  <2>2. QED  BY <2>1
<1>8. k = n => r = 0
  <2>1. SUFFICES ASSUME k = n PROVE r = 0  OBVIOUS
  <2>2. b = a  BY <1>1, <1>2, <1>6, <2>1
  <2>3. QED  BY <1>4, <1>5, <1>6, <1>7, <2>2
<1>9. k # n => k + 1 \in 1..n /\ r < ts[k + 1].rows
  <2>1. SUFFICES ASSUME k # n PROVE k + 1 \in 1..n /\ r < ts[k + 1].rows  OBVIOUS
  <2>2. k < n /\ k + 1 \in 1..n  BY <1>1, <1>5, <2>1
  <2>3. PICK t \in Nat : t = ts[k + 1].rows  BY <1>1, <2>2 DEF TextEntry
  <2>4. b + t > x  BY <1>1, <1>5, <1>6, <2>1, <2>2, <2>3
  <2>5. QED  BY <1>4, <1>7, <2>2, <2>3, <2>4
<1>10. PICK kept : kept = SubSeq(ts, k + 1, n)  OBVIOUS
<1>11. kept \in Seq(TextEntry) /\ Len(kept) = n - k /\ \A i \in 1..(n - k) : kept[i] = ts[i + k]
  <2>1. k \in Int /\ k + 1 \in Int /\ n \in Int /\ (k + 1 <= n \/ n = k) /\ n - (k + 1) + 1 = n - k
    BY <1>1, <1>5
  <2>2. \A i \in (k + 1)..n : ts[i] \in TextEntry  BY <1>1, <1>5
  <2>3. /\ kept \in Seq(TextEntry)
        /\ Len(kept) = IF k + 1 <= n THEN n - (k + 1) + 1 ELSE 0
        /\ \A i \in 1..n - (k + 1) + 1 : kept[i] = ts[(k + 1) + i - 1]
    BY <1>10, <2>1, <2>2, SubSeqProperties
  <2>4. ASSUME NEW i \in 1..(n - k) PROVE kept[i] = ts[i + k]
    <3>1. i \in 1..n - (k + 1) + 1 /\ (k + 1) + i - 1 = i + k  BY <2>1
    <3>2. QED  BY <2>3, <3>1
  <2>5. n - k = IF k + 1 <= n THEN n - (k + 1) + 1 ELSE 0  BY <2>1
  <2>6. QED  BY <2>3, <2>4, <2>5
<1>12. w = IF r = 0 THEN kept ELSE [kept EXCEPT ![1].rows = @ - r, ![1].offset = @ + r]
  BY <1>1, <1>4, <1>5, <1>6, <1>7, <1>10 DEF Trimmed
<1>13. /\ w \in Seq(TextEntry) /\ Len(w) = n - k
       /\ \A i \in 1..(n - k) :
            /\ w[i].length = ts[i + k].length
            /\ w[i].offset + w[i].rows = ts[i + k].offset + ts[i + k].rows
            /\ w[i].rows = IF i = 1 THEN ts[i + k].rows - r ELSE ts[i + k].rows
  <2>1. CASE r = 0
    <3>1. \A i \in 1..(n - k) : ts[i + k] \in TextEntry  BY <1>1, <1>5
    <3>2. \A i \in 1..(n - k) : ts[i + k].rows - 0 = ts[i + k].rows  BY <3>1 DEF TextEntry
    <3>3. QED  BY <1>11, <1>12, <2>1, <3>2
  <2>2. CASE r # 0
    <3>1. k # n /\ k + 1 \in 1..n /\ r < ts[k + 1].rows  BY <1>8, <1>9, <2>2
    <3>2. PICK c \in TextEntry : c = ts[k + 1]  BY <1>1, <3>1
    <3>3. PICK d \in TextEntry : d = [length |-> c.length, rows |-> c.rows - r, offset |-> c.offset + r]
      <4>1. c.length \in Nat \ {0} /\ c.rows \in Nat \ {0} /\ c.offset \in Nat  BY DEF TextEntry
      <4>2. c.rows - r \in Nat \ {0} /\ c.offset + r \in Nat  BY <3>1, <3>2, <4>1
      <4>3. QED  BY <4>1, <4>2 DEF TextEntry
    <3>4. 1 \in 1..(n - k) /\ 1 + k = k + 1  BY <1>1, <1>5, <3>1
    <3>5. DOMAIN kept = 1..(n - k) /\ kept[1] = c  BY <1>11, <3>2, <3>4, LenProperties
    <3>6. [[c EXCEPT !.rows = @ - r] EXCEPT !.offset = @ + r] = d
      <4>1. c = [length |-> c.length, rows |-> c.rows, offset |-> c.offset]  BY DEF TextEntry
      <4>2. PICK l, s, o : l = c.length /\ s = c.rows /\ o = c.offset  OBVIOUS
      <4>3. PICK e : e = [length |-> l, rows |-> s, offset |-> o]  OBVIOUS
      <4>4. [e EXCEPT !.rows = @ - r] = [length |-> l, rows |-> s - r, offset |-> o]  BY <4>3
      <4>5. PICK t : t = s - r  OBVIOUS
      <4>6. PICK f : f = [length |-> l, rows |-> t, offset |-> o]  OBVIOUS
      <4>7. [f EXCEPT !.offset = @ + r] = [length |-> l, rows |-> t, offset |-> o + r]
        BY <4>6
      <4>8. QED  BY <3>3, <4>1, <4>2, <4>3, <4>4, <4>6, <4>7, <4>5
    <3>7. w = [kept EXCEPT ![1] = d]
      <4>1. w = [[kept EXCEPT ![1].rows = @ - r] EXCEPT ![1].offset = @ + r]  BY <1>12, <2>2
      <4>2. PICK c1 : c1 = [c EXCEPT !.rows = @ - r]  OBVIOUS
      <4>3. PICK w1 : w1 = [kept EXCEPT ![1] = c1]  OBVIOUS
      <4>4. [kept EXCEPT ![1].rows = @ - r] = w1  BY <3>5, <4>2, <4>3
      <4>5. w = [w1 EXCEPT ![1].offset = @ + r]  BY <4>1, <4>4
      <4>6. w1[1] = c1 /\ DOMAIN w1 = DOMAIN kept  BY <3>4, <3>5, <4>3
      <4>7. [c1 EXCEPT !.offset = @ + r] = d  BY <3>6, <4>2
      <4>8. w = [w1 EXCEPT ![1] = d]  BY <4>5, <4>6, <4>7
      <4>9. QED  BY <4>3, <4>6, <4>8
    <3>8. w \in Seq(TextEntry) /\ Len(w) = n - k
      <4>1. kept \in [1..(n - k) -> TextEntry]  BY <1>11, LenProperties
      <4>2. w \in [1..(n - k) -> TextEntry]  BY <3>7, <4>1
      <4>3. n - k \in Nat  BY <1>1, <1>5
      <4>4. QED  BY <4>2, <4>3
    <3>9. /\ d.length = c.length /\ d.rows = c.rows - r /\ d.offset + d.rows = c.offset + c.rows
      <4>1. c.rows \in Nat /\ c.offset \in Nat  BY DEF TextEntry
      <4>2. d.length = c.length /\ d.rows = c.rows - r /\ d.offset = c.offset + r  BY <3>3
      <4>3. QED  BY <4>1, <4>2
    <3>10. ASSUME NEW i \in 1..(n - k)
           PROVE  /\ w[i].length = ts[i + k].length
                  /\ w[i].offset + w[i].rows = ts[i + k].offset + ts[i + k].rows
                  /\ w[i].rows = IF i = 1 THEN ts[i + k].rows - r ELSE ts[i + k].rows
      <4>1. CASE i = 1
        <5>1. w[i] = d /\ ts[i + k] = c  BY <3>2, <3>4, <3>5, <3>7, <4>1
        <5>2. QED  BY <3>9, <4>1, <5>1
      <4>2. CASE i # 1
        <5>1. w[i] = ts[i + k]  BY <1>11, <3>5, <3>7, <4>2
        <5>2. QED  BY <4>2, <5>1
      <4>3. QED  BY <4>1, <4>2
    <3>11. QED  BY <3>8, <3>10
  <2>3. QED  BY <2>1, <2>2
<1>14. TotalRows(w) = a - x
  <2>1. PICK m \in Nat : m = n - k
    <3>1. n - k \in Nat  BY <1>1, <1>5
    <3>2. QED  BY <3>1
  <2>2. \A i \in 1..m : w[i].rows = IF i = 1 THEN ts[i + k].rows - r ELSE ts[i + k].rows
    BY <1>13, <2>1
  <2>3. w \in Seq(TextEntry) /\ Len(w) = m /\ k \in Nat /\ k <= n  BY <1>1, <1>5, <1>13, <2>1
  <2>4. IsCut(ts, k, r, w)  BY <1>1, <1>5, <1>8, <2>1, <2>2, <2>3 DEF IsCut
  <2>5. TotalRows(w) = TotalRows(ts) - (UpTo(ts, k) + r)
    BY <2>4, CutRows
  <2>6. b + r = x  BY <1>4, <1>7
  <2>7. QED  BY <1>2, <1>6, <2>5, <2>6
<1>15. SameLines(ts, k, w)  BY <1>13 DEF SameLines
<1>16. QED  BY <1>1, <1>2, <1>4, <1>5, <1>13, <1>14, <1>15

-----------------------------------------------------------------------------
(* The pager: what each operation keeps.                                   *)
Pager == [height : Nat \ {0}, total : Nat, end : Nat, top : Nat,
          mode : {"follow", "paused", "scrolled"}, budget : Nat, enabled : BOOLEAN]

\* The pager stands where its mode says.
Stands(p) ==
  /\ p.top <= TopMost(p)
  /\ p.mode = "follow" => p.end = p.total /\ p.top = TopMost(p) /\ p.budget <= p.height
  /\ p.mode = "paused" => p.end < p.total

\* The rows before f have been on the screen or were passed over: the pane starts within
\* them, and ends within them unless the user scrolled it.
SeenTo(p, f) ==
  /\ p.top <= f
  /\ p.mode = "follow" => p.total <= f
  /\ p.mode = "paused" => p.end <= f
  /\ p.mode = "scrolled" => VisibleEnd(p) <= f

\* The pager starts within the rows before f, and at a pause all rows up to its end are shown.
Adjoins(p, f) ==
  /\ p.top <= f
  /\ p.mode = "paused" => p.end <= f \/ p.end <= p.top + p.height

LEMMA PagerTypes ==
  ASSUME NEW p \in Pager
  PROVE  /\ p.height \in Nat /\ p.height # 0 /\ p.total \in Nat /\ p.end \in Nat /\ p.top \in Nat
         /\ p.budget \in Nat /\ p.mode \in {"follow", "paused", "scrolled"} /\ p.enabled \in BOOLEAN
         /\ PageSize(p) \in Nat /\ 1 <= PageSize(p) /\ PageSize(p) <= p.height
         /\ TopMost(p) \in Nat /\ TopMost(p) <= p.total /\ p.total <= TopMost(p) + p.height
<1>1. /\ p.height \in Nat /\ p.height # 0 /\ p.total \in Nat /\ p.end \in Nat /\ p.top \in Nat
      /\ p.budget \in Nat /\ p.mode \in {"follow", "paused", "scrolled"} /\ p.enabled \in BOOLEAN
  BY DEF Pager
<1>2. Overlap \in Nat  BY DisplayAssumption
<1>3. PageSize(p) \in Nat /\ 1 <= PageSize(p) /\ PageSize(p) <= p.height  BY <1>1, <1>2 DEF PageSize
<1>4. TopMost(p) \in Nat /\ TopMost(p) <= p.total /\ p.total <= TopMost(p) + p.height
  BY <1>1 DEF TopMost, AtLeast0
<1>5. QED  BY <1>1, <1>3, <1>4

LEMMA JumpStands ==
  ASSUME NEW p \in Pager, NEW q, q = JumpToEnd(p)
  PROVE  /\ q \in Pager /\ Stands(q) /\ q.total = p.total /\ q.height = p.height /\ q.enabled = p.enabled
         /\ q.mode = "follow" /\ q.end = p.total /\ q.top = TopMost(p)
<1>1. /\ p.height \in Nat /\ p.height # 0 /\ p.total \in Nat /\ p.enabled \in BOOLEAN
      /\ PageSize(p) \in Nat /\ PageSize(p) <= p.height /\ TopMost(p) \in Nat
  BY PagerTypes
<1>2. PICK b \in Nat : b = (IF p.total = 0 THEN p.height ELSE PageSize(p)) /\ b <= p.height  BY <1>1
<1>3. q = [p EXCEPT !.end = p.total, !.top = TopMost(p), !.mode = "follow", !.budget = b]
  BY <1>2 DEF JumpToEnd
<1>4. /\ q \in Pager /\ q.height = p.height /\ q.total = p.total /\ q.end = p.total /\ q.top = TopMost(p)
      /\ q.mode = "follow" /\ q.budget = b /\ q.enabled = p.enabled
  BY <1>1, <1>3 DEF Pager
<1>5. TopMost(q) = TopMost(p)  BY <1>4 DEF TopMost
<1>6. QED  BY <1>1, <1>2, <1>4, <1>5 DEF Stands

LEMMA AppendStands ==
  ASSUME NEW p \in Pager, Stands(p), NEW c \in Nat, NEW q, q = AppendRows(p, c)
  PROVE  /\ q \in Pager /\ Stands(q) /\ q.total = p.total + c /\ q.enabled = p.enabled
         /\ p.enabled => \A f \in Nat : SeenTo(p, f) => Adjoins(q, f)
<1>1. /\ p.height \in Nat /\ p.height # 0 /\ p.total \in Nat /\ p.end \in Nat /\ p.top \in Nat
      /\ p.budget \in Nat /\ p.mode \in {"follow", "paused", "scrolled"} /\ p.enabled \in BOOLEAN
      /\ TopMost(p) \in Nat
  BY PagerTypes
<1>2. CASE ~p.enabled
  <2>1. PICK x : x = [p EXCEPT !.total = @ + c]  OBVIOUS
  <2>2. x \in Pager /\ x.total = p.total + c /\ x.enabled = p.enabled  BY <1>1, <2>1 DEF Pager
  <2>3. q = JumpToEnd(x)  BY <1>2, <2>1 DEF AppendRows
  <2>4. QED  BY <1>2, <2>2, <2>3, JumpStands
<1>3. CASE p.enabled /\ p.mode # "follow"
  <2>1. q = [p EXCEPT !.total = @ + c]  BY <1>3 DEF AppendRows
  <2>2. /\ q \in Pager /\ q.height = p.height /\ q.total = p.total + c /\ q.end = p.end /\ q.top = p.top
        /\ q.mode = p.mode /\ q.enabled = p.enabled
    BY <1>1, <2>1 DEF Pager
  <2>3. TopMost(q) \in Nat /\ TopMost(p) <= TopMost(q)  BY <1>1, <2>2 DEF TopMost, AtLeast0
  <2>4. Stands(q)  BY <1>1, <1>3, <2>2, <2>3 DEF Stands
  <2>5. ASSUME NEW f \in Nat, SeenTo(p, f) PROVE Adjoins(q, f)
    BY <1>1, <2>2, <2>5 DEF SeenTo, Adjoins
  <2>6. QED  BY <2>2, <2>4, <2>5
<1>4. CASE p.enabled /\ p.mode = "follow"
  <2>1. p.end = p.total /\ p.top = TopMost(p) /\ p.budget <= p.height  BY <1>4 DEF Stands
  <2>2. PICK s \in Nat : s = Least(c, p.budget)  BY <1>1 DEF Least
  <2>3. s <= c /\ s <= p.budget  BY <1>1, <2>2 DEF Least
  <2>4. PICK e \in Nat : e = p.end + s  BY <1>1
  <2>5. PICK a \in Nat : a = AtLeast0(e - p.height)  BY <1>1 DEF AtLeast0
  <2>6. PICK b \in Nat : b = p.budget - s
    <3>1. p.budget - s \in Nat  BY <1>1, <2>3
    <3>2. QED  BY <3>1
  <2>7. PICK m \in {"follow", "paused"} : m = IF s < c THEN "paused" ELSE "follow"  OBVIOUS
  <2>8. q = [p EXCEPT !.total = @ + c, !.end = e, !.top = a, !.budget = b, !.mode = m]
    BY <1>4, <2>2, <2>4, <2>5, <2>6, <2>7 DEF AppendRows
  <2>9. /\ q \in Pager /\ q.height = p.height /\ q.total = p.total + c /\ q.end = e /\ q.top = a
        /\ q.mode = m /\ q.budget = b /\ q.enabled = p.enabled
    <3>1. PICK t \in Nat : t = p.total + c  BY <1>1
    <3>2. q = [p EXCEPT !.total = t, !.end = e, !.top = a, !.budget = b, !.mode = m]  BY <2>8, <3>1
    <3>3. p = [height |-> p.height, total |-> p.total, end |-> p.end, top |-> p.top, mode |-> p.mode,
               budget |-> p.budget, enabled |-> p.enabled]
      BY DEF Pager
    <3>4. q = [height |-> p.height, total |-> t, end |-> e, top |-> a, mode |-> m, budget |-> b,
               enabled |-> p.enabled]
      BY <3>2, <3>3
    <3>5. m \in {"follow", "paused", "scrolled"}  BY <2>7
    <3>6. q \in Pager  BY <1>1, <3>4, <3>5 DEF Pager
    <3>7. QED  BY <3>1, <3>4, <3>6
  <2>10. TopMost(q) = AtLeast0((p.total + c) - p.height)  BY <2>9 DEF TopMost
  <2>11. Stands(q)
    <3>1. e <= p.total + c /\ (s < c => e < p.total + c) /\ (~(s < c) => e = p.total + c)
      BY <1>1, <2>1, <2>3, <2>4
    <3>2. a <= TopMost(q)  BY <1>1, <2>5, <2>10, <3>1 DEF AtLeast0
    <3>3. ~(s < c) => a = TopMost(q)  BY <2>5, <2>10, <3>1
    <3>4. b <= p.height  BY <1>1, <2>1, <2>6
    <3>5. QED  BY <2>7, <2>9, <3>1, <3>2, <3>3, <3>4 DEF Stands
  <2>12. ASSUME NEW f \in Nat, SeenTo(p, f) PROVE Adjoins(q, f)
    <3>1. p.total <= f  BY <1>4, <2>12 DEF SeenTo
    <3>2. a <= f  BY <1>1, <2>1, <2>3, <2>4, <2>5, <3>1 DEF AtLeast0
    <3>3. e <= a + p.height  BY <1>1, <2>5 DEF AtLeast0
    <3>4. QED  BY <2>9, <3>2, <3>3 DEF Adjoins
  <2>13. QED  BY <2>9, <2>11, <2>12
<1>5. QED  BY <1>1, <1>2, <1>3, <1>4

LEMMA ScrollStands ==
  ASSUME NEW p \in Pager, Stands(p), NEW n \in Int, NEW q, q = ScrollRows(p, n)
  PROVE  /\ q \in Pager /\ Stands(q) /\ q.total = p.total /\ q.enabled = p.enabled /\ q.mode # "paused"
         /\ q.height = p.height /\ q.top = Least(TopMost(p), AtLeast0(p.top + n))
<1>1. /\ p.height \in Nat /\ p.height # 0 /\ p.total \in Nat /\ p.end \in Nat /\ p.top \in Nat
      /\ p.budget \in Nat /\ p.mode \in {"follow", "paused", "scrolled"} /\ p.enabled \in BOOLEAN
      /\ PageSize(p) \in Nat /\ PageSize(p) <= p.height /\ TopMost(p) \in Nat
  BY PagerTypes
<1>2. PICK a \in Nat : a = Least(TopMost(p), AtLeast0(p.top + n)) /\ a <= TopMost(p)
  BY <1>1 DEF Least, AtLeast0
<1>3. PICK b \in Nat : b = PageSize(p)  BY <1>1
<1>4. CASE a = TopMost(p)
  <2>1. q = [p EXCEPT !.top = a, !.mode = "follow", !.end = p.total, !.budget = b]
    BY <1>2, <1>3, <1>4 DEF ScrollRows
  <2>2. /\ q \in Pager /\ q.height = p.height /\ q.total = p.total /\ q.end = p.total /\ q.top = a
        /\ q.mode = "follow" /\ q.budget = b /\ q.enabled = p.enabled
    BY <1>1, <2>1 DEF Pager
  <2>3. TopMost(q) = TopMost(p)  BY <2>2 DEF TopMost
  <2>4. QED  BY <1>1, <1>2, <1>3, <1>4, <2>2, <2>3 DEF Stands
<1>5. CASE a # TopMost(p)
  <2>1. q = [p EXCEPT !.top = a, !.mode = "scrolled"]  BY <1>2, <1>5 DEF ScrollRows
  <2>2. /\ q \in Pager /\ q.height = p.height /\ q.total = p.total /\ q.end = p.end /\ q.top = a
        /\ q.mode = "scrolled" /\ q.enabled = p.enabled
    BY <1>1, <2>1 DEF Pager
  <2>3. TopMost(q) = TopMost(p)  BY <2>2 DEF TopMost
  <2>4. QED  BY <1>2, <2>2, <2>3 DEF Stands
<1>6. QED  BY <1>4, <1>5

\* A page down, and a page up.
LEMMA PageStands ==
  ASSUME NEW p \in Pager, Stands(p), NEW q,
         \/ q = IF p.mode = "paused" THEN AdvancePage(p) ELSE ScrollRows(p, PageSize(p))
         \/ q = ScrollRows(p, -PageSize(p))
  PROVE  /\ q \in Pager /\ Stands(q) /\ q.total = p.total /\ q.enabled = p.enabled
         /\ \A f \in Nat : SeenTo(p, f) => Adjoins(q, f)
<1>1. /\ p.height \in Nat /\ p.height # 0 /\ p.total \in Nat /\ p.end \in Nat /\ p.top \in Nat
      /\ p.budget \in Nat /\ p.mode \in {"follow", "paused", "scrolled"} /\ p.enabled \in BOOLEAN
      /\ PageSize(p) \in Nat /\ PageSize(p) <= p.height /\ TopMost(p) \in Nat /\ TopMost(p) <= p.total
      /\ p.total <= TopMost(p) + p.height
  BY PagerTypes
<1>2. CASE p.mode # "paused" /\ q = ScrollRows(p, PageSize(p))
  <2>1. PICK n \in Nat : n = PageSize(p)  BY <1>1
  <2>2. /\ q \in Pager /\ Stands(q) /\ q.total = p.total /\ q.enabled = p.enabled /\ q.mode # "paused"
        /\ q.top = Least(TopMost(p), AtLeast0(p.top + n))
    BY <1>2, <2>1, ScrollStands
  <2>3. ASSUME NEW f \in Nat, SeenTo(p, f) PROVE Adjoins(q, f)
    <3>1. CASE p.mode = "follow"
      <4>1. p.total <= f  BY <2>3, <3>1 DEF SeenTo
      <4>2. q.top <= f  BY <1>1, <2>1, <2>2, <4>1 DEF Least, AtLeast0
      <4>3. QED  BY <2>2, <4>2 DEF Adjoins
    <3>2. CASE p.mode = "scrolled"
      <4>1. Least(p.total, p.top + p.height) <= f  BY <2>3, <3>2 DEF SeenTo, VisibleEnd
      <4>2. q.top <= f  BY <1>1, <2>1, <2>2, <4>1 DEF Least, AtLeast0
      <4>3. QED  BY <2>2, <4>2 DEF Adjoins
    <3>3. QED  BY <1>1, <1>2, <3>1, <3>2
  <2>4. QED  BY <2>2, <2>3
<1>3. CASE q = ScrollRows(p, -PageSize(p))
  <2>1. PICK n \in Int : n = -PageSize(p) /\ n <= 0  BY <1>1
  <2>2. /\ q \in Pager /\ Stands(q) /\ q.total = p.total /\ q.enabled = p.enabled /\ q.mode # "paused"
        /\ q.top = Least(TopMost(p), AtLeast0(p.top + n))
    BY <1>3, <2>1, ScrollStands
  <2>3. q.top <= p.top  BY <1>1, <2>1, <2>2 DEF Least, AtLeast0, Stands
  <2>4. ASSUME NEW f \in Nat, SeenTo(p, f) PROVE Adjoins(q, f)
    <3>1. p.top <= f /\ q.top \in Nat  BY <2>2, <2>4, PagerTypes DEF SeenTo
    <3>2. QED  BY <1>1, <2>2, <2>3, <3>1 DEF Adjoins
  <2>5. QED  BY <2>2, <2>4
<1>4. CASE p.mode = "paused" /\ q = AdvancePage(p)
  <2>1. PICK n \in Nat : n = PageSize(p)  BY <1>1
  <2>2. PICK e \in Nat : e = Least(p.total, p.end + n) /\ e <= p.total /\ e <= p.end + n
    BY <1>1, <2>1 DEF Least
  <2>3. PICK a \in Nat : a = AtLeast0(e - p.height)  BY <1>1 DEF AtLeast0
  <2>4. a <= TopMost(p) /\ (e = p.total => a = TopMost(p)) /\ e <= a + p.height /\ a <= p.end
    BY <1>1, <2>1, <2>2, <2>3 DEF TopMost, AtLeast0
  <2>5. PICK x : x = [p EXCEPT !.end = e, !.top = a]  OBVIOUS
  <2>6. q = IF e = p.total THEN [x EXCEPT !.mode = "follow", !.budget = n] ELSE x
    BY <1>4, <2>1, <2>2, <2>3, <2>5 DEF AdvancePage
  <2>7. /\ q \in Pager /\ q.height = p.height /\ q.total = p.total /\ q.end = e /\ q.top = a
        /\ q.enabled = p.enabled
        /\ e = p.total => q.mode = "follow" /\ q.budget = n
        /\ e # p.total => q.mode = "paused"
    <3>1. /\ x \in Pager /\ x.mode = "paused" /\ x.height = p.height /\ x.total = p.total
          /\ x.end = e /\ x.top = a /\ x.enabled = p.enabled
      BY <1>1, <1>4, <2>5 DEF Pager
    <3>2. CASE e = p.total
      <4>1. q = [x EXCEPT !.mode = "follow", !.budget = n]  BY <2>6, <3>2
      <4>2. QED  BY <3>1, <3>2, <4>1 DEF Pager
    <3>3. CASE e # p.total  BY <2>6, <3>1, <3>3
    <3>4. QED  BY <3>2, <3>3
  <2>8. TopMost(q) = TopMost(p)  BY <2>7 DEF TopMost
  <2>9. Stands(q)  BY <1>1, <2>1, <2>2, <2>4, <2>7, <2>8 DEF Stands
  <2>10. ASSUME NEW f \in Nat, SeenTo(p, f) PROVE Adjoins(q, f)
    <3>1. p.end <= f  BY <1>4, <2>10 DEF SeenTo
    <3>2. QED  BY <1>1, <2>4, <2>7, <3>1 DEF Adjoins
  <2>11. QED  BY <2>7, <2>9, <2>10
<1>5. QED  BY <1>2, <1>3, <1>4

\* An entry that is not empty takes at least one row.
LEMMA WrapsToRows ==
  ASSUME NEW l \in Nat, l # 0, NEW w \in Nat, w # 0
  PROVE  WrappedRows(l, w) \in Nat /\ WrappedRows(l, w) # 0
<1>1. PICK x \in Nat : x = l + w - 1 /\ x >= w  OBVIOUS
<1>2. x \div w \in Int /\ x \div w >= 1  BY <1>1
<1>3. QED  BY <1>1, <1>2 DEF WrappedRows

LEMMA ScaledIs ==
  ASSUME NEW t \in Nat, NEW a \in Nat, NEW w \in Nat, w # 0
  PROVE  Scaled(t, a, w) \in Nat
<1>1. PICK x \in Nat : x = 2 * t * a
  <2>1. t * a \in Nat  OBVIOUS
  <2>2. 2 * t * a \in Nat  BY <2>1
  <2>3. QED  BY <2>2
<1>2. PICK y \in Nat : y = x \div w
  <2>1. x \div w \in Int /\ x \div w >= 0  OBVIOUS
  <2>2. QED  BY <2>1
<1>3. PICK z \in Nat : z = y \div 2  OBVIOUS
<1>4. QED  BY <1>1, <1>2, <1>3 DEF Scaled

\* The operations on the pager that the new size and the cut call for.
LEMMA TrimStands ==
  ASSUME NEW p \in Pager, Stands(p), NEW d \in Nat, d # 0, p.total - d = MaxRows,
         NEW q, q = TrimPager(p, d)
  PROVE  /\ q \in Pager /\ Stands(q) /\ q.total = p.total - d /\ q.enabled = p.enabled
         /\ \A f \in Nat : Adjoins(p, f) => Adjoins(q, AtLeast0(f - d))
<1>1. /\ p.height \in Nat /\ p.height # 0 /\ p.total \in Nat /\ p.end \in Nat /\ p.top \in Nat
      /\ p.budget \in Nat /\ p.mode \in {"follow", "paused", "scrolled"} /\ p.enabled \in BOOLEAN
      /\ MaxRows \in Nat /\ MaxRows # 0
  BY PagerTypes, DisplayAssumption
<1>2. PICK t \in Nat : t = p.total - d /\ t = AtLeast0(p.total - d) /\ t # 0  BY <1>1 DEF AtLeast0
<1>3. PICK e \in Nat : e = AtLeast0(p.end - d)  BY <1>1 DEF AtLeast0
<1>4. PICK a \in Nat : a = AtLeast0(p.top - d)  BY <1>1 DEF AtLeast0
<1>5. PICK x : x = [p EXCEPT !.total = t, !.end = e, !.top = a]  OBVIOUS
<1>6. /\ x \in Pager /\ x.height = p.height /\ x.total = t /\ x.end = e /\ x.top = a
      /\ x.mode = p.mode /\ x.budget = p.budget /\ x.enabled = p.enabled
  BY <1>1, <1>5 DEF Pager
<1>7. x = [p EXCEPT !.total = AtLeast0(@ - d), !.end = AtLeast0(@ - d), !.top = AtLeast0(@ - d)]
  BY <1>2, <1>3, <1>4, <1>5
<1>8. PICK m \in Nat : m = TopMost(x) /\ m = AtLeast0(t - p.height)  BY <1>1, <1>6 DEF TopMost, AtLeast0
<1>9. TopMost(p) = AtLeast0(p.total - p.height)  BY DEF TopMost
<1>10. /\ a <= m
       /\ p.mode = "follow" => e = t /\ a = m /\ p.budget <= p.height
       /\ p.mode = "paused" => e < t
  <2>1. a <= m  BY <1>1, <1>2, <1>4, <1>8, <1>9 DEF Stands, AtLeast0
  <2>2. p.mode = "follow" => e = t /\ a = m /\ p.budget <= p.height
    <3>1. SUFFICES ASSUME p.mode = "follow" PROVE e = t /\ a = m /\ p.budget <= p.height  OBVIOUS
    <3>2. p.end = p.total /\ p.top = TopMost(p) /\ p.budget <= p.height  BY <3>1 DEF Stands
    <3>3. QED  BY <1>1, <1>2, <1>3, <1>4, <1>8, <1>9, <3>2 DEF AtLeast0
  <2>3. p.mode = "paused" => e < t  BY <1>1, <1>2, <1>3 DEF Stands, AtLeast0
  <2>4. QED  BY <2>1, <2>2, <2>3
<1>11. q = x
  <2>1. ~(t = 0 \/ (p.mode = "paused" /\ e >= t))  BY <1>2, <1>3, <1>10
  <2>2. q = IF x.mode = "scrolled" THEN [x EXCEPT !.top = Least(x.top, TopMost(x))] ELSE x
    BY <1>6, <1>7, <2>1 DEF TrimPager
  <2>3. Least(x.top, TopMost(x)) = a
    <3>1. a = m \/ a < m  BY <1>10
    <3>2. QED  BY <1>6, <1>8, <3>1 DEF Least
  <2>4. [x EXCEPT !.top = a] = x  BY <1>6 DEF Pager
  <2>5. QED  BY <2>2, <2>3, <2>4
<1>12. Stands(q)  BY <1>6, <1>8, <1>10, <1>11 DEF Stands
<1>13. ASSUME NEW f \in Nat, Adjoins(p, f) PROVE Adjoins(q, AtLeast0(f - d))
  <2>1. a <= AtLeast0(f - d)  BY <1>1, <1>4, <1>13 DEF Adjoins, AtLeast0
  <2>2. p.mode = "paused" => e <= AtLeast0(f - d) \/ e <= a + p.height
    <3>1. SUFFICES ASSUME p.mode = "paused" PROVE e <= AtLeast0(f - d) \/ e <= a + p.height  OBVIOUS
    <3>2. p.end <= f \/ p.end <= p.top + p.height  BY <1>13, <3>1 DEF Adjoins
    <3>3. QED  BY <1>1, <1>3, <1>4, <3>2 DEF AtLeast0
  <2>3. QED  BY <1>6, <1>11, <2>1, <2>2 DEF Adjoins
<1>14. QED  BY <1>2, <1>6, <1>11, <1>12, <1>13

LEMMA ClampKeeps ==
  ASSUME NEW p \in Pager, p.end <= p.total, p.top <= TopMost(p)
  PROVE  Clamp(p) = p
<1>1. p.total \in Nat /\ p.end \in Nat /\ p.top \in Nat /\ TopMost(p) \in Nat  BY PagerTypes
<1>2. Least(AtLeast0(p.end), p.total) = p.end  BY <1>1 DEF Least, AtLeast0
<1>3. Least(AtLeast0(p.top), TopMost(p)) = p.top
  <2>1. AtLeast0(p.top) = p.top  BY <1>1 DEF AtLeast0
  <2>2. p.top = TopMost(p) \/ p.top < TopMost(p)  BY <1>1
  <2>3. QED  BY <2>1, <2>2 DEF Least
<1>4. Clamp(p) = [p EXCEPT !.end = p.end, !.top = p.top]  BY <1>2, <1>3 DEF Clamp
<1>5. QED  BY <1>4 DEF Pager

\* A pager that is scrolled stays so, within its rows.
LEMMA ClampScrolled ==
  ASSUME NEW p \in Pager, p.mode = "scrolled", NEW q, q = Clamp(p)
  PROVE  /\ q \in Pager /\ Stands(q) /\ q.total = p.total /\ q.height = p.height
         /\ q.enabled = p.enabled /\ q.mode = "scrolled" /\ q.top <= p.top
<1>1. p.total \in Nat /\ p.end \in Nat /\ p.top \in Nat /\ TopMost(p) \in Nat  BY PagerTypes
<1>2. PICK e \in Nat : e = Least(AtLeast0(p.end), p.total)  BY <1>1 DEF Least, AtLeast0
<1>3. PICK a \in Nat : a = Least(AtLeast0(p.top), TopMost(p)) /\ a <= TopMost(p) /\ a <= p.top
  BY <1>1 DEF Least, AtLeast0
<1>4. q = [p EXCEPT !.end = e, !.top = a]  BY <1>2, <1>3 DEF Clamp
<1>5. /\ q \in Pager /\ q.total = p.total /\ q.height = p.height /\ q.enabled = p.enabled
      /\ q.mode = "scrolled" /\ q.top = a
  BY <1>4 DEF Pager
<1>6. TopMost(q) = TopMost(p)  BY <1>5 DEF TopMost
<1>7. QED  BY <1>3, <1>5, <1>6 DEF Stands

LEMMA ResizeStands ==
  ASSUME NEW p \in Pager, Stands(p), NEW h \in Nat, h # 0, NEW q, q = ResizePager(p, h)
  PROVE  /\ q \in Pager /\ Stands(q) /\ q.total = p.total /\ q.enabled = p.enabled
         /\ q.mode = "paused" => q.top <= q.end
         /\ \A f \in Nat : SeenTo(p, f) => Adjoins(q, f)
<1>1. /\ p.height \in Nat /\ p.height # 0 /\ p.total \in Nat /\ p.end \in Nat /\ p.top \in Nat
      /\ p.budget \in Nat /\ p.mode \in {"follow", "paused", "scrolled"} /\ p.enabled \in BOOLEAN
  BY PagerTypes
<1>2. PICK x : x = [p EXCEPT !.height = h]  OBVIOUS
<1>3. /\ x \in Pager /\ x.height = h /\ x.total = p.total /\ x.end = p.end /\ x.top = p.top
      /\ x.mode = p.mode /\ x.enabled = p.enabled
  BY <1>2 DEF Pager
<1>4. PICK m \in Nat : m = TopMost(x) /\ m = AtLeast0(p.total - h)  BY <1>1, <1>3 DEF TopMost, AtLeast0
<1>5. CASE p.mode = "follow"
  <2>1. PICK y : y = JumpToEnd(x)  OBVIOUS
  <2>2. /\ y \in Pager /\ Stands(y) /\ y.total = p.total /\ y.height = h /\ y.enabled = p.enabled
        /\ y.mode = "follow" /\ y.end = p.total /\ y.top = m
    BY <1>3, <1>4, <2>1, JumpStands
  <2>3. q = Clamp(y)  BY <1>2, <1>3, <1>5, <2>1 DEF ResizePager
  <2>4. y.end <= y.total /\ y.top <= TopMost(y)  BY <1>1, <2>2 DEF Stands
  <2>5. q = y  BY <2>2, <2>3, <2>4, ClampKeeps
  <2>6. ASSUME NEW f \in Nat, SeenTo(p, f) PROVE Adjoins(q, f)
    <3>1. p.total <= f  BY <1>5, <2>6 DEF SeenTo
    <3>2. m <= f  BY <1>1, <1>4, <3>1 DEF AtLeast0
    <3>3. QED  BY <2>2, <2>5, <3>2 DEF Adjoins
  <2>7. QED  BY <2>2, <2>5, <2>6
<1>6. CASE p.mode = "paused"
  <2>1. PICK a \in Nat : a = AtLeast0(p.end - h) /\ a <= p.end  BY <1>1 DEF AtLeast0
  <2>2. PICK y : y = [x EXCEPT !.top = a]  OBVIOUS
  <2>3. /\ y \in Pager /\ y.total = p.total /\ y.height = h /\ y.enabled = p.enabled
        /\ y.mode = "paused" /\ y.end = p.end /\ y.top = a
    BY <1>3, <1>6, <2>2 DEF Pager
  <2>4. q = Clamp(y)  BY <1>2, <1>3, <1>6, <2>1, <2>2 DEF ResizePager
  <2>5. TopMost(y) = m  BY <1>4, <2>3 DEF TopMost
  <2>6. p.end < p.total  BY <1>6 DEF Stands
  <2>7. y.end <= y.total /\ y.top <= TopMost(y)  BY <1>1, <1>4, <2>1, <2>3, <2>5, <2>6 DEF AtLeast0
  <2>8. q = y  BY <2>3, <2>4, <2>7, ClampKeeps
  <2>9. Stands(q)  BY <2>3, <2>6, <2>7, <2>8 DEF Stands
  <2>10. ASSUME NEW f \in Nat, SeenTo(p, f) PROVE Adjoins(q, f)
    <3>1. p.end <= f  BY <1>6, <2>10 DEF SeenTo
    <3>2. a <= f  BY <1>1, <2>1, <3>1
    <3>3. QED  BY <2>3, <2>8, <3>1, <3>2 DEF Adjoins
  <2>11. QED  BY <2>1, <2>3, <2>8, <2>9, <2>10
<1>7. CASE p.mode = "scrolled"
  <2>1. PICK a \in Nat : a = Least(x.top, TopMost(x)) /\ a <= p.top  BY <1>1, <1>3, <1>4 DEF Least
  <2>2. PICK y : y = [x EXCEPT !.top = a]  OBVIOUS
  <2>3. /\ y \in Pager /\ y.total = p.total /\ y.enabled = p.enabled /\ y.mode = "scrolled" /\ y.top = a
    BY <1>3, <1>7, <2>2 DEF Pager
  <2>4. q = Clamp(y)  BY <1>2, <1>3, <1>7, <2>1, <2>2 DEF ResizePager
  <2>5. /\ q \in Pager /\ Stands(q) /\ q.total = p.total /\ q.enabled = p.enabled /\ q.mode = "scrolled"
        /\ q.top <= a
    BY <2>3, <2>4, ClampScrolled
  <2>6. q.top \in Nat  BY <2>5, PagerTypes
  <2>7. ASSUME NEW f \in Nat, SeenTo(p, f) PROVE Adjoins(q, f)
    <3>1. p.top <= f  BY <2>7 DEF SeenTo
    <3>2. q.top <= f  BY <1>1, <2>1, <2>5, <2>6, <3>1
    <3>3. QED  BY <2>5, <3>2 DEF Adjoins
  <2>8. QED  BY <2>5, <2>7
<1>8. QED  BY <1>1, <1>5, <1>6, <1>7

LEMMA ReflowStands ==
  ASSUME NEW p \in Pager, NEW t \in Nat, NEW q, q = Reflow(p, t)
  PROVE  q \in Pager /\ Stands(q) /\ q.total = t /\ q.enabled = p.enabled
<1>1. /\ p.height \in Nat /\ p.height # 0 /\ p.total \in Nat /\ p.end \in Nat /\ p.top \in Nat
      /\ p.budget \in Nat /\ p.mode \in {"follow", "paused", "scrolled"} /\ p.enabled \in BOOLEAN
  BY PagerTypes
<1>2. CASE p.mode = "follow" \/ p.total = 0
  <2>1. PICK x : x = [p EXCEPT !.total = t]  OBVIOUS
  <2>2. x \in Pager /\ x.total = t /\ x.enabled = p.enabled  BY <2>1 DEF Pager
  <2>3. q = JumpToEnd(x)  BY <1>2, <2>1 DEF Reflow
  <2>4. QED  BY <2>2, <2>3, JumpStands
<1>3. CASE p.mode # "follow" /\ p.total # 0
  <2>1. PICK s \in Nat : s = Scaled(t, p.end, p.total)  BY <1>1, <1>3, ScaledIs
  <2>2. PICK r \in Nat : r = Scaled(t, p.top, p.total)  BY <1>1, <1>3, ScaledIs
  <2>3. PICK e \in Nat : e = Least(t, s) /\ e <= t  BY <2>1 DEF Least
  <2>4. PICK a \in Nat : a = Least(AtLeast0(t - p.height), r)  BY <1>1, <2>2 DEF Least, AtLeast0
  <2>5. PICK x : x = [p EXCEPT !.total = t, !.end = e, !.top = a]  OBVIOUS
  <2>6. /\ x \in Pager /\ x.total = t /\ x.end = e /\ x.height = p.height /\ x.mode = p.mode
        /\ x.enabled = p.enabled
    BY <2>5 DEF Pager
  <2>7. q = IF p.mode # "paused" THEN Clamp(x)
            ELSE IF e >= t THEN Clamp(JumpToEnd(x))
            ELSE Clamp([x EXCEPT !.top = AtLeast0(x.end - x.height)])
    BY <1>3, <2>1, <2>2, <2>3, <2>4, <2>5, <2>6 DEF Reflow
  <2>8. CASE p.mode = "scrolled"
    <3>1. q = Clamp(x)  BY <2>7, <2>8
    <3>2. QED  BY <2>6, <2>8, <3>1, ClampScrolled
  <2>9. CASE p.mode = "paused" /\ e >= t
    <3>1. PICK y : y = JumpToEnd(x)  OBVIOUS
    <3>2. y \in Pager /\ Stands(y) /\ y.total = t /\ y.enabled = p.enabled /\ y.end = t
      BY <2>6, <3>1, JumpStands
    <3>3. y.end <= y.total /\ y.top <= TopMost(y)  BY <3>2 DEF Stands
    <3>4. q = y  BY <2>7, <2>9, <3>1, <3>2, <3>3, ClampKeeps
    <3>5. QED  BY <3>2, <3>4
  <2>10. CASE p.mode = "paused" /\ ~(e >= t)
    <3>1. PICK b \in Nat : b = AtLeast0(x.end - x.height)  BY <1>1, <2>6 DEF AtLeast0
    <3>2. PICK y : y = [x EXCEPT !.top = b]  OBVIOUS
    <3>3. /\ y \in Pager /\ y.total = t /\ y.enabled = p.enabled /\ y.end = e /\ y.top = b
          /\ y.mode = "paused" /\ y.height = p.height
      BY <2>6, <2>10, <3>2 DEF Pager
    <3>4. y.end < y.total /\ y.end <= y.total  BY <2>10, <3>3
    <3>5. y.top <= TopMost(y)  BY <1>1, <2>3, <2>6, <3>1, <3>3 DEF TopMost, AtLeast0
    <3>6. q = y  BY <2>7, <2>10, <3>1, <3>2, <3>3, <3>4, <3>5, ClampKeeps
    <3>7. QED  BY <3>3, <3>4, <3>5, <3>6 DEF Stands
  <2>11. QED  BY <1>1, <1>3, <2>8, <2>9, <2>10
<1>4. QED  BY <1>2, <1>3

\* The rows that the pane shows join those seen before: none is skipped.
LEMMA LookSees ==
  ASSUME NEW p \in Pager, Stands(p), NEW s \in Nat, Adjoins(p, s)
  PROVE  /\ ~(p.top > s)
         /\ SeenTo(p, IF VisibleEnd(p) > s THEN VisibleEnd(p) ELSE s)
<1>1. /\ p.height \in Nat /\ p.height # 0 /\ p.total \in Nat /\ p.end \in Nat /\ p.top \in Nat
      /\ p.mode \in {"follow", "paused", "scrolled"}
      /\ TopMost(p) \in Nat /\ p.total <= TopMost(p) + p.height
  BY PagerTypes
<1>2. PICK v \in Nat : v = VisibleEnd(p)  BY <1>1 DEF VisibleEnd, Least
<1>3. PICK f \in Nat : f = (IF v > s THEN v ELSE s) /\ v <= f /\ s <= f  BY <1>2
<1>4. p.top <= s  BY DEF Adjoins
<1>5. p.mode = "follow" => p.total <= v  BY <1>1, <1>2 DEF Stands, VisibleEnd, Least
<1>6. p.mode = "paused" => p.end <= s \/ p.end <= v
  <2>1. SUFFICES ASSUME p.mode = "paused", ~(p.end <= s) PROVE p.end <= v  OBVIOUS
  <2>2. p.end <= p.top + p.height /\ p.end < p.total  BY <2>1 DEF Adjoins, Stands
  <2>3. QED  BY <1>1, <1>2, <2>1, <2>2 DEF VisibleEnd, Least
<1>7. SeenTo(p, f)  BY <1>1, <1>2, <1>3, <1>4, <1>5, <1>6 DEF SeenTo
<1>8. QED  BY <1>1, <1>2, <1>3, <1>4, <1>7

-----------------------------------------------------------------------------
(* The pane: the pager counts the rows kept and stands where its mode says, and with the   *)
(* pager on the rows it shows join those that have been seen.                              *)
DisplayInv ==
  /\ texts \in Seq(TextEntry) /\ columns \in Widths
  /\ screenStart \in Nat /\ screenStart <= Len(texts)
  /\ pager \in Pager /\ Stands(pager) /\ pager.total = TotalRows(texts) /\ pager.total <= MaxRows
  /\ RowsAligned
  /\ frontier \in Nat
  /\ pager.enabled => SeenTo(pager, frontier) /\ ~skipped

LEMMA SizesArePositive ==
  /\ \A w \in Widths : w \in Nat /\ w # 0
  /\ \A h \in Heights : h \in Nat /\ h # 0
  /\ \A l \in Lengths : l \in Nat /\ l # 0
BY DisplayAssumption

LEMMA DisplayInvHolds ==
  ASSUME DisplayInit
  PROVE  DisplayInv
<1>1. PICK h \in Heights :
        pager \in [height : {h}, total : {0}, end : {0}, top : {0}, mode : {"follow"},
                   budget : {h}, enabled : BOOLEAN]
  BY DEF DisplayInit
<1>2. h \in Nat /\ h # 0  BY SizesArePositive
<1>3. /\ pager \in Pager /\ pager.height = h /\ pager.total = 0 /\ pager.end = 0 /\ pager.top = 0
      /\ pager.mode = "follow" /\ pager.budget = h
  BY <1>1, <1>2 DEF Pager
<1>4. TopMost(pager) = 0  BY <1>2, <1>3 DEF TopMost, AtLeast0
<1>5. Stands(pager)  BY <1>2, <1>3, <1>4 DEF Stands
<1>6. texts = <<>> /\ columns \in Widths /\ screenStart = 0 /\ frontier = 0 /\ skipped = FALSE
  BY DEF DisplayInit
<1>7. SeenTo(pager, frontier)  BY <1>3, <1>6 DEF SeenTo
<1>8. texts \in Seq(TextEntry) /\ Len(texts) = 0 /\ DOMAIN texts = {}  BY <1>6
<1>9. TotalRows(texts) = 0  BY <1>8, UpToProperties
<1>10. RowsAligned  BY <1>8 DEF RowsAligned
<1>11. MaxRows \in Nat  BY DisplayAssumption
<1>12. QED  BY <1>3, <1>5, <1>6, <1>7, <1>8, <1>9, <1>10, <1>11 DEF DisplayInv

\* What every way of looking at the pane keeps.
LEMMA LookKeeps ==
  ASSUME NEW p \in Pager, Stands(p), NEW d \in Nat, frontier \in Nat, NEW on \in BOOLEAN,
         on => ~skipped /\ Adjoins(p, AtLeast0(frontier - d)), Look(p, d)
  PROVE  frontier' \in Nat /\ (on => SeenTo(p, frontier') /\ ~skipped')
<1>1. PICK s \in Nat : s = AtLeast0(frontier - d)  BY DEF AtLeast0
<1>2. p.height \in Nat /\ p.total \in Nat /\ p.end \in Nat /\ p.top \in Nat  BY PagerTypes
<1>3. PICK v \in Nat : v = VisibleEnd(p)  BY <1>2 DEF VisibleEnd, Least
<1>4. frontier' = (IF v > s THEN v ELSE s) /\ skipped' = (skipped \/ p.top > s)
  BY <1>1, <1>3 DEF Look
<1>5. ASSUME on PROVE SeenTo(p, frontier') /\ ~skipped'
  <2>1. ~skipped /\ Adjoins(p, s)  BY <1>1, <1>5
  <2>2. ~(p.top > s) /\ SeenTo(p, IF v > s THEN v ELSE s)  BY <1>3, <2>1, LookSees
  <2>3. QED  BY <1>4, <2>1, <2>2
<1>6. QED  BY <1>4, <1>5

LEMMA LookAround ==
  ASSUME NEW p \in Pager, Stands(p), Look(p, 0), frontier \in Nat, pager \in Pager,
         pager.enabled => SeenTo(pager, frontier) /\ ~skipped, p.enabled = pager.enabled,
         \A f \in Nat : SeenTo(pager, f) => Adjoins(p, f)
  PROVE  frontier' \in Nat /\ (p.enabled => SeenTo(p, frontier') /\ ~skipped')
<1>1. PICK on \in BOOLEAN : on = pager.enabled  BY PagerTypes
<1>2. AtLeast0(frontier - 0) = frontier  BY DEF AtLeast0
<1>3. on => ~skipped /\ Adjoins(p, AtLeast0(frontier - 0))  BY <1>1, <1>2
<1>4. 0 \in Nat  OBVIOUS
<1>5. frontier' \in Nat /\ (on => SeenTo(p, frontier') /\ ~skipped')  BY <1>3, <1>4, LookKeeps
<1>6. QED  BY <1>1, <1>5

\* The rows of the entries are those that wrapping gives after their offsets.
Fits(ts, width) ==
  \A i \in DOMAIN ts : ts[i].offset + ts[i].rows = WrappedRows(ts[i].length, width)

LEMMA FitsIsAligned ==
  ASSUME NEW ts \in Seq(TextEntry), NEW width, Fits(ts, width)
  PROVE  \A i \in DOMAIN ts :
            /\ ts[i].rows > 0 /\ ts[i].offset >= 0
            /\ ts[i].offset + ts[i].rows = WrappedRows(ts[i].length, width)
<1>1. SUFFICES ASSUME NEW i \in DOMAIN ts PROVE ts[i].rows > 0 /\ ts[i].offset >= 0  BY DEF Fits
<1>2. ts[i] \in TextEntry  BY ElementOfSeq, LenProperties
<1>3. QED  BY <1>2 DEF TextEntry

\* A cut keeps the rows of the lines aligned and the start of the screen among the entries.
LEMMA TrimFits ==
  ASSUME NEW ts \in Seq(TextEntry), NEW w, w = Trimmed(ts), NEW k, k = WholeDropped(ts),
         NEW width, NEW s \in Nat, s <= Len(ts), Fits(ts, width)
  PROVE  AtLeast0(s - k) \in Nat /\ AtLeast0(s - k) <= Len(w) /\ Fits(w, width)
<1>1. PICK x : x = Excess(ts)  OBVIOUS
<1>2. PICK n : n = Len(ts)  OBVIOUS
<1>3. /\ n \in Nat /\ k \in 0..n /\ w \in Seq(TextEntry) /\ Len(w) = n - k
      /\ SameLines(ts, k, w)
  BY <1>1, <1>2, TrimKeeps
<1>4. AtLeast0(s - k) \in Nat /\ AtLeast0(s - k) <= Len(w)  BY <1>2, <1>3 DEF AtLeast0
<1>5. DOMAIN ts = 1..n /\ DOMAIN w = 1..(n - k)  BY <1>2, <1>3, LenProperties
<1>6. ASSUME NEW i \in DOMAIN w PROVE w[i].offset + w[i].rows = WrappedRows(w[i].length, width)
  <2>1. i + k \in 1..n  BY <1>3, <1>5
  <2>2. QED  BY <1>3, <1>5, <2>1 DEF Fits, SameLines
<1>7. QED  BY <1>4, <1>6 DEF Fits

LEMMA AlignedNext ==
  ASSUME NEW w \in Seq(TextEntry), NEW width, Fits(w, width), texts' = w, columns' = width
  PROVE  RowsAligned'
BY FitsIsAligned DEF RowsAligned

\* Output is appended, and what is too much is cut.
LEMMA ReceiveKeeps ==
  ASSUME DisplayInv, NEW length \in Lengths, Receive(length)
  PROVE  DisplayInv'
<1>1. /\ texts \in Seq(TextEntry) /\ columns \in Widths /\ screenStart \in Nat /\ screenStart <= Len(texts)
      /\ pager \in Pager /\ Stands(pager) /\ pager.total = TotalRows(texts)
      /\ RowsAligned /\ frontier \in Nat /\ (pager.enabled => SeenTo(pager, frontier) /\ ~skipped)
  BY DEF DisplayInv
<1>2. PICK rows \in Nat \ {0} : rows = WrappedRows(length, columns)  BY <1>1, SizesArePositive, WrapsToRows
<1>3. PICK t : t = [length |-> length, rows |-> rows, offset |-> 0]  OBVIOUS
<1>4. t \in TextEntry /\ t.rows = rows /\ t.length = length /\ t.offset = 0  BY <1>3, SizesArePositive DEF TextEntry
<1>5. PICK ts : ts = Append(texts, t)  OBVIOUS
<1>6. ts \in Seq(TextEntry) /\ Len(ts) = Len(texts) + 1 /\ TotalRows(ts) = TotalRows(texts) + rows
  BY <1>1, <1>4, <1>5, RowsOfAppend
<1>7. PICK q : q = AppendRows(pager, rows)  OBVIOUS
<1>8. /\ q \in Pager /\ Stands(q) /\ q.total = TotalRows(ts) /\ q.enabled = pager.enabled
      /\ pager.enabled => Adjoins(q, frontier)
  <2>1. PICK c \in Nat : c = rows  OBVIOUS
  <2>2. /\ q \in Pager /\ Stands(q) /\ q.total = pager.total + c /\ q.enabled = pager.enabled
        /\ pager.enabled => \A f \in Nat : SeenTo(pager, f) => Adjoins(q, f)
    BY <1>1, <1>7, <2>1, AppendStands
  <2>3. QED  BY <1>1, <1>6, <2>1, <2>2
<1>9. /\ texts' = Trimmed(ts) /\ screenStart' = AtLeast0(screenStart - WholeDropped(ts))
      /\ pager' = IF Excess(ts) = 0 THEN q ELSE TrimPager(q, Excess(ts))
      /\ Look(pager', Excess(ts)) /\ columns' = columns
  BY <1>2, <1>3, <1>5, <1>7 DEF Receive, Trim
<1>10. PICK x : x = Excess(ts)  OBVIOUS
<1>11. /\ x \in Nat /\ texts' \in Seq(TextEntry) /\ TotalRows(ts) \in Nat
       /\ TotalRows(texts') = TotalRows(ts) - x /\ TotalRows(ts) - x <= MaxRows
       /\ x > 0 => TotalRows(ts) - x = MaxRows
  BY <1>6, <1>9, <1>10, TrimKeeps
<1>12. /\ pager' \in Pager /\ Stands(pager') /\ pager'.total = TotalRows(texts')
       /\ pager'.enabled = pager.enabled
       /\ pager.enabled => Adjoins(pager', AtLeast0(frontier - x))
  <2>1. CASE x = 0
    <3>1. pager' = q /\ AtLeast0(frontier - x) = frontier  BY <1>1, <1>9, <1>10, <2>1 DEF AtLeast0
    <3>2. QED  BY <1>8, <1>11, <2>1, <3>1
  <2>2. CASE x # 0
    <3>1. pager' = TrimPager(q, x) /\ q.total - x = MaxRows  BY <1>8, <1>9, <1>10, <1>11, <2>2
    <3>2. /\ pager' \in Pager /\ Stands(pager') /\ pager'.total = q.total - x /\ pager'.enabled = q.enabled
          /\ \A f \in Nat : Adjoins(q, f) => Adjoins(pager', AtLeast0(f - x))
      BY <1>8, <1>11, <2>2, <3>1, TrimStands
    <3>3. QED  BY <1>1, <1>8, <1>11, <3>2
  <2>3. QED  BY <2>1, <2>2
<1>13. frontier' \in Nat /\ (pager'.enabled => SeenTo(pager', frontier') /\ ~skipped')
  <2>1. PICK on \in BOOLEAN : on = pager.enabled  BY <1>1, PagerTypes
  <2>2. on => ~skipped /\ Adjoins(pager', AtLeast0(frontier - x))  BY <1>1, <1>12, <2>1
  <2>3. PICK p : p = pager'  OBVIOUS
  <2>4. /\ p \in Pager /\ Stands(p) /\ Look(p, x)
        /\ on => ~skipped /\ Adjoins(p, AtLeast0(frontier - x))
    BY <1>9, <1>10, <1>12, <2>2, <2>3
  <2>5. frontier' \in Nat /\ (on => SeenTo(p, frontier') /\ ~skipped')  BY <1>1, <1>11, <2>4, LookKeeps
  <2>6. QED  BY <1>12, <2>1, <2>3, <2>5
<1>14. Fits(ts, columns)
  <2>1. SUFFICES ASSUME NEW i \in DOMAIN ts
                 PROVE  ts[i].offset + ts[i].rows = WrappedRows(ts[i].length, columns)
    BY DEF Fits
  <2>2. PICK n \in Nat : n = Len(texts)  BY <1>1, LenProperties
  <2>3. DOMAIN texts = 1..n /\ DOMAIN ts = 1..(n + 1)  BY <1>1, <1>6, <2>2, LenProperties
  <2>4. ts[n + 1] = t /\ \A j \in 1..n : ts[j] = texts[j]  BY <1>1, <1>4, <1>5, <2>2, AppendProperties
  <2>5. CASE i = n + 1  BY <1>2, <1>4, <2>4, <2>5
  <2>6. CASE i # n + 1
    <3>1. i \in DOMAIN texts /\ ts[i] = texts[i]  BY <2>1, <2>2, <2>3, <2>4, <2>6
    <3>2. QED  BY <1>1, <3>1 DEF RowsAligned
  <2>7. QED  BY <2>5, <2>6
<1>15. screenStart' \in Nat /\ screenStart' <= Len(texts') /\ RowsAligned'
  <2>1. PICK k, w : k = WholeDropped(ts) /\ w = Trimmed(ts)  OBVIOUS
  <2>2. screenStart <= Len(ts)  BY <1>1, <1>6, LenProperties
  <2>3. AtLeast0(screenStart - k) \in Nat /\ AtLeast0(screenStart - k) <= Len(w) /\ Fits(w, columns)
    BY <1>1, <1>6, <1>14, <2>1, <2>2, TrimFits
  <2>4. RowsAligned'  BY <1>9, <1>11, <2>1, <2>3, AlignedNext
  <2>5. QED  BY <1>9, <2>1, <2>3, <2>4
<1>16. pager'.total <= MaxRows  BY <1>11, <1>12
<1>17. QED  BY <1>1, <1>9, <1>11, <1>12, <1>13, <1>15, <1>16 DEF DisplayInv


LEMMA RewrappedIs ==
  ASSUME texts \in Seq(TextEntry), NEW width \in Widths, NEW ts, ts = Rewrapped(width)
  PROVE  ts \in Seq(TextEntry) /\ Len(ts) = Len(texts) /\ Fits(ts, width)
<1>1. PICK n \in Nat : n = Len(texts)  BY LenProperties
<1>2. DOMAIN texts = 1..n  BY <1>1, LenProperties
<1>3. width \in Nat /\ width # 0  BY SizesArePositive
<1>4. ASSUME NEW i \in 1..n
      PROVE  /\ ts[i] \in TextEntry /\ ts[i].length = texts[i].length /\ ts[i].offset = 0
             /\ ts[i].rows = WrappedRows(texts[i].length, width)
  <2>1. PICK t : t = texts[i]  OBVIOUS
  <2>2. t \in TextEntry  BY <1>1, <2>1, ElementOfSeq
  <2>3. PICK r \in Nat \ {0} : r = WrappedRows(t.length, width)
    <3>1. t.length \in Nat /\ t.length # 0  BY <2>2 DEF TextEntry
    <3>2. QED  BY <1>3, <3>1, WrapsToRows
  <2>4. ts[i] = [t EXCEPT !.rows = r, !.offset = 0]  BY <1>2, <2>1, <2>3 DEF Rewrapped
  <2>5. ts[i] \in TextEntry /\ ts[i].length = t.length /\ ts[i].offset = 0 /\ ts[i].rows = r
    <3>1. t = [length |-> t.length, rows |-> t.rows, offset |-> t.offset]  BY <2>2 DEF TextEntry
    <3>2. ts[i] = [length |-> t.length, rows |-> r, offset |-> 0]  BY <2>4, <3>1
    <3>3. QED  BY <2>2, <3>2 DEF TextEntry
  <2>6. QED  BY <2>1, <2>3, <2>5
<1>5. DOMAIN ts = 1..n  BY <1>2 DEF Rewrapped
<1>6. ts \in [1..n -> TextEntry]
  <2>1. ts = [i \in 1..n |-> ts[i]]  BY <1>2 DEF Rewrapped
  <2>2. QED  BY <1>4, <2>1
<1>7. ts \in Seq(TextEntry) /\ Len(ts) = n  BY <1>6
<1>8. Fits(ts, width)
  <2>1. SUFFICES ASSUME NEW i \in 1..n
                 PROVE  ts[i].offset + ts[i].rows = WrappedRows(ts[i].length, width)
    BY <1>5 DEF Fits
  <2>2. PICK r \in Nat : r = ts[i].rows  BY <1>4 DEF TextEntry
  <2>3. ts[i].offset = 0 /\ r = WrappedRows(ts[i].length, width)  BY <1>4, <2>2
  <2>4. QED  BY <2>2, <2>3
<1>9. QED  BY <1>1, <1>7, <1>8

\* The height alone changes, or the lines are wrapped anew.
LEMMA ResizeKeeps ==
  ASSUME DisplayInv, NEW width \in Widths, NEW height \in Heights, Resize(width, height)
  PROVE  DisplayInv'
<1>1. /\ texts \in Seq(TextEntry) /\ columns \in Widths /\ screenStart \in Nat /\ screenStart <= Len(texts)
      /\ pager \in Pager /\ Stands(pager) /\ pager.total = TotalRows(texts) /\ pager.total <= MaxRows
      /\ RowsAligned /\ frontier \in Nat /\ (pager.enabled => SeenTo(pager, frontier) /\ ~skipped)
  BY DEF DisplayInv
<1>2. height \in Nat /\ height # 0  BY SizesArePositive
<1>3. CASE width = columns
  <2>1. PICK q : q = ResizePager(pager, height)  OBVIOUS
  <2>2. /\ q \in Pager /\ Stands(q) /\ q.total = pager.total /\ q.enabled = pager.enabled
        /\ \A f \in Nat : SeenTo(pager, f) => Adjoins(q, f)
    BY <1>1, <1>2, <2>1, ResizeStands
  <2>3. /\ pager' = q /\ Look(q, 0)
        /\ columns' = columns /\ texts' = texts /\ screenStart' = screenStart
    BY <1>3, <2>1 DEF Resize
  <2>4. frontier' \in Nat /\ (pager'.enabled => SeenTo(pager', frontier') /\ ~skipped')
    BY <1>1, <2>2, <2>3, LookAround
  <2>5. RowsAligned'  BY <1>1, <2>3 DEF RowsAligned
  <2>6. QED  BY <1>1, <2>2, <2>3, <2>4, <2>5 DEF DisplayInv
<1>4. CASE width # columns
  <2>1. PICK ts, x, r : ts = Rewrapped(width) /\ x = Excess(ts) /\ r = Reflow(pager, TotalRows(ts))  OBVIOUS
  <2>2. PICK t, q : t = (IF x = 0 THEN r ELSE TrimPager(r, x)) /\ q = ResizePager(t, height)  OBVIOUS
  <2>3. /\ texts' = Trimmed(ts) /\ screenStart' = AtLeast0(screenStart - WholeDropped(ts))
        /\ pager' = q /\ frontier' = (IF q.mode = "paused" THEN q.end ELSE q.total)
        /\ columns' = width /\ skipped' = skipped
    BY <1>4, <2>1, <2>2 DEF Resize
  <2>4. ts \in Seq(TextEntry) /\ Len(ts) = Len(texts) /\ Fits(ts, width)  BY <1>1, <2>1, RewrappedIs
  <2>5. /\ x \in Nat /\ texts' \in Seq(TextEntry) /\ TotalRows(ts) \in Nat
        /\ TotalRows(texts') = TotalRows(ts) - x /\ TotalRows(ts) - x <= MaxRows
        /\ x > 0 => TotalRows(ts) - x = MaxRows
    BY <2>1, <2>3, <2>4, TrimKeeps
  <2>6. r \in Pager /\ Stands(r) /\ r.total = TotalRows(ts) /\ r.enabled = pager.enabled
    BY <1>1, <2>1, <2>5, ReflowStands
  <2>7. t \in Pager /\ Stands(t) /\ t.total = TotalRows(texts') /\ t.enabled = pager.enabled
    <3>1. CASE x = 0  BY <2>2, <2>5, <2>6, <3>1
    <3>2. CASE x # 0
      <4>1. t = TrimPager(r, x) /\ r.total - x = MaxRows  BY <2>2, <2>5, <2>6, <3>2
      <4>2. t \in Pager /\ Stands(t) /\ t.total = r.total - x /\ t.enabled = r.enabled
        BY <2>5, <2>6, <3>2, <4>1, TrimStands
      <4>3. QED  BY <2>5, <2>6, <4>2
    <3>3. QED  BY <3>1, <3>2
  <2>8. /\ q \in Pager /\ Stands(q) /\ q.total = TotalRows(texts') /\ q.enabled = pager.enabled
        /\ q.mode = "paused" => q.top <= q.end
    BY <1>2, <2>2, <2>7, ResizeStands
  <2>9. frontier' \in Nat /\ SeenTo(q, frontier')
    <3>1. /\ q.height \in Nat /\ q.total \in Nat /\ q.end \in Nat /\ q.top \in Nat
          /\ TopMost(q) \in Nat /\ TopMost(q) <= q.total
      BY <2>8, PagerTypes
    <3>2. q.top <= frontier'  BY <2>3, <2>8, <3>1 DEF Stands
    <3>3. q.mode = "scrolled" => VisibleEnd(q) <= frontier'  BY <2>3, <3>1 DEF VisibleEnd, Least
    <3>4. QED  BY <2>3, <3>1, <3>2, <3>3 DEF SeenTo
  <2>10. screenStart' \in Nat /\ screenStart' <= Len(texts') /\ RowsAligned'
    <3>1. PICK k, w : k = WholeDropped(ts) /\ w = Trimmed(ts)  OBVIOUS
    <3>2. AtLeast0(screenStart - k) \in Nat /\ AtLeast0(screenStart - k) <= Len(w) /\ Fits(w, width)
      BY <1>1, <2>4, <3>1, TrimFits
    <3>3. RowsAligned'  BY <2>3, <2>5, <3>1, <3>2, AlignedNext
    <3>4. QED  BY <2>3, <3>1, <3>2, <3>3
  <2>11. pager'.enabled => SeenTo(pager', frontier') /\ ~skipped'  BY <1>1, <2>3, <2>8, <2>9
  <2>12. QED  BY <2>3, <2>5, <2>8, <2>9, <2>10, <2>11 DEF DisplayInv
<1>5. QED  BY <1>3, <1>4

\* What a change of the pager alone keeps.
LEMMA PagerKeeps ==
  ASSUME DisplayInv, NEW q \in Pager, Stands(q), q.total = pager.total, q.enabled = pager.enabled,
         pager' = q, UNCHANGED <<texts, columns>>, screenStart' \in {0, screenStart, Len(texts)},
         frontier' \in Nat, pager'.enabled => SeenTo(pager', frontier') /\ ~skipped'
  PROVE  DisplayInv'
<1>1. /\ texts \in Seq(TextEntry) /\ columns \in Widths /\ screenStart \in Nat /\ screenStart <= Len(texts)
      /\ pager.total = TotalRows(texts) /\ pager.total <= MaxRows /\ RowsAligned
  BY DEF DisplayInv
<1>2. Len(texts) \in Nat  BY <1>1, LenProperties
<1>3. screenStart' \in Nat /\ screenStart' <= Len(texts')  BY <1>1, <1>2
<1>4. RowsAligned'  BY <1>1 DEF RowsAligned
<1>5. QED  BY <1>1, <1>3, <1>4 DEF DisplayInv

LEMMA PageDownKeeps ==
  ASSUME DisplayInv, PageDown
  PROVE  DisplayInv'
<1>1. /\ pager \in Pager /\ Stands(pager) /\ frontier \in Nat
      /\ pager.enabled => SeenTo(pager, frontier) /\ ~skipped
  BY DEF DisplayInv
<1>2. PICK q : q = IF pager.mode = "paused" THEN AdvancePage(pager) ELSE ScrollRows(pager, PageSize(pager))
  OBVIOUS
<1>3. pager' = q /\ Look(q, 0) /\ UNCHANGED <<texts, columns>> /\ screenStart' = screenStart
  BY <1>2 DEF PageDown, Key
<1>4. /\ q \in Pager /\ Stands(q) /\ q.total = pager.total /\ q.enabled = pager.enabled
      /\ \A f \in Nat : SeenTo(pager, f) => Adjoins(q, f)
  BY <1>1, <1>2, PageStands
<1>5. frontier' \in Nat /\ (q.enabled => SeenTo(q, frontier') /\ ~skipped')  BY <1>1, <1>3, <1>4, LookAround
<1>6. QED  BY <1>3, <1>4, <1>5, PagerKeeps

LEMMA PageUpKeeps ==
  ASSUME DisplayInv, PageUp
  PROVE  DisplayInv'
<1>1. /\ pager \in Pager /\ Stands(pager) /\ frontier \in Nat
      /\ pager.enabled => SeenTo(pager, frontier) /\ ~skipped
  BY DEF DisplayInv
<1>2. PICK q : q = ScrollRows(pager, -PageSize(pager))  OBVIOUS
<1>3. pager' = q /\ Look(q, 0) /\ UNCHANGED <<texts, columns>> /\ screenStart' = 0
  BY <1>2 DEF PageUp
<1>4. /\ q \in Pager /\ Stands(q) /\ q.total = pager.total /\ q.enabled = pager.enabled
      /\ \A f \in Nat : SeenTo(pager, f) => Adjoins(q, f)
  BY <1>1, <1>2, PageStands
<1>5. frontier' \in Nat /\ (q.enabled => SeenTo(q, frontier') /\ ~skipped')  BY <1>1, <1>3, <1>4, LookAround
<1>6. QED  BY <1>3, <1>4, <1>5, PagerKeeps

\* The end of the output, and the empty screen.
LEMMA EndIsSeen ==
  ASSUME NEW p \in Pager, p.mode = "follow", p.top = TopMost(p)
  PROVE  SeenTo(p, p.total)
BY PagerTypes DEF SeenTo

LEMMA GoToEndKeeps ==
  ASSUME DisplayInv, GoToEnd \/ ClearScreen
  PROVE  DisplayInv'
<1>1. /\ pager \in Pager /\ (pager.enabled => ~skipped)  BY DEF DisplayInv
<1>2. PICK j : j = JumpToEnd(pager)  OBVIOUS
<1>3. /\ j \in Pager /\ Stands(j) /\ j.total = pager.total /\ j.height = pager.height
      /\ j.enabled = pager.enabled /\ j.mode = "follow" /\ j.end = pager.total /\ j.top = TopMost(pager)
  BY <1>1, <1>2, JumpStands
<1>4. PICK q : q = pager'  OBVIOUS
<1>5. /\ q = j \/ q = [j EXCEPT !.budget = pager.height]
      /\ frontier' = pager.total /\ skipped' = skipped
      /\ UNCHANGED <<texts, columns>> /\ screenStart' \in {0, screenStart, Len(texts)}
  BY <1>2, <1>4 DEF GoToEnd, ClearScreen
<1>6. /\ q \in Pager /\ q.total = pager.total /\ q.height = pager.height /\ q.enabled = pager.enabled
      /\ q.mode = "follow" /\ q.end = pager.total /\ q.top = TopMost(pager) /\ q.budget <= pager.height
  <2>1. pager.height \in Nat /\ pager.height # 0  BY <1>1, PagerTypes
  <2>2. CASE q = j  BY <1>3, <2>2 DEF Stands
  <2>3. CASE q = [j EXCEPT !.budget = pager.height]  BY <1>3, <2>1, <2>3 DEF Pager
  <2>4. QED  BY <1>5, <2>2, <2>3
<1>7. TopMost(q) = TopMost(pager)  BY <1>6 DEF TopMost
<1>8. Stands(q)  BY <1>1, <1>6, <1>7, PagerTypes DEF Stands
<1>9. SeenTo(q, frontier') /\ frontier' \in Nat  BY <1>1, <1>5, <1>6, <1>7, EndIsSeen, PagerTypes
<1>10. pager'.enabled => SeenTo(pager', frontier') /\ ~skipped'  BY <1>1, <1>4, <1>5, <1>6, <1>9
<1>11. QED  BY <1>4, <1>5, <1>6, <1>8, <1>9, <1>10, PagerKeeps

LEMMA RestoreScrollbackKeeps ==
  ASSUME DisplayInv, RestoreScrollback
  PROVE  DisplayInv'
<1>1. /\ pager \in Pager /\ Stands(pager) /\ frontier \in Nat
      /\ pager.enabled => SeenTo(pager, frontier) /\ ~skipped
  BY DEF DisplayInv
<1>2. UNCHANGED <<texts, columns, pager, frontier, skipped>> /\ screenStart' = 0  BY DEF RestoreScrollback
<1>3. QED  BY <1>1, <1>2, PagerKeeps

LEMMA DisplayInvStep ==
  ASSUME DisplayInv, [DisplayNext]_displayVars
  PROVE  DisplayInv'
<1>1. ASSUME NEW length \in Lengths, Receive(length) PROVE DisplayInv'  BY <1>1, ReceiveKeeps
<1>2. ASSUME NEW w \in Widths, NEW h \in Heights, Resize(w, h) PROVE DisplayInv'  BY <1>2, ResizeKeeps
<1>3. CASE PageDown  BY <1>3, PageDownKeeps
<1>4. CASE PageUp  BY <1>4, PageUpKeeps
<1>5. CASE GoToEnd \/ ClearScreen  BY <1>5, GoToEndKeeps
<1>6. CASE RestoreScrollback  BY <1>6, RestoreScrollbackKeeps
<1>7. CASE UNCHANGED displayVars  BY <1>7 DEF displayVars, DisplayInv, RowsAligned
<1>8. QED  BY <1>1, <1>2, <1>3, <1>4, <1>5, <1>6, <1>7 DEF DisplayNext

LEMMA DisplayInvIsSound ==
  ASSUME DisplayInv
  PROVE  PaneSound
<1>1. pager \in Pager /\ Stands(pager)  BY DEF DisplayInv
<1>2. PagerAgrees
  <2>1. /\ pager.total = TotalRows(texts) /\ pager.total <= MaxRows /\ screenStart <= Len(texts)
    BY DEF DisplayInv
  <2>2. QED  BY <1>1, <2>1 DEF PagerAgrees, Stands
<1>3. NothingSkipped /\ RowsAligned  BY DEF DisplayInv, NothingSkipped
<1>4. QED  BY <1>2, <1>3 DEF PaneSound

\* The output pane is sound (pager.py): with the pager on, no row leaves the top that was
\* never in the pane; the pager counts the rows kept, stands where its mode says and is never
\* paused with nothing more to show; and the rows of every entry are those that wrapping its
\* text again gives after its offset - whatever is received, and however the pane is paged,
\* scrolled, cleared and resized.
THEOREM PaneIsSound == DisplaySpec => []PaneSound
<1>1. DisplayInit => DisplayInv  BY DisplayInvHolds
<1>2. DisplayInv /\ [DisplayNext]_displayVars => DisplayInv'  BY DisplayInvStep
<1>3. DisplayInv => PaneSound  BY DisplayInvIsSound
<1>4. QED  BY <1>1, <1>2, <1>3, PTL DEF DisplaySpec

=============================================================================
