----------------------- MODULE ConfigurationSyncProofs -----------------------
(***************************************************************************)
(* Theorems about ConfigurationSync, for any number of UIs, keys, requests *)
(* and failures: what holds of the store alone holds of it among its UIs,  *)
(* and what the UIs see of it is always one of its documents.              *)
(***************************************************************************)
EXTENDS ConfigurationSync, ConfigurationStoreProofs, SequenceTheorems

(* Some document from revision n on is shown.                              *)
InRange(view, n) == \E r \in n .. document.revision : Shows(view, past[r].settings)

(* What a message or a UI says was a document, at the latest at the        *)
(* revision it names.                                                      *)
Truthful(m) ==
  /\ m.revision \in 0 .. document.revision
  /\ \E r \in 0 .. m.revision : Shows(m.view, past[r].settings)

(* The UIs the event loop still has to send its payload to.                *)
Todo == IF loop = None THEN {} ELSE loop.todo

(* What a UI has when it took every message under way to it.               *)
Recent(u) == IF inbox[u] = <<>> THEN effective[u] ELSE inbox[u][Len(inbox[u])]

(* Nothing but documents is under way, in the order of their revisions,    *)
(* and the last of them is recent enough, once the event loop sent it.     *)
Informed(u) ==
  /\ \A i \in DOMAIN inbox[u] : Truthful(inbox[u][i])
  /\ \A i, j \in DOMAIN inbox[u] : i <= j => inbox[u][i].revision <= inbox[u][j].revision
  /\ effective[u] # None =>
       /\ Truthful(effective[u])
       /\ \A i \in DOMAIN inbox[u] : effective[u].revision <= inbox[u][i].revision

Informing(u) ==
  /\ \A i \in DOMAIN acks[u] : acks[u][i].revision <= document.revision
  /\ report[u] # None => report[u] <= document.revision

Settling(u) ==
  /\ owed[u] <= document.revision
  /\ link[u] # "off" /\ u \notin Todo =>
       /\ inbox[u] = <<>> => effective[u] # None
       /\ InRange(Recent(u).view, owed[u])

LoopShows ==
  loop # None /\ loop.view # None => \A u \in loop.todo : InRange(loop.view, owed[u])

UisInv == \A u \in UIs : Informed(u) /\ Informing(u) /\ Settling(u)

StoreInv == IInv /\ Confirmed
SyncInv == StoreInv /\ SyncTypeOK /\ LoopShows /\ UisInv

-----------------------------------------------------------------------------
(* The store among its UIs.                                                *)

(* The answer of a request that nobody waits for any more.                 *)
Dropped(c) ==
  /\ request[c] # None /\ request[c].phase = "done"
  /\ request' = [request EXCEPT ![c] = None]
  /\ UNCHANGED <<disk, document, imported, migrated, crashes>>

(* An answer that nobody waits for.                                        *)
LEMMA DroppedInv ==
  ASSUME NEW c \in Callers, StoreInv, Dropped(c)
  PROVE  StoreInv' /\ VisibleStays
<1>1. Kept
  BY DEF Dropped, Kept, disk
<1>2. \A d \in Callers : request'[d] = IF d = c THEN None ELSE request[d]
  BY DEF Dropped, StoreInv, IInv, RestTypes
<1>3. request' \in [Callers -> Request \cup {None}]
  BY DEF Dropped, StoreInv, IInv, RestTypes
<1>4. RestTypes'
  BY <1>2, <1>3 DEF Dropped, StoreInv, IInv, RestTypes
<1>5. IInv'
  BY <1>1, <1>4, KeptInv DEF StoreInv, IInv
<1>6. Confirmed'
  <2> SUFFICES ASSUME NEW d \in Callers, request'[d] # None,
                      request'[d].phase \in {"committed", "done"}
               PROVE  LET made == past'[request'[d].expected + 1]
                      IN  /\ request'[d].expected < document'.revision
                          /\ made.by = d /\ made.kind = request'[d].kind
                          /\ request'[d].kind \in {"edit", "remove"} =>
                               made.settings = Overlay(past'[request'[d].expected].settings,
                                                       request'[d].change)
    BY DEF Confirmed
  <2>1. request'[d] = request[d] /\ past' = past /\ document' = document
    BY <1>2 DEF Dropped, disk
  <2> QED BY <2>1 DEF StoreInv, Confirmed
<1>7. VisibleStays
  <2>1. document' = document /\ past' = past
    BY DEF Dropped, disk
  <2>2. document.revision \in Nat /\ document.settings = past[document.revision].settings
    BY StoreAssumption DEF StoreInv, IInv, DiskInv, DiskTypes, DiskIsPast, Document, Revisions
  <2> QED BY <2>1, <2>2 DEF VisibleStays
<1> QED BY <1>5, <1>6, <1>7 DEF StoreInv

(* Steps that leave the store alone.                                       *)
LEMMA UnchangedInv ==
  ASSUME StoreInv, UNCHANGED storeVars
  PROVE  StoreInv' /\ VisibleStays
<1>1. IInv'
  BY NextInv DEF StoreInv
<1>2. Confirmed'
  BY DEF storeVars, disk, StoreInv, Confirmed
<1>3. VisibleStays
  <2>1. document' = document /\ past' = past
    BY DEF storeVars, disk
  <2>2. document.revision \in Nat /\ document.settings = past[document.revision].settings
    BY StoreAssumption DEF StoreInv, IInv, DiskInv, DiskTypes, DiskIsPast, Document, Revisions
  <2> QED BY <2>1, <2>2 DEF VisibleStays
<1> QED BY <1>1, <1>2, <1>3 DEF StoreInv

(* Steps of the store.                                                     *)
LEMMA StoreNextInv ==
  ASSUME StoreInv, StoreNext
  PROVE  StoreInv' /\ VisibleStays
<1>1. IInv /\ IInv'
  BY NextInv DEF StoreInv
<1>2. Confirmed'
  BY <1>1, NextConfirmed DEF StoreInv
<1>3. VisibleStays
  BY <1>1, StepVisible
<1> QED BY <1>1, <1>2, <1>3 DEF StoreInv

(* A connection that breaks ends a request like a refusal.                 *)
LEMMA BreakIsRefusal ==
  ASSUME NEW u \in UIs, Break(u)
  PROVE  UNCHANGED storeVars \/ StoreNext
<1>1. CASE request' = request
  BY <1>1 DEF Break, storeVars, disk
<1>2. CASE request' # request
  <2>1. /\ request[u] # None /\ request[u].phase = "asked"
        /\ request[u].kind \in {"remove", "import", "rollback-import"}
        /\ request' = [request EXCEPT ![u] = None]
        /\ LoopFree
        /\ UNCHANGED <<disk, document, imported, migrated, crashes>>
    BY <1>2 DEF Break, LoopIdle, disk
  <2>2. Refuse(u)
    BY <2>1 DEF Refuse, Fail, Is
  <2> QED BY <2>2 DEF StoreNext, Mutation, UIs
<1> QED BY <1>1, <1>2

(* Every step is a step of the store, or leaves it alone, or drops an      *)
(* answer: so all that was proved of the store holds here too.             *)
LEMMA StoreKeepsInv ==
  ASSUME StoreInv, [Next]_vars
  PROVE  StoreInv' /\ VisibleStays
<1>1. ASSUME NEW u \in UIs, UiAsks(u) \/ StoreStep(u)
      PROVE  StoreNext
  BY <1>1 DEF UiAsks, StoreStep, StoreNext, UIs
<1>2. ASSUME NEW u \in UIs, Publish(u)
      PROVE  StoreNext
  <2>1. Answer(u)
    BY <1>2 DEF Publish, Answer, LoopIdle, disk
  <2> QED BY <2>1 DEF StoreNext, UIs
<1>3. ASSUME NEW u \in UIs, Abandoned(u)
      PROVE  Dropped(u) \/ UNCHANGED storeVars
  <2>1. request \in [Callers -> Request \cup {None}]
    BY DEF StoreInv, IInv, RestTypes
  <2>2. CASE request[u] = None
    <3>1. request' = request
      BY <1>3, <2>1, <2>2 DEF Abandoned, UIs
    <3> QED BY <1>3, <3>1 DEF Abandoned, storeVars, disk
  <2>3. CASE request[u] # None
    BY <1>3, <2>3 DEF Abandoned, Dropped, disk
  <2> QED BY <2>2, <2>3
<1>4. ASSUME NEW u \in UIs,
             Greet(u) \/ Register(u) \/ TakeAck(u) \/ ReceiveHello(u) \/ ReceiveConfiguration(u)
      PROVE  UNCHANGED storeVars
  BY <1>4 DEF Greet, Register, TakeAck, ReceiveHello, ReceiveConfiguration
<1>5. ReadSettings \/ ReadRevision \/ UNCHANGED vars => UNCHANGED storeVars
  BY DEF ReadSettings, ReadRevision, vars
<1>6. GatewayDies => StoreNext
  BY DEF GatewayDies, StoreNext
<1> QED
  BY <1>1, <1>2, <1>3, <1>4, <1>5, <1>6, DroppedInv, UnchangedInv, StoreNextInv, BreakIsRefusal
     DEF Next, UIs
-----------------------------------------------------------------------------
(* What is under way.                                                      *)

(* The revisions are numbers and the document is one of the past.          *)
LEMMA Numbers ==
  ASSUME StoreInv
  PROVE  /\ MaxRevision \in Nat /\ Revisions = 0 .. MaxRevision
         /\ document.revision \in 0 .. MaxRevision
         /\ document.settings = past[document.revision].settings
         /\ document.settings \in Settings
BY StoreAssumption DEF StoreInv, IInv, DiskInv, DiskTypes, DiskIsPast, Document, Revisions

(* What was a document remains one.                                        *)
LEMMA TruthStays ==
  ASSUME StoreInv, StoreInv', VisibleStays
  PROVE  /\ document.revision <= document'.revision
         /\ \A m : Truthful(m) => Truthful(m)'
         /\ \A view : \A n \in Nat : InRange(view, n) => InRange(view, n)'
<1>1. /\ document.revision \in Nat /\ document'.revision \in Nat
      /\ document.revision <= document'.revision
  BY Numbers DEF VisibleStays, StoreInv, IInv, DiskInv, DiskTypes, Document, Revisions
<1>2. \A r \in 0 .. document.revision : past'[r] = past[r]
  BY DEF VisibleStays
<1>3. ASSUME NEW m, Truthful(m) PROVE Truthful(m)'
  <2>1. m.revision \in 0 .. document'.revision
    BY <1>1, <1>3 DEF Truthful
  <2>2. PICK r \in 0 .. m.revision : Shows(m.view, past[r].settings)
    BY <1>3 DEF Truthful
  <2>3. r \in 0 .. document.revision
    BY <1>1, <1>3, <2>2 DEF Truthful
  <2>4. Shows(m.view, past'[r].settings)
    BY <1>2, <2>2, <2>3
  <2> QED BY <2>1, <2>2, <2>4 DEF Truthful
<1>4. ASSUME NEW view, NEW n \in Nat, InRange(view, n) PROVE InRange(view, n)'
  <2>1. PICK r \in n .. document.revision : Shows(view, past[r].settings)
    BY <1>4 DEF InRange
  <2>2. r \in 0 .. document.revision /\ r \in n .. document'.revision
    BY <1>1, <2>1
  <2>3. Shows(view, past'[r].settings)
    BY <1>2, <2>1, <2>2
  <2> QED BY <2>2, <2>3 DEF InRange
<1> QED BY <1>1, <1>3, <1>4

(* A view of the document shows it.                                        *)
LEMMA ViewShows ==
  ASSUME SyncInv
  PROVE  /\ View(document.settings) \in Views
         /\ \A n \in 0 .. document.revision : InRange(View(document.settings), n)
<1>1. /\ document.settings \in Settings /\ document.settings = past[document.revision].settings
      /\ document.revision \in Nat
  BY Numbers DEF SyncInv
<1>2. Shows(View(document.settings), document.settings)
  BY DEF Shows, View
<1>3. View(document.settings) \in Views
  BY <1>1, SyncAssumption DEF SyncInv, SyncTypeOK, View, Views, Settings
<1>4. ASSUME NEW n \in 0 .. document.revision PROVE InRange(View(document.settings), n)
  <2>1. document.revision \in n .. document.revision
    BY <1>1
  <2> QED BY <1>1, <1>2, <2>1 DEF InRange
<1> QED BY <1>3, <1>4

-----------------------------------------------------------------------------
(* Types.                                                                  *)

(* The revision a confirmed request made is one.                           *)
LEMMA MadeIsVisible ==
  ASSUME StoreInv, NEW c \in Callers, request[c] # None, request[c].phase = "done"
  PROVE  request[c].expected + 1 \in 0 .. document.revision
<1>1. request[c].expected \in 0 .. MaxRevision
  BY Numbers DEF StoreInv, IInv, RestTypes, Request
<1>2. request[c].expected < document.revision
  BY DEF StoreInv, Confirmed
<1> QED BY <1>1, <1>2, Numbers

(* A new Gateway process.                                                  *)
LEMMA GatewayGoneTypes ==
  ASSUME SyncTypeOK, StoreInv', GatewayGone
  PROVE  SyncTypeOK'
<1>1. /\ stored'.settings \in Settings /\ 0 \in Revisions
  BY StoreAssumption DEF StoreInv, IInv, DiskInv, DiskTypes, Document, Revisions
<1>2. managed' \in [Shared -> Values \cup {Unset}]
  BY <1>1, SyncAssumption DEF GatewayGone, Settings
<1>3. /\ inbox' \in [UIs -> Seq(Messages)] /\ acks' \in [UIs -> Seq(Acks)]
      /\ link' \in [UIs -> {"off", "greeting", "on"}] /\ owed' \in [UIs -> Revisions]
  BY <1>1 DEF GatewayGone
<1> QED BY <1>2, <1>3 DEF GatewayGone, SyncTypeOK

(* Steps in which the event loop starts or ends something.                 *)
LEMMA LoopTypes ==
  ASSUME SyncInv, NEW u \in UIs, Greet(u) \/ Register(u) \/ Publish(u) \/ Abandoned(u)
  PROVE  SyncTypeOK'
<1>1. SyncTypeOK /\ StoreInv
  BY DEF SyncInv
<1>2. CASE Greet(u)
  <2>1. loop' \in Making
    BY <1>2 DEF Greet, Making
  <2> QED BY <1>1, <1>2, <2>1 DEF Greet, SyncTypeOK, uiVars
<1>3. CASE Register(u)
  BY <1>1, <1>3 DEF Register, SyncTypeOK, gatewayVars
<1>4. CASE Publish(u)
  <2>1. loop' \in Making \cup {None}
    BY <1>4 DEF Publish, Making, Participants
  <2>2. request[u].expected + 1 \in Revisions
    BY <1>1, <1>4, MadeIsVisible, Numbers DEF Publish, UIs
  <2>3. owed' \in [UIs -> Revisions]
    BY <1>1, <1>4, <2>2 DEF Publish, SyncTypeOK
  <2>4. managed' \in [Shared -> Values \cup {Unset}]
    BY <1>1, <1>4, Numbers, SyncAssumption DEF Publish, Synced, SyncTypeOK, Settings
  <2> QED BY <1>1, <1>4, <2>1, <2>3, <2>4 DEF Publish, SyncTypeOK
<1>5. CASE Abandoned(u)
  BY <1>1, <1>5 DEF Abandoned, SyncTypeOK, gatewayVars
<1> QED BY <1>2, <1>3, <1>4, <1>5

(* The two reads of a payload.                                             *)
LEMMA ReadTypes ==
  ASSUME SyncInv, ReadSettings \/ ReadRevision
  PROVE  SyncTypeOK'
<1>1. SyncTypeOK /\ StoreInv
  BY DEF SyncInv
<1>2. CASE ReadSettings
  <2>1. loop \in Making
    BY <1>1, <1>2 DEF ReadSettings, SyncTypeOK
  <2>2. loop' \in Making
    BY <1>2, <2>1, ViewShows DEF ReadSettings, Making
  <2> QED BY <1>1, <1>2, <2>2 DEF ReadSettings, SyncTypeOK, uiVars
<1>3. CASE ReadRevision
  <2>1. loop \in Making /\ loop.view \in Views
    BY <1>1, <1>3 DEF ReadRevision, SyncTypeOK, Making
  <2>2. PICK u \in loop.todo :
          /\ inbox' = [inbox EXCEPT ![u] = Append(@,
               [kind |-> loop.kind, revision |-> document.revision, view |-> loop.view])]
          /\ link' = IF loop.kind = "hello" THEN [link EXCEPT ![u] = "greeting"] ELSE link
          /\ loop' = IF loop.todo = {u} THEN None
                     ELSE [loop EXCEPT !.todo = @ \ {u}, !.view = None]
    BY <1>3 DEF ReadRevision
  <2>3. u \in UIs
    BY <2>1 DEF Making
  <2>4. [kind |-> loop.kind, revision |-> document.revision, view |-> loop.view] \in Messages
    BY <1>1, <2>1, Numbers DEF Messages, Making
  <2>5. inbox' \in [UIs -> Seq(Messages)]
    BY <1>1, <2>2, <2>3, <2>4, AppendProperties DEF SyncTypeOK
  <2>6. loop' \in Making \cup {None}
    BY <2>1, <2>2 DEF Making
  <2>7. link' \in [UIs -> {"off", "greeting", "on"}]
    BY <1>1, <2>2, <2>3 DEF SyncTypeOK
  <2> QED BY <1>1, <1>3, <2>5, <2>6, <2>7 DEF ReadRevision, SyncTypeOK
<1> QED BY <1>2, <1>3

(* Steps of the UIs.                                                       *)
LEMMA UiTypes ==
  ASSUME SyncInv, NEW u \in UIs,
         TakeAck(u) \/ ReceiveHello(u) \/ ReceiveConfiguration(u) \/ Break(u)
  PROVE  SyncTypeOK'
<1>1. SyncTypeOK /\ StoreInv
  BY DEF SyncInv
<1>2. CASE TakeAck(u)
  <2>1. acks[u] \in Seq(Acks) /\ acks[u] # <<>>
    BY <1>1, <1>2 DEF TakeAck, SyncTypeOK
  <2>2. Head(acks[u]) \in Acks /\ Tail(acks[u]) \in Seq(Acks)
    BY <2>1, HeadTailProperties
  <2>3. acks' \in [UIs -> Seq(Acks)]
    BY <1>1, <1>2, <2>2 DEF TakeAck, SyncTypeOK
  <2>4. report' \in [UIs -> Revisions \cup {None}]
    BY <1>1, <1>2, <2>2 DEF TakeAck, SyncTypeOK, Acks
  <2> QED BY <1>1, <1>2, <2>3, <2>4 DEF TakeAck, SyncTypeOK, gatewayVars
<1>3. CASE ReceiveHello(u) \/ ReceiveConfiguration(u)
  <2>1. inbox[u] \in Seq(Messages) /\ inbox[u] # <<>>
    BY <1>1, <1>3 DEF ReceiveHello, ReceiveConfiguration, SyncTypeOK
  <2>2. Head(inbox[u]) \in Messages /\ Tail(inbox[u]) \in Seq(Messages)
    BY <2>1, HeadTailProperties
  <2>3. Take(u, Head(inbox[u]))
    BY <1>3 DEF ReceiveHello, ReceiveConfiguration
  <2>4. inbox' \in [UIs -> Seq(Messages)]
    BY <1>1, <2>2, <2>3 DEF Take, SyncTypeOK
  <2>5. effective' \in [UIs -> Seen \cup {None}]
    <3>1. [revision |-> Head(inbox[u]).revision, view |-> Head(inbox[u]).view] \in Seen
      BY <2>2 DEF Messages, Seen
    <3> QED BY <1>1, <2>3, <3>1 DEF Take, SyncTypeOK
  <2>6. acks' = acks \/ \E a \in Acks : acks' = [acks EXCEPT ![u] = Append(@, a)]
    <3>1. \A s \in {"applied", "restart-required"} :
            [revision |-> Head(inbox[u]).revision, status |-> s] \in Acks
      BY <2>2 DEF Messages, Acks
    <3> QED BY <1>3, <3>1 DEF ReceiveHello, ReceiveConfiguration
  <2>7. acks' \in [UIs -> Seq(Acks)]
    <3>1. acks \in [UIs -> Seq(Acks)]
      BY <1>1 DEF SyncTypeOK
    <3>2. CASE acks' = acks
      BY <3>1, <3>2
    <3>3. ASSUME NEW a \in Acks, acks' = [acks EXCEPT ![u] = Append(@, a)]
          PROVE  acks' \in [UIs -> Seq(Acks)]
      <4>1. Append(acks[u], a) \in Seq(Acks)
        BY <3>1, AppendProperties
      <4> QED BY <3>1, <3>3, <4>1
    <3> QED BY <2>6, <3>2, <3>3
  <2> QED BY <1>1, <1>3, <2>4, <2>5, <2>7
          DEF ReceiveHello, ReceiveConfiguration, SyncTypeOK, gatewayVars
<1>4. CASE Break(u)
  <2>1. breaks' \in 0 .. MaxBreaks
    <3>1. crashes \in Nat /\ breaks \in Nat /\ MaxBreaks \in Nat
      BY <1>1, StoreAssumption, SyncAssumption DEF SyncTypeOK, StoreInv, IInv, RestTypes
    <3> QED BY <1>4, <3>1 DEF Break
  <2>2. 0 \in Revisions
    BY <1>1, Numbers
  <2>3. /\ inbox' \in [UIs -> Seq(Messages)] /\ acks' \in [UIs -> Seq(Acks)]
        /\ link' \in [UIs -> {"off", "greeting", "on"}] /\ owed' \in [UIs -> Revisions]
    BY <1>1, <1>4, <2>2 DEF Break, SyncTypeOK
  <2>4. orphans' \subseteq UIs
    BY <1>1, <1>4 DEF Break, SyncTypeOK
  <2>5. effective' \in [UIs -> Seen \cup {None}]
    BY <1>1, <1>4 DEF Break, SyncTypeOK
  <2> QED BY <1>1, <1>4, <2>1, <2>3, <2>4, <2>5 DEF Break, SyncTypeOK, gatewayVars
<1> QED BY <1>2, <1>3, <1>4

(* Every step keeps the types.                                             *)
LEMMA SyncTypes ==
  ASSUME SyncInv, StoreInv', [Next]_vars
  PROVE  SyncTypeOK'
<1>1. SyncTypeOK
  BY DEF SyncInv
<1>2. CASE UNCHANGED <<gatewayVars, uiVars>>
  BY <1>1, <1>2 DEF gatewayVars, uiVars, SyncTypeOK
<1>3. ASSUME NEW u \in UIs, UiAsks(u) \/ StoreStep(u)
      PROVE  SyncTypeOK'
  BY <1>1, <1>2, <1>3, GatewayGoneTypes DEF UiAsks, StoreStep, Unaffected
<1>4. GatewayDies => SyncTypeOK'
  BY <1>1, GatewayGoneTypes DEF GatewayDies
<1>5. UNCHANGED vars => SyncTypeOK'
  BY <1>2 DEF vars
<1> QED
  BY <1>3, <1>4, <1>5, LoopTypes, ReadTypes, UiTypes DEF Next

-----------------------------------------------------------------------------
(* What every UI has and is sent.                                          *)

(* A UI a step leaves alone, or whose connection ends with it.             *)
LEMMA UiLeftAlone ==
  ASSUME SyncInv, StoreInv', VisibleStays, NEW u \in UIs,
         inbox'[u] \in {inbox[u], <<>>}, effective'[u] \in {effective[u], None},
         acks'[u] \in {acks[u], <<>>}, report'[u] = report[u],
         owed'[u] <= document'.revision,
         link'[u] # "off" /\ u \notin Todo' =>
           /\ link[u] # "off" /\ u \notin Todo /\ inbox'[u] = inbox[u]
           /\ effective'[u] = effective[u] /\ owed'[u] = owed[u]
  PROVE  (Informed(u) /\ Informing(u) /\ Settling(u))'
<1>1. /\ Informed(u) /\ Informing(u) /\ Settling(u)
      /\ inbox[u] \in Seq(Messages) /\ acks[u] \in Seq(Acks)
      /\ report[u] \in Revisions \cup {None} /\ owed[u] \in Revisions
  BY DEF SyncInv, UisInv, SyncTypeOK
<1>2. /\ document.revision \in Nat /\ document'.revision \in Nat
      /\ document.revision <= document'.revision
      /\ \A m : Truthful(m) => Truthful(m)'
      /\ \A view : \A n \in Nat : InRange(view, n) => InRange(view, n)'
      /\ Revisions \subseteq Nat
  BY Numbers, TruthStays DEF SyncInv, StoreInv, IInv, DiskInv, DiskTypes, Document, Revisions
<1>3. Informed(u)'
  <2>1. CASE inbox'[u] = inbox[u]
    BY <1>1, <1>2, <2>1 DEF Informed
  <2>2. CASE inbox'[u] = <<>>
    <3>1. DOMAIN inbox'[u] = {}
      BY <2>2
    <3> QED BY <1>1, <1>2, <3>1 DEF Informed
  <2> QED BY <2>1, <2>2
<1>4. Informing(u)'
  <2>1. \A i \in DOMAIN acks'[u] : acks'[u][i].revision <= document'.revision
    <3>1. CASE acks'[u] = <<>>
      BY <3>1
    <3>2. CASE acks'[u] = acks[u]
      <4> SUFFICES ASSUME NEW i \in DOMAIN acks[u]
                   PROVE  acks[u][i].revision <= document'.revision
        BY <3>2
      <4>1. acks[u][i] \in Acks
        BY <1>1, ElementOfSeq
      <4>2. acks[u][i].revision \in Nat /\ acks[u][i].revision <= document.revision
        BY <1>1, <1>2, <4>1 DEF Informing, Acks
      <4> QED BY <1>2, <4>2
    <3> QED BY <3>1, <3>2
  <2>2. report'[u] # None => report'[u] <= document'.revision
    <3> SUFFICES ASSUME report[u] # None PROVE report[u] <= document'.revision
      BY <1>1
    <3>1. report[u] \in Nat
      BY <1>1, <1>2
    <3>2. report[u] <= document.revision
      BY <1>1 DEF Informing
    <3> QED BY <1>2, <3>1, <3>2
  <2> QED BY <2>1, <2>2 DEF Informing
<1>5. Settling(u)'
  <2> SUFFICES ASSUME link'[u] # "off", u \notin Todo'
               PROVE  /\ inbox'[u] = <<>> => effective'[u] # None
                      /\ InRange(Recent(u).view, owed[u])'
    BY DEF Settling
  <2>1. /\ inbox'[u] = inbox[u] /\ effective'[u] = effective[u] /\ owed'[u] = owed[u]
        /\ inbox[u] = <<>> => effective[u] # None
        /\ InRange(Recent(u).view, owed[u])
    BY <1>1 DEF Settling
  <2>2. PICK view, n : view = Recent(u).view /\ n = owed[u]
    OBVIOUS
  <2>3. InRange(view, n)'
    <3>1. n \in Nat /\ InRange(view, n)
      BY <1>1, <1>2, <2>1, <2>2
    <3> QED BY <1>2, <3>1
  <2>4. Recent(u)' = Recent(u)
    BY <2>1 DEF Recent
  <2> QED BY <2>1, <2>2, <2>3, <2>4 DEF InRange
<1> QED BY <1>3, <1>4, <1>5

(* What is owed to a UI is a revision that readers see.                    *)
LEMMA OwedIsVisible ==
  ASSUME SyncInv, StoreInv', VisibleStays, NEW u \in UIs
  PROVE  /\ owed[u] \in Nat /\ owed[u] <= document.revision /\ owed[u] <= document'.revision
         /\ document'.revision \in Nat /\ 0 <= document'.revision
<1>1. owed[u] \in Revisions /\ owed[u] <= document.revision
  BY DEF SyncInv, UisInv, Settling, SyncTypeOK
<1>2. /\ document.revision \in Nat /\ document'.revision \in Nat /\ Revisions \subseteq Nat
      /\ document.revision <= document'.revision
  BY Numbers, TruthStays DEF SyncInv, StoreInv, IInv, DiskInv, DiskTypes, Document, Revisions
<1>3. owed[u] \in Nat
  BY <1>1, <1>2
<1> QED BY <1>1, <1>2, <1>3

(* Nobody's view is touched, nor what the loop still has to do.            *)
LEMMA NobodyConcerned ==
  ASSUME SyncInv, StoreInv', VisibleStays, loop' = loop,
         UNCHANGED <<inbox, effective, acks, report, owed>>,
         \A u \in UIs : link'[u] # "off" => link[u] # "off"
  PROVE  LoopShows' /\ UisInv'
<1>1. ASSUME NEW u \in UIs
      PROVE  (Informed(u) /\ Informing(u) /\ Settling(u))'
  <2>1. Todo' = Todo
    BY DEF Todo
  <2> QED BY <2>1, OwedIsVisible, UiLeftAlone
<1>2. LoopShows'
  <2> SUFFICES ASSUME loop # None, loop.view # None, NEW u \in loop.todo
               PROVE  InRange(loop.view, owed[u])'
    BY DEF LoopShows
  <2>1. u \in UIs
    BY DEF SyncInv, SyncTypeOK, Making
  <2>2. PICK view, n : view = loop.view /\ n = owed[u]
    OBVIOUS
  <2>3. InRange(view, n)'
    <3>1. n \in Nat /\ InRange(view, n)
      BY <2>1, <2>2, OwedIsVisible DEF SyncInv, LoopShows
    <3> QED BY <3>1, TruthStays DEF SyncInv
  <2> QED BY <2>2, <2>3 DEF InRange
<1> QED BY <1>1, <1>2 DEF UisInv

(* A new Gateway process has no connections.                               *)
LEMMA GatewayGoneViews ==
  ASSUME SyncInv, StoreInv', VisibleStays, GatewayGone
  PROVE  LoopShows' /\ UisInv'
<1>1. ASSUME NEW u \in UIs
      PROVE  (Informed(u) /\ Informing(u) /\ Settling(u))'
  <2>1. /\ inbox'[u] = <<>> /\ acks'[u] = <<>> /\ link'[u] = "off" /\ owed'[u] = 0
        /\ effective'[u] = effective[u] /\ report'[u] = report[u]
    BY <1>1 DEF GatewayGone
  <2> QED BY <2>1, OwedIsVisible, UiLeftAlone
<1>2. LoopShows'
  BY DEF GatewayGone, LoopShows
<1> QED BY <1>1, <1>2 DEF UisInv

(* A payload that is started names nobody whose view it spoils.            *)
LEMMA StartViews ==
  ASSUME SyncInv, StoreInv', VisibleStays, NEW u \in UIs, Greet(u) \/ Publish(u)
  PROVE  LoopShows' /\ UisInv'
<1>1. SyncTypeOK /\ StoreInv
  BY DEF SyncInv
<1>2. UNCHANGED <<inbox, effective, acks, report, link>> /\ loop = None
  BY DEF Greet, Publish, LoopIdle, uiVars
<1>3. LoopShows'
  BY DEF Greet, Publish, LoopShows
<1>4. CASE Greet(u)
  <2>1. owed' = owed /\ Todo' = {u} /\ Todo = {} /\ link[u] = "off"
    <3>1. [kind |-> "hello", todo |-> {u}, view |-> None] \in Making
      BY DEF Making
    <3>2. loop' # None /\ loop'.todo = {u}
      BY <1>4, <3>1, NotNone DEF Greet
    <3> QED BY <1>4, <1>2, <3>2 DEF Greet, uiVars, Todo
  <2>2. ASSUME NEW w \in UIs
        PROVE  (Informed(w) /\ Informing(w) /\ Settling(w))'
    BY <1>2, <2>1, OwedIsVisible, UiLeftAlone
  <2> QED BY <1>3, <2>2 DEF UisInv
<1>5. CASE Publish(u)
  <2>1. request[u].expected + 1 \in 0 .. document.revision /\ document' = document
    BY <1>1, <1>5, MadeIsVisible DEF Publish, UIs
  <2>2. owed' = [w \in UIs |-> IF link[w] = "on" THEN request[u].expected + 1 ELSE owed[w]]
    BY <1>5 DEF Publish
  <2>3. \A w \in UIs : w \notin Todo' => link[w] # "on"
    <3>1. Participants # {} =>
            [kind |-> "configuration", todo |-> Participants, view |-> None] \in Making
      BY DEF Making, Participants
    <3>2. Participants # {} => loop' # None /\ loop'.todo = Participants
      BY <1>5, <3>1, NotNone DEF Publish
    <3> QED BY <3>2 DEF Todo, Participants
  <2>4. ASSUME NEW w \in UIs
        PROVE  (Informed(w) /\ Informing(w) /\ Settling(w))'
    <3>1. owed'[w] <= document'.revision
      BY <2>1, <2>2, OwedIsVisible
    <3>2. w \notin Todo' => owed'[w] = owed[w] /\ w \notin Todo
      BY <1>2, <2>2, <2>3 DEF Todo
    <3> QED BY <1>2, <3>1, <3>2, UiLeftAlone
  <2> QED BY <1>3, <2>4 DEF UisInv
<1> QED BY <1>4, <1>5

(* What a sent message adds to those under way.                            *)
LEMMA SentViews ==
  ASSUME SyncInv, StoreInv', VisibleStays, document' = document, NEW u \in UIs,
         NEW message \in Messages,
         message.revision = document.revision, InRange(message.view, owed[u]),
         inbox'[u] = Append(inbox[u], message),
         effective' = effective, acks' = acks, report' = report, owed' = owed
  PROVE  (Informed(u) /\ Informing(u) /\ Settling(u))'
<1>1. /\ Informed(u) /\ Informing(u) /\ Settling(u)
      /\ inbox[u] \in Seq(Messages) /\ Len(inbox[u]) \in Nat
      /\ DOMAIN inbox[u] = 1 .. Len(inbox[u])
  BY LenProperties DEF SyncInv, UisInv, SyncTypeOK
<1>2. /\ document.revision \in Nat /\ owed[u] \in Nat
      /\ \A m : Truthful(m) => Truthful(m)'
      /\ InRange(message.view, owed[u])'
  <2>1. document.revision \in Nat /\ owed[u] \in Nat
    BY Numbers, OwedIsVisible DEF SyncInv
  <2>2. PICK n : n = owed[u]
    OBVIOUS
  <2>3. InRange(message.view, n)'
    BY <2>1, <2>2, TruthStays DEF SyncInv
  <2> QED BY <2>1, <2>2, <2>3, TruthStays DEF SyncInv, InRange
<1> DEFINE q == Append(inbox[u], message)
           n == Len(inbox[u])
<1>3. Len(q) = n + 1 /\ DOMAIN q = 1 .. n + 1
  BY <1>1, AppendProperties
<1>4. (\A i \in 1 .. n : q[i] = inbox[u][i]) /\ q[n + 1] = message
  BY <1>1, AppendProperties
<1>5. Truthful(message)
  <2>1. PICK r \in owed[u] .. document.revision : Shows(message.view, past[r].settings)
    BY DEF InRange
  <2>2. r \in 0 .. message.revision
    BY <1>2, <2>1
  <2> QED BY <1>2, <2>1, <2>2 DEF Truthful
<1> HIDE DEF q
<1>6. Informed(u)'
  <2>1. \A i \in DOMAIN q : Truthful(q[i])
    BY <1>1, <1>3, <1>4, <1>5 DEF Informed
  <2>2. \A i \in DOMAIN q : q[i].revision \in Nat /\ q[i].revision <= document.revision
    BY <1>2, <2>1 DEF Truthful
  <2>3. \A i, j \in DOMAIN q : i <= j => q[i].revision <= q[j].revision
    <3> SUFFICES ASSUME NEW i \in DOMAIN q, NEW j \in DOMAIN q, i <= j
                 PROVE  q[i].revision <= q[j].revision
      OBVIOUS
    <3>1. CASE j = n + 1
      BY <1>2, <1>4, <2>2, <3>1
    <3>2. CASE j # n + 1
      <4>1. i \in 1 .. n /\ j \in 1 .. n
        BY <1>1, <1>3, <3>2
      <4> QED BY <1>1, <1>4, <4>1 DEF Informed
    <3> QED BY <3>1, <3>2
  <2>4. ASSUME effective[u] # None, NEW i \in DOMAIN q
        PROVE  effective[u].revision <= q[i].revision
    <3>1. effective[u].revision \in Nat /\ effective[u].revision <= document.revision
      BY <1>1, <1>2, <2>4 DEF Informed, Truthful
    <3>2. CASE i = n + 1
      BY <1>4, <3>1, <3>2
    <3>3. CASE i # n + 1
      <4>1. i \in 1 .. n
        BY <1>1, <1>3, <3>3
      <4> QED BY <1>1, <1>4, <2>4, <4>1 DEF Informed
    <3> QED BY <3>2, <3>3
  <2>5. inbox'[u] = q /\ effective'[u] = effective[u]
    BY DEF q
  <2> QED BY <1>1, <1>2, <2>1, <2>3, <2>4, <2>5 DEF Informed
<1>7. Informing(u)'
  BY <1>1 DEF Informing
<1>8. Settling(u)'
  <2>1. inbox'[u] = q /\ q # <<>>
    <3>1. q # <<>>
      BY <1>1, <1>3
    <3> QED BY <3>1 DEF q
  <2>2. Recent(u)' = message
    BY <1>3, <1>4, <2>1 DEF Recent
  <2>3. owed'[u] <= document'.revision
    BY <1>1 DEF Settling
  <2> QED BY <1>2, <2>1, <2>2, <2>3 DEF Settling, InRange
<1> QED BY <1>6, <1>7, <1>8

(* The two reads of a payload, between which a thread may commit.          *)
LEMMA ReadViews ==
  ASSUME SyncInv, StoreInv', VisibleStays, ReadSettings \/ ReadRevision
  PROVE  LoopShows' /\ UisInv'
<1>1. SyncTypeOK /\ StoreInv /\ loop \in Making /\ loop # None
  BY DEF SyncInv, SyncTypeOK, ReadSettings, ReadRevision
<1>2. document' = document /\ past' = past
  BY DEF ReadSettings, ReadRevision, storeVars, disk
<1>3. CASE ReadSettings
  <2>1. /\ loop' = [loop EXCEPT !.view = View(document.settings)]
        /\ UNCHANGED <<inbox, effective, acks, report, link, owed>>
    BY <1>3 DEF ReadSettings, uiVars
  <2>2. loop'.todo = loop.todo /\ loop'.view = View(document.settings) /\ loop' # None
    <3>1. loop' \in Making /\ loop'.todo = loop.todo /\ loop'.view = View(document.settings)
      BY <1>1, <2>1, ViewShows DEF Making
    <3> QED BY <3>1, NotNone
  <2>3. ASSUME NEW u \in UIs
        PROVE  (Informed(u) /\ Informing(u) /\ Settling(u))'
    <3>1. Todo' = Todo
      BY <1>1, <2>2 DEF Todo
    <3> QED BY <2>1, <3>1, OwedIsVisible, UiLeftAlone
  <2>4. LoopShows'
    <3> SUFFICES ASSUME NEW u \in loop.todo PROVE InRange(loop.view, owed[u])'
      BY <2>2 DEF LoopShows
    <3>1. u \in UIs
      BY <1>1 DEF Making
    <3>2. owed[u] \in 0 .. document.revision
      BY <3>1, OwedIsVisible, Numbers DEF SyncInv
    <3>3. InRange(View(document.settings), owed[u])
      BY <3>2, ViewShows
    <3> QED BY <1>2, <2>1, <2>2, <3>3 DEF InRange
  <2> QED BY <2>3, <2>4 DEF UisInv
<1>4. CASE ReadRevision
  <2>1. PICK u \in loop.todo :
          /\ inbox' = [inbox EXCEPT ![u] = Append(@,
               [kind |-> loop.kind, revision |-> document.revision, view |-> loop.view])]
          /\ link' = IF loop.kind = "hello" THEN [link EXCEPT ![u] = "greeting"] ELSE link
          /\ loop' = IF loop.todo = {u} THEN None
                     ELSE [loop EXCEPT !.todo = @ \ {u}, !.view = None]
    BY <1>4 DEF ReadRevision
  <2>2. /\ loop.view # None /\ loop.view \in Views /\ u \in UIs
        /\ UNCHANGED <<effective, acks, report, owed>>
    BY <1>1, <1>4, <2>1 DEF ReadRevision, Making
  <2>3. Todo' = Todo \ {u} /\ LoopShows'
    <3>1. CASE loop.todo = {u}
      BY <1>1, <2>1, <3>1 DEF Todo, LoopShows
    <3>2. CASE loop.todo # {u}
      <4>1. loop' \in Making /\ loop'.todo = loop.todo \ {u} /\ loop'.view = None
        BY <1>1, <2>1, <3>2 DEF Making
      <4> QED BY <1>1, <4>1, NotNone DEF Todo, LoopShows
    <3> QED BY <3>1, <3>2
  <2>4. (Informed(u) /\ Informing(u) /\ Settling(u))'
    <3> DEFINE message == [kind |-> loop.kind, revision |-> document.revision, view |-> loop.view]
    <3>1. message \in Messages
      BY <1>1, <2>2, Numbers DEF Messages, Making
    <3>2. InRange(loop.view, owed[u])
      BY <1>1, <2>1, <2>2 DEF SyncInv, LoopShows
    <3>3. inbox'[u] = Append(inbox[u], message)
      BY <1>1, <2>1, <2>2 DEF SyncTypeOK
    <3>4. message.revision = document.revision /\ message.view = loop.view
      OBVIOUS
    <3> HIDE DEF message
    <3> QED BY <1>2, <2>2, <3>1, <3>2, <3>3, <3>4, SentViews
  <2>5. ASSUME NEW w \in UIs, w # u
        PROVE  (Informed(w) /\ Informing(w) /\ Settling(w))'
    <3>1. inbox'[w] = inbox[w] /\ link'[w] = link[w] /\ (w \notin Todo' => w \notin Todo)
      BY <1>1, <2>1, <2>3, <2>5 DEF SyncTypeOK
    <3> QED BY <2>2, <3>1, OwedIsVisible, UiLeftAlone
  <2> QED BY <2>3, <2>4, <2>5 DEF UisInv
<1> QED BY <1>3, <1>4

(* A message that is taken becomes what the UI has.                        *)
LEMMA TakenViews ==
  ASSUME SyncInv, StoreInv', VisibleStays, NEW u \in UIs, document' = document,
         inbox[u] # <<>>, Take(u, Head(inbox[u])),
         acks'[u] = acks[u] \/ \E s : acks'[u] = Append(acks[u],
                                  [revision |-> Head(inbox[u]).revision, status |-> s]),
         loop' = loop, UNCHANGED <<link, report, owed>>
  PROVE  (Informed(u) /\ Informing(u) /\ Settling(u))'
<1> DEFINE q == Tail(inbox[u])
           n == Len(inbox[u])
           m == Head(inbox[u])
<1>1. /\ Informed(u) /\ Informing(u) /\ Settling(u) /\ SyncTypeOK
      /\ inbox[u] \in Seq(Messages) /\ n \in Nat /\ n > 0 /\ DOMAIN inbox[u] = 1 .. n
      /\ acks[u] \in Seq(Acks) /\ document.revision \in Nat
  BY LenProperties, EmptySeq, Numbers DEF SyncInv, UisInv, SyncTypeOK
<1>2. q \in Seq(Messages) /\ Len(q) = n - 1 /\ DOMAIN q = 1 .. n - 1 /\ m = inbox[u][1]
  BY <1>1, HeadTailProperties, LenProperties
<1>3. \A i \in 1 .. n - 1 : q[i] = inbox[u][i + 1]
  BY <1>1, HeadTailProperties
<1>4. /\ inbox'[u] = q
      /\ effective'[u] = [revision |-> m.revision, view |-> m.view]
  BY <1>1 DEF Take, SyncTypeOK
<1>5. /\ effective'[u] # None
      /\ effective'[u].revision = m.revision /\ effective'[u].view = m.view
  <2>1. m \in Messages
    BY <1>1, HeadTailProperties
  <2>2. [revision |-> m.revision, view |-> m.view] \in Seen
    BY <2>1 DEF Messages, Seen
  <2> QED BY <1>4, <2>2, NotNone
<1>6. \A v : Truthful(v) => Truthful(v)'
  BY TruthStays DEF SyncInv
<1>7. Truthful(m)
  BY <1>1, <1>2 DEF Informed
<1> HIDE DEF q, m, n
<1>8. Informed(u)'
  <2>1. \A i \in DOMAIN q : i + 1 \in DOMAIN inbox[u] /\ q[i] = inbox[u][i + 1] /\ i \in Nat
    BY <1>1, <1>2, <1>3
  <2>2. \A i \in DOMAIN q : Truthful(q[i])
    BY <1>1, <2>1 DEF Informed
  <2>3. \A i, j \in DOMAIN q : i <= j => q[i].revision <= q[j].revision
    <3> SUFFICES ASSUME NEW i \in DOMAIN q, NEW j \in DOMAIN q, i <= j
                 PROVE  q[i].revision <= q[j].revision
      OBVIOUS
    <3>1. i + 1 <= j + 1 /\ i + 1 \in DOMAIN inbox[u] /\ j + 1 \in DOMAIN inbox[u]
      BY <2>1
    <3>2. inbox[u][i + 1].revision <= inbox[u][j + 1].revision
      BY <1>1, <3>1 DEF Informed
    <3> QED BY <2>1, <3>2
  <2>4. \A i \in DOMAIN q : m.revision <= q[i].revision
    <3> SUFFICES ASSUME NEW i \in DOMAIN q PROVE m.revision <= q[i].revision
      OBVIOUS
    <3>1. 1 <= i + 1 /\ 1 \in DOMAIN inbox[u] /\ i + 1 \in DOMAIN inbox[u]
      BY <1>1, <2>1
    <3>2. inbox[u][1].revision <= inbox[u][i + 1].revision
      BY <1>1, <3>1 DEF Informed
    <3> QED BY <1>2, <2>1, <3>2
  <2>5. Truthful(effective'[u])
    BY <1>5, <1>7 DEF Truthful
  <2> QED BY <1>4, <1>5, <1>6, <2>2, <2>3, <2>4, <2>5 DEF Informed
<1>9. Informing(u)'
  <2>1. report'[u] # None => report'[u] <= document'.revision
    BY <1>1 DEF Informing
  <2>2. CASE acks'[u] = acks[u]
    BY <1>1, <2>1, <2>2 DEF Informing
  <2>3. CASE acks'[u] # acks[u]
    <3>1. PICK a : acks'[u] = Append(acks[u], a) /\ a.revision = m.revision
      <4>1. PICK s : acks'[u] = Append(acks[u], [revision |-> Head(inbox[u]).revision, status |-> s])
        BY <2>3
      <4>2. [revision |-> Head(inbox[u]).revision, status |-> s].revision = m.revision
        BY DEF m
      <4> QED BY <4>1, <4>2
    <3>2. m.revision <= document.revision
      BY <1>1, <1>7 DEF Truthful
    <3>3. /\ DOMAIN acks'[u] = 1 .. Len(acks[u]) + 1 /\ Len(acks[u]) \in Nat
          /\ DOMAIN acks[u] = 1 .. Len(acks[u])
          /\ \A i \in 1 .. Len(acks[u]) : acks'[u][i] = acks[u][i]
          /\ acks'[u][Len(acks[u]) + 1] = a
      BY <1>1, <3>1
    <3>4. ASSUME NEW i \in DOMAIN acks'[u] PROVE acks'[u][i].revision <= document'.revision
      <4>1. CASE i = Len(acks[u]) + 1
        BY <3>1, <3>2, <3>3, <4>1
      <4>2. CASE i # Len(acks[u]) + 1
        <5>1. i \in DOMAIN acks[u]
          BY <3>3, <4>2
        <5> QED BY <1>1, <3>3, <5>1 DEF Informing
      <4> QED BY <4>1, <4>2
    <3> QED BY <2>1, <3>4 DEF Informing
  <2> QED BY <2>2, <2>3
<1>10. Settling(u)'
  <2>1. owed'[u] <= document'.revision
    BY <1>1 DEF Settling
  <2>2. Todo' = Todo
    BY DEF Todo
  <2>3. Recent(u)'.view = Recent(u).view
    <3>1. Recent(u) = inbox[u][n]
      BY DEF Recent, n
    <3>2. CASE q = <<>>
      <4>1. Len(q) = 0
        BY <3>2
      <4>2. n = 1
        BY <1>1, <1>2, <4>1
      <4>3. Recent(u)' = effective'[u]
        BY <1>4, <3>2 DEF Recent
      <4> QED BY <1>2, <1>5, <3>1, <4>2, <4>3
    <3>3. CASE q # <<>>
      <4>1. Len(q) # 0
        BY <1>2, <3>3, EmptySeq
      <4>2. n - 1 \in 1 .. n - 1 /\ n - 1 + 1 = n
        BY <1>1, <1>2, <4>1
      <4>3. q[Len(q)] = inbox[u][n]
        BY <1>2, <1>3, <4>2
      <4>4. Recent(u)' = q[Len(q)]
        BY <1>4, <3>3 DEF Recent
      <4> QED BY <3>1, <4>3, <4>4
    <3> QED BY <3>2, <3>3
  <2> SUFFICES ASSUME link'[u] # "off", u \notin Todo'
               PROVE  /\ inbox'[u] = <<>> => effective'[u] # None
                      /\ InRange(Recent(u).view, owed[u])'
    BY <2>1 DEF Settling
  <2>4. InRange(Recent(u).view, owed[u])
    BY <1>1, <2>2 DEF Settling
  <2>5. PICK view, k : view = Recent(u).view /\ k = owed[u] /\ k \in Nat
    BY OwedIsVisible
  <2>6. InRange(view, k)'
    BY <2>4, <2>5, TruthStays DEF SyncInv
  <2> QED BY <1>5, <2>3, <2>5, <2>6 DEF InRange
<1> QED BY <1>8, <1>9, <1>10

(* Steps of the UIs.                                                       *)
LEMMA UiViews ==
  ASSUME SyncInv, StoreInv', VisibleStays, NEW u \in UIs,
         TakeAck(u) \/ ReceiveHello(u) \/ ReceiveConfiguration(u) \/ Break(u)
  PROVE  LoopShows' /\ UisInv'
<1>1. SyncTypeOK /\ StoreInv
  BY DEF SyncInv
<1>2. document' = document /\ past' = past /\ loop' = loop
  BY DEF TakeAck, ReceiveHello, ReceiveConfiguration, Break, storeVars, disk, gatewayVars
<1>3. Todo' = Todo
  BY <1>2 DEF Todo
<1>4. owed' = owed \/ (loop = None /\ \A w \in UIs : w # u => owed'[w] = owed[w])
  BY <1>1 DEF TakeAck, ReceiveHello, ReceiveConfiguration, Break, LoopIdle, SyncTypeOK
<1>5. LoopShows'
  BY <1>2, <1>4 DEF SyncInv, LoopShows, InRange
<1>6. ASSUME NEW w \in UIs, w # u
      PROVE  (Informed(w) /\ Informing(w) /\ Settling(w))'
  <2>1. /\ inbox'[w] = inbox[w] /\ effective'[w] = effective[w] /\ acks'[w] = acks[w]
        /\ report'[w] = report[w] /\ link'[w] = link[w] /\ owed'[w] = owed[w]
    <3>1. CASE TakeAck(u)
      BY <1>1, <1>6, <3>1 DEF TakeAck, SyncTypeOK
    <3>2. CASE ReceiveHello(u)
      BY <1>1, <1>6, <3>2 DEF ReceiveHello, Take, SyncTypeOK
    <3>3. CASE ReceiveConfiguration(u)
      BY <1>1, <1>6, <3>3 DEF ReceiveConfiguration, Take, SyncTypeOK
    <3>4. CASE Break(u)
      BY <1>1, <1>6, <3>4 DEF Break, SyncTypeOK
    <3> QED BY <3>1, <3>2, <3>3, <3>4
  <2> QED BY <1>3, <2>1, OwedIsVisible, UiLeftAlone
<1>7. (Informed(u) /\ Informing(u) /\ Settling(u))'
  <2>1. CASE TakeAck(u)
    <3>1. Informed(u) /\ Informing(u) /\ Settling(u) /\ document.revision \in Nat
      BY <1>1, Numbers DEF SyncInv, UisInv
    <3>2. UNCHANGED <<inbox, effective, owed, link>>
      BY <2>1 DEF TakeAck
    <3>3. Informed(u)'
      BY <1>2, <3>1, <3>2 DEF Informed, Truthful
    <3>4. Settling(u)'
      BY <1>2, <1>3, <3>1, <3>2 DEF Settling, Recent, InRange
    <3>5. /\ acks[u] \in Seq(Acks) /\ acks[u] # <<>> /\ acks'[u] = Tail(acks[u])
          /\ Len(acks[u]) \in Nat /\ DOMAIN acks[u] = 1 .. Len(acks[u])
      BY <1>1, <2>1, LenProperties DEF TakeAck, SyncTypeOK
    <3>6. Tail(acks[u]) \in Seq(Acks) /\ Len(Tail(acks[u])) = Len(acks[u]) - 1
      BY <3>5, HeadTailProperties
    <3>7. \A i \in 1 .. Len(Tail(acks[u])) : acks'[u][i] = acks[u][i + 1]
      BY <3>5, HeadTailProperties
    <3>8. DOMAIN acks'[u] = 1 .. Len(acks[u]) - 1
      BY <3>5, <3>6, LenProperties
    <3>9. ASSUME NEW i \in DOMAIN acks'[u] PROVE acks'[u][i].revision <= document'.revision
      <4>1. i + 1 \in DOMAIN acks[u] /\ acks'[u][i] = acks[u][i + 1]
        BY <3>5, <3>6, <3>7, <3>8
      <4> QED BY <1>2, <3>1, <4>1 DEF Informing
    <3>10. report'[u] # None => report'[u] <= document'.revision
      BY <1>1, <1>2, <2>1, <3>1 DEF TakeAck, SyncTypeOK, Informing
    <3> QED BY <3>3, <3>4, <3>9, <3>10 DEF Informing
  <2>2. CASE ReceiveHello(u)
    <3>1. acks'[u] = acks[u] \/ \E s : acks'[u] = Append(acks[u],
                                  [revision |-> Head(inbox[u]).revision, status |-> s])
      BY <1>1, <2>2 DEF ReceiveHello, SyncTypeOK
    <3> QED BY <1>2, <2>2, <3>1, TakenViews DEF ReceiveHello
  <2>3. CASE ReceiveConfiguration(u)
    <3>1. acks'[u] = acks[u] \/ \E s : acks'[u] = Append(acks[u],
                                  [revision |-> Head(inbox[u]).revision, status |-> s])
      BY <1>1, <2>3 DEF ReceiveConfiguration, SyncTypeOK
    <3> QED BY <1>2, <2>3, <3>1, TakenViews DEF ReceiveConfiguration
  <2>4. CASE Break(u)
    <3>1. /\ inbox'[u] = <<>> /\ acks'[u] = <<>> /\ link'[u] = "off" /\ owed'[u] = 0
          /\ effective'[u] \in {effective[u], None} /\ report'[u] = report[u]
      BY <1>1, <2>4 DEF Break, SyncTypeOK
    <3> QED BY <3>1, OwedIsVisible, UiLeftAlone
  <2> QED BY <2>1, <2>2, <2>3, <2>4
<1> QED BY <1>5, <1>6, <1>7 DEF UisInv

-----------------------------------------------------------------------------
(* The invariant holds at first, and every step keeps it.                  *)
LEMMA SyncInit == Init => SyncInv
<1> SUFFICES ASSUME Init PROVE SyncInv
  OBVIOUS
<1>1. StoreInv
  BY InitInv DEF Init, StoreInv, StoreInit, Confirmed
<1>2. SyncTypeOK
  <2>1. 0 \in Revisions /\ 0 \in 0 .. MaxBreaks
    BY StoreAssumption, SyncAssumption DEF Revisions
  <2>2. managed \in [Shared -> Values \cup {Unset}] /\ inherited = managed
    BY DEF Init
  <2>3. inbox \in [UIs -> Seq(Messages)] /\ acks \in [UIs -> Seq(Acks)]
    BY DEF Init
  <2> QED BY <2>1, <2>2, <2>3 DEF Init, SyncTypeOK
<1>3. LoopShows
  BY DEF Init, LoopShows
<1>4. UisInv
  <2>1. document.revision \in Nat /\ 0 <= document.revision
    BY <1>1, Numbers
  <2> SUFFICES ASSUME NEW u \in UIs PROVE Informed(u) /\ Informing(u) /\ Settling(u)
    BY DEF UisInv
  <2>2. /\ inbox[u] = <<>> /\ acks[u] = <<>> /\ effective[u] = None /\ report[u] = None
        /\ link[u] = "off" /\ owed[u] = 0
    BY DEF Init
  <2> QED BY <2>1, <2>2 DEF Informed, Informing, Settling
<1> QED BY <1>1, <1>2, <1>3, <1>4 DEF SyncInv

LEMMA SyncStep == SyncInv /\ [Next]_vars => SyncInv'
<1> SUFFICES ASSUME SyncInv, [Next]_vars PROVE SyncInv'
  OBVIOUS
<1>1. StoreInv' /\ VisibleStays
  BY StoreKeepsInv DEF SyncInv
<1>2. SyncTypeOK'
  BY <1>1, SyncTypes
<1>3. ASSUME NEW u \in UIs, UiAsks(u) \/ StoreStep(u) \/ Abandoned(u) \/ Register(u)
      PROVE  LoopShows' /\ UisInv'
  <2>1. CASE GatewayGone
    BY <1>1, <2>1, GatewayGoneViews
  <2>2. CASE ~GatewayGone
    <3>1. /\ loop' = loop /\ UNCHANGED <<inbox, effective, acks, report, owed>>
          /\ \A w \in UIs : link'[w] # "off" => link[w] # "off"
      BY <1>3, <2>2 DEF SyncInv, SyncTypeOK, UiAsks, StoreStep, Unaffected, Abandoned, Register,
                        gatewayVars, uiVars
    <3> QED BY <1>1, <3>1, NobodyConcerned
  <2> QED BY <2>1, <2>2
<1>4. CASE UNCHANGED vars
  <2>1. loop' = loop /\ UNCHANGED <<inbox, effective, acks, report, owed, link>>
    BY <1>4 DEF vars, gatewayVars, uiVars
  <2> QED BY <1>1, <1>2, <2>1, NobodyConcerned DEF SyncInv
<1>5. GatewayDies => LoopShows' /\ UisInv'
  BY <1>1, GatewayGoneViews DEF GatewayDies
<1> QED
  BY <1>1, <1>2, <1>3, <1>4, <1>5, StartViews, ReadViews, UiViews DEF SyncInv, Next

LEMMA SyncInvariance == Spec => []SyncInv
BY SyncInit, SyncStep, PTL DEF Spec

(* Compare-and-set holds, and a revision that readers have seen stays,     *)
(* also among UIs that come and go and requests nobody waits for.          *)
THEOREM StoreHoldsAmongUis == Spec => [](Confirmed /\ UndoRestores) /\ [][VisibleStays]_vars
<1>1. SyncInv => Confirmed /\ UndoRestores
  BY DEF SyncInv, StoreInv, IInv, DiskInv
<1>2. SyncInv /\ [Next]_vars => [VisibleStays]_vars
  BY StoreKeepsInv DEF SyncInv
<1> QED BY <1>1, <1>2, SyncInvariance, PTL DEF Spec

(* Every variable of the store, of the Gateway's event loop, of the UIs    *)
(* and of what is under way between them has its type.                     *)
THEOREM SyncTypesHold == Spec => [](TypeOK /\ SyncTypeOK)
<1>1. SyncInv => TypeOK /\ SyncTypeOK
  BY DEF SyncInv, StoreInv, IInv, DiskInv, DiskTypes, RestTypes, TypeOK
<1> QED BY <1>1, SyncInvariance, PTL

(* Views and acknowledgements are about documents the Gateway had, in the  *)
(* order of their revisions, whatever threads commit between the two reads *)
(* of a payload, whatever connections break and whenever a Gateway dies    *)
(* (effective_client_configuration, _broadcast_configuration).             *)
THEOREM ViewsAreDocuments == Spec => []ViewsSound
<1>1. SyncInv => ViewsSound
  <2> SUFFICES ASSUME SyncInv PROVE ViewsSound
    OBVIOUS
  <2>1. NeverAhead
    BY DEF SyncInv, UisInv, Informing, NeverAhead
  <2>2. SeenIsOneDocument
    <3> SUFFICES ASSUME NEW u \in UIs
                 PROVE  LET seen == (IF effective[u] = None THEN <<>> ELSE <<effective[u]>>) \o inbox[u]
                        IN  \A i \in DOMAIN seen :
                              /\ \E r \in 0..seen[i].revision : Shows(seen[i].view, past[r].settings)
                              /\ i > 1 => seen[i - 1].revision <= seen[i].revision
      BY DEF SeenIsOneDocument
    <3> DEFINE q == inbox[u]
               n == Len(inbox[u])
    <3>1. /\ Informed(u) /\ q \in Seq(Messages) /\ n \in Nat /\ DOMAIN q = 1 .. n
          /\ effective[u] \in Seen \cup {None}
      BY LenProperties DEF SyncInv, UisInv, SyncTypeOK
    <3>2. \A m : Truthful(m) => \E r \in 0 .. m.revision : Shows(m.view, past[r].settings)
      BY DEF Truthful
    <3>3. CASE effective[u] = None
      <4>1. <<>> \o q = q
        BY <3>1, ConcatEmptySeq
      <4>2. \A i \in DOMAIN q : i > 1 => i - 1 \in DOMAIN q /\ i - 1 <= i
        BY <3>1
      <4> HIDE DEF q
      <4>3. \A i \in DOMAIN q : Truthful(q[i])
        BY <3>1 DEF Informed, q
      <4>4. \A i \in DOMAIN q : i > 1 => q[i - 1].revision <= q[i].revision
        BY <3>1, <4>2 DEF Informed, q
      <4> QED BY <3>2, <3>3, <4>1, <4>3, <4>4 DEF q
    <3>4. CASE effective[u] # None
      <4> DEFINE s == <<effective[u]>> \o q
      <4>1. DOMAIN s = 1 .. n + 1 /\ s[1] = effective[u] /\ \A i \in 1 .. n : s[i + 1] = q[i]
        BY <3>1
      <4>2. Truthful(effective[u]) /\ \A i \in 1 .. n : effective[u].revision <= q[i].revision
        BY <3>1, <3>4 DEF Informed
      <4>3. \A i \in 1 .. n : Truthful(q[i])
        BY <3>1 DEF Informed
      <4> HIDE DEF s, q, n
      <4>4. ASSUME NEW i \in DOMAIN s
            PROVE  Truthful(s[i]) /\ (i > 1 => s[i - 1].revision <= s[i].revision)
        <5>1. CASE i = 1
          BY <4>1, <4>2, <5>1
        <5>2. CASE i # 1
          <6>1. i - 1 \in 1 .. n /\ i - 1 + 1 = i
            BY <3>1, <4>1, <5>2
          <6>2. s[i] = q[i - 1] /\ Truthful(s[i])
            BY <4>1, <4>3, <6>1
          <6>3. CASE i = 2
            BY <4>1, <4>2, <6>1, <6>2, <6>3
          <6>4. CASE i # 2
            <7>1. i - 2 \in 1 .. n /\ i - 2 + 1 = i - 1 /\ i - 2 <= i - 1
              BY <3>1, <6>1, <6>4
            <7>2. s[i - 1] = q[i - 2]
              BY <4>1, <7>1
            <7>3. q[i - 2].revision <= q[i - 1].revision
              BY <3>1, <6>1, <7>1 DEF Informed, q
            <7> QED BY <6>2, <7>2, <7>3
          <6> QED BY <6>3, <6>4
        <5> QED BY <5>1, <5>2
      <4> QED BY <3>2, <3>4, <4>4 DEF s, q
    <3> QED BY <3>3, <3>4
  <2> QED BY <2>1, <2>2 DEF ViewsSound
<1> QED BY <1>1, SyncInvariance, PTL

(* A participant that took everything under way to it has the settings of  *)
(* the last revision published to it or of a later one.                    *)
THEOREM UisConverge == Spec => []Converged
<1>1. SyncInv => Converged
  <2> SUFFICES ASSUME SyncInv, NEW u \in UIs, link[u] = "on", inbox[u] = <<>>, loop = None
               PROVE  /\ effective[u] # None
                      /\ \E r \in owed[u]..document.revision :
                           Shows(effective[u].view, past[r].settings)
    BY DEF Converged
  <2> QED BY DEF SyncInv, UisInv, Settling, Todo, Recent, InRange
<1> QED BY <1>1, SyncInvariance, PTL
=============================================================================
