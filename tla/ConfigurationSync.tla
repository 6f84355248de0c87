-------------------------- MODULE ConfigurationSync --------------------------
(***************************************************************************)
(* How the UIs follow the managed configuration of ConfigurationStore: the *)
(* view sent after registration (GatewayServer._handle_client of           *)
(* gateway.py, effective_client_configuration of configuration_sync.py),   *)
(* the view sent to every participant after a committed mutation           *)
(* (_broadcast_configuration), the layers of values it is made of          *)
(* (configuration_values.py), and what a UI does with it and acknowledges  *)
(* (GatewayClient of gateway_client.py).                                   *)
(*                                                                         *)
(* The callers of the store are the UIs.  A request is handled by the task *)
(* of its connection: if the connection breaks, the task is cancelled, but *)
(* a mutation that runs in a thread goes on and nobody publishes it.       *)
(* A view is made of two reads, of the document and of its revision; a     *)
(* thread may commit between them, while the event loop does nothing else. *)
(* Messages sent to one UI arrive in order until its connection breaks.    *)
(***************************************************************************)
EXTENDS ConfigurationStore, Sequences

CONSTANTS
  Shared,        (* keys of the shared section, applied live                *)
  Own,           (* keys only UIs have, by type or name, applied at restart *)
  MaxBreaks      (* bound: broken connections and restarts                  *)

UIs == Callers

ASSUME SyncAssumption ==
  /\ Shared \subseteq Keys /\ Own \subseteq Keys /\ Shared \cap Own = {}
  /\ MaxBreaks \in Nat

VARIABLES
  managed,       (* the MANAGED layer of the shared keys' values            *)
  inherited,     (* the layer below: the bundle the Gateway started with    *)
  loop,          (* the payloads the event loop is making, or None          *)
  link,          (* UI -> "off", "greeting" (not yet a participant), "on"   *)
  inbox,         (* UI -> messages under way to it                          *)
  effective,     (* UI -> the last view it took, None in a new process      *)
  acks,          (* UI -> acknowledgements under way to the Gateway         *)
  report,        (* UI -> applied_config_revision, persistent               *)
  orphans,       (* UIs whose request goes on without its connection        *)
  owed,          (* UI -> the last revision published while it was on       *)
  breaks

gatewayVars == <<managed, inherited, loop>>
uiVars == <<link, inbox, effective, acks, report, orphans, owed, breaks>>
vars == <<storeVars, gatewayVars, uiVars>>

LoopIdle == loop = None /\ LoopFree

(* effective_client_configuration: the document first, then, for shared    *)
(* keys, the layers of values.                                             *)
View(settings) ==
  [k \in Shared \cup Own |->
     IF settings[k] # Unset \/ k \in Own THEN settings[k]
     ELSE IF managed[k] # Unset THEN managed[k] ELSE inherited[k]]

-----------------------------------------------------------------------------
(* The Gateway.                                                            *)

(* hello: the payload for a UI that has just registered.                   *)
Greet(u) ==
  /\ LoopIdle
  /\ link[u] = "off"
  /\ loop' = [kind |-> "hello", todo |-> {u}, view |-> None]
  /\ UNCHANGED <<storeVars, managed, inherited, uiVars>>

(* After the history was sent, the UI becomes a participant.               *)
Register(u) ==
  /\ LoopIdle
  /\ link[u] = "greeting"
  /\ link' = [link EXCEPT ![u] = "on"]
  /\ UNCHANGED <<storeVars, gatewayVars, inbox, effective, acks, report, orphans, owed, breaks>>

(* _sync_gateway_configuration_value: only single changes reach the layer, *)
(* with the value the document has by now.                                 *)
Synced(c) ==
  [k \in Shared |->
     IF request[c].kind \in {"edit", "undo"} THEN document.settings[k] ELSE managed[k]]

Participants == {u \in UIs : link[u] = "on"}

(* A confirmed mutation is published to all participants.                  *)
Publish(c) ==
  /\ LoopIdle
  /\ request[c] # None /\ request[c].phase = "done" /\ c \notin orphans
  /\ managed' = Synced(c)
  /\ loop' = IF Participants = {} THEN None
             ELSE [kind |-> "configuration", todo |-> Participants, view |-> None]
  /\ owed' = [u \in UIs |-> IF link[u] = "on" THEN request[c].expected + 1 ELSE owed[u]]
  /\ request' = [request EXCEPT ![c] = None]
  /\ UNCHANGED <<disk, document, imported, migrated, crashes, inherited,
                 link, inbox, effective, acks, report, orphans, breaks>>

(* The thread of a cancelled handler ends; nothing is published.           *)
Abandoned(c) ==
  /\ c \in orphans
  /\ request[c] # None => request[c].phase = "done"
  /\ orphans' = orphans \ {c}
  /\ request' = [request EXCEPT ![c] = None]
  /\ UNCHANGED <<disk, document, imported, migrated, crashes, gatewayVars,
                 link, inbox, effective, acks, report, owed, breaks>>

ReadSettings ==
  /\ loop # None /\ loop.view = None
  /\ loop' = [loop EXCEPT !.view = View(document.settings)]
  /\ UNCHANGED <<storeVars, managed, inherited, uiVars>>

(* Seeded fault: a view overtakes those under way to the same UI.          *)
ReadRevisionOvertaking ==
  /\ loop # None /\ loop.view # None
  /\ \E u \in loop.todo :
       LET message == [kind |-> loop.kind, revision |-> document.revision, view |-> loop.view]
       IN  /\ inbox' = [inbox EXCEPT ![u] = <<message>> \o @]
           /\ link' = IF loop.kind = "hello" THEN [link EXCEPT ![u] = "greeting"] ELSE link
           /\ loop' = IF loop.todo = {u} THEN None
                      ELSE [loop EXCEPT !.todo = @ \ {u}, !.view = None]
  /\ UNCHANGED <<storeVars, managed, inherited, effective, acks, report, orphans, owed, breaks>>

(* The revision completes the payload of the next UI.                      *)
ReadRevision ==
  /\ loop # None /\ loop.view # None
  /\ \E u \in loop.todo :
       LET message == [kind |-> loop.kind, revision |-> document.revision, view |-> loop.view]
       IN  /\ inbox' = [inbox EXCEPT ![u] = Append(@, message)]
           /\ link' = IF loop.kind = "hello" THEN [link EXCEPT ![u] = "greeting"] ELSE link
           /\ loop' = IF loop.todo = {u} THEN None
                      ELSE [loop EXCEPT !.todo = @ \ {u}, !.view = None]
  /\ UNCHANGED <<storeVars, managed, inherited, effective, acks, report, orphans, owed, breaks>>

(* configuration_applied, between the requests of the same connection:     *)
(* only an applied revision is kept, the highest.                          *)
TakeAck(u) ==
  /\ LoopIdle
  /\ link[u] = "on" /\ request[u] = None
  /\ acks[u] # <<>>
  /\ acks' = [acks EXCEPT ![u] = Tail(@)]
  /\ LET ack == Head(acks[u])
     IN  report' = IF ack.status = "applied" /\ ack.revision <= document.revision
                      /\ (report[u] = None \/ report[u] < ack.revision)
                   THEN [report EXCEPT ![u] = ack.revision] ELSE report
  /\ UNCHANGED <<storeVars, gatewayVars, link, inbox, effective, orphans, owed, breaks>>

-----------------------------------------------------------------------------
(* The UIs.                                                                *)

Take(u, message) ==
  /\ inbox' = [inbox EXCEPT ![u] = Tail(@)]
  /\ effective' = [effective EXCEPT ![u] = [revision |-> message.revision, view |-> message.view]]

(* A new process acknowledges its first view; a reconnected one takes the  *)
(* view over without applying or acknowledging it.                         *)
ReceiveHello(u) ==
  /\ inbox[u] # <<>> /\ Head(inbox[u]).kind = "hello"
  /\ Take(u, Head(inbox[u]))
  /\ acks' = IF effective[u] # None THEN acks
             ELSE [acks EXCEPT ![u] =
                     Append(@, [revision |-> Head(inbox[u]).revision, status |-> "applied"])]
  /\ UNCHANGED <<storeVars, gatewayVars, link, report, orphans, owed, breaks>>

(* Seeded fault: a UI skips a view of a revision it already has.           *)
ReceiveNewer(u) ==
  /\ inbox[u] # <<>> /\ Head(inbox[u]).kind = "configuration"
  /\ IF Head(inbox[u]).revision = effective[u].revision
     THEN inbox' = [inbox EXCEPT ![u] = Tail(@)] /\ UNCHANGED effective
     ELSE Take(u, Head(inbox[u]))
  /\ UNCHANGED <<storeVars, gatewayVars, link, acks, report, orphans, owed, breaks>>

(* Live changes are applied; others need a restart of the UI.              *)
ReceiveConfiguration(u) ==
  /\ inbox[u] # <<>> /\ Head(inbox[u]).kind = "configuration"
  /\ Take(u, Head(inbox[u]))
  /\ LET message == Head(inbox[u])
         live == \A k \in Own : message.view[k] = effective[u].view[k]
     IN  acks' = [acks EXCEPT ![u] = Append(@,
                   [revision |-> message.revision,
                    status |-> IF live THEN "applied" ELSE "restart-required"])]
  /\ UNCHANGED <<storeVars, gatewayVars, link, report, orphans, owed, breaks>>

(* The connection breaks, or the UI restarts.  A mutation in a thread goes *)
(* on; a request that has not got that far ends with its handler.          *)
Break(u) ==
  /\ LoopIdle
  /\ link[u] # "off"
  /\ breaks + crashes < MaxBreaks
  /\ breaks' = breaks + 1
  /\ link' = [link EXCEPT ![u] = "off"]
  /\ inbox' = [inbox EXCEPT ![u] = <<>>]
  /\ acks' = [acks EXCEPT ![u] = <<>>]
  /\ owed' = [owed EXCEPT ![u] = 0]
  /\ effective' \in {effective, [effective EXCEPT ![u] = None]}
  /\ IF request[u] = None THEN UNCHANGED <<request, orphans>>
     ELSE IF request[u].phase = "asked" /\ request[u].kind \in {"remove", "import", "rollback-import"}
     THEN request' = [request EXCEPT ![u] = None] /\ UNCHANGED orphans
     ELSE orphans' = orphans \cup {u} /\ UNCHANGED request
  /\ UNCHANGED <<disk, document, imported, migrated, crashes, gatewayVars, report>>

-----------------------------------------------------------------------------
(* A new Gateway process: its connections are gone, and the values it      *)
(* starts with are those of the document, in both layers.                  *)
GatewayGone ==
  /\ breaks + crashes < MaxBreaks
  /\ managed' = [k \in Shared |-> stored'.settings[k]]
  /\ inherited' = managed'
  /\ loop' = None
  /\ link' = [u \in UIs |-> "off"]
  /\ inbox' = [u \in UIs |-> <<>>]
  /\ acks' = [u \in UIs |-> <<>>]
  /\ owed' = [u \in UIs |-> 0]
  /\ orphans' = {}
  /\ UNCHANGED <<effective, report, breaks>>

Unaffected == crashes' = crashes /\ UNCHANGED <<gatewayVars, uiVars>>

(* A step of the store; loop steps of imports wait for their turn.         *)
StoreStep(c) ==
  /\ Mutation(c)
  /\ Unaffected \/ (crashes' # crashes /\ GatewayGone)
  /\ loop = None \/ request[c].kind \in {"edit", "undo", "migrate", "rollback-migration"}

GatewayDies == Crash /\ GatewayGone

UiAsks(u) ==
  /\ loop = None /\ link[u] = "on" /\ u \notin orphans
  /\ AskSomething(u)
  /\ Unaffected

Init ==
  /\ StoreInit
  /\ managed = [k \in Shared |-> Unset]
  /\ inherited = managed
  /\ loop = None
  /\ link = [u \in UIs |-> "off"]
  /\ inbox = [u \in UIs |-> <<>>]
  /\ effective = [u \in UIs |-> None]
  /\ acks = [u \in UIs |-> <<>>]
  /\ report = [u \in UIs |-> None]
  /\ orphans = {}
  /\ owed = [u \in UIs |-> 0]
  /\ breaks = 0

Next ==
  \/ \E u \in UIs : \/ UiAsks(u) \/ StoreStep(u) \/ Publish(u) \/ Abandoned(u)
                    \/ Greet(u) \/ Register(u) \/ TakeAck(u)
                    \/ ReceiveHello(u) \/ ReceiveConfiguration(u) \/ Break(u)
  \/ ReadSettings \/ ReadRevision
  \/ GatewayDies

Spec == Init /\ [][Next]_vars
-----------------------------------------------------------------------------
(* Every variable has its type.                                            *)
Views == [Shared \cup Own -> Values \cup {Unset}]
Messages == [kind : {"hello", "configuration"}, revision : Revisions, view : Views]
Acks == [revision : Revisions, status : {"applied", "restart-required"}]
Seen == [revision : Revisions, view : Views]
Making ==
  [kind : {"hello", "configuration"}, todo : (SUBSET UIs) \ {{}}, view : Views \cup {None}]

ASSUME NotNone == None \notin Seen /\ None \notin Making

SyncTypeOK ==
  /\ {managed, inherited} \subseteq [Shared -> Values \cup {Unset}]
  /\ loop \in Making \cup {None}
  /\ link \in [UIs -> {"off", "greeting", "on"}]
  /\ inbox \in [UIs -> Seq(Messages)]
  /\ effective \in [UIs -> Seen \cup {None}]
  /\ acks \in [UIs -> Seq(Acks)]
  /\ report \in [UIs -> Revisions \cup {None}]
  /\ orphans \subseteq UIs
  /\ owed \in [UIs -> Revisions]
  /\ breaks \in 0..MaxBreaks

(* A view shows a document, as far as the document says anything.          *)
Shows(view, settings) ==
  \A k \in Shared \cup Own : k \in Own \/ settings[k] # Unset => view[k] = settings[k]

(* Whatever a UI has or is sent is one document the Gateway had, never a   *)
(* mixture of two, and not newer than the revision it names; revisions     *)
(* never go down on the way, from one view to the next, over reconnections *)
(* and restarts of the Gateway.                                            *)
SeenIsOneDocument ==
  \A u \in UIs :
    LET seen == (IF effective[u] = None THEN <<>> ELSE <<effective[u]>>) \o inbox[u]
    IN  \A i \in DOMAIN seen :
          /\ \E r \in 0..seen[i].revision : Shows(seen[i].view, past[r].settings)
          /\ i > 1 => seen[i - 1].revision <= seen[i].revision

(* No UI is ever "ahead" in config_status, and the Gateway refuses no      *)
(* acknowledgement for naming a revision it does not have.                 *)
NeverAhead ==
  \A u \in UIs :
    /\ report[u] # None => report[u] <= document.revision
    /\ \A i \in DOMAIN acks[u] : acks[u][i].revision <= document.revision

(* Whatever travels between the Gateway and its UIs, views one way and     *)
(* acknowledgements the other, is about a document the Gateway had.        *)
ViewsSound == SeenIsOneDocument /\ NeverAhead

(* A UI that was a participant when a revision was published has, once it  *)
(* took every message on its way, the settings of that revision or of a    *)
(* later one, whatever else was committed or published meanwhile, and      *)
(* although a view may name a later revision than its settings have.       *)
Converged ==
  \A u \in UIs :
    link[u] = "on" /\ inbox[u] = <<>> /\ loop = None =>
      /\ effective[u] # None
      /\ \E r \in owed[u]..document.revision : Shows(effective[u].view, past[r].settings)

(* GATEWAY-MANAGED-CONFIGURATION.md:433: removing a managed override       *)
(* reveals the original value again.  Originally no key has a value here.  *)
(* Changes nobody published, because their connection broke or their write *)
(* failed half-way, are left aside.                                        *)
ResetReveals ==
  /\ LoopIdle /\ breaks = 0 /\ audit[document.revision] # None
  /\ \A c \in Callers : request[c] = None
  => \A k \in Shared : document.settings[k] = Unset => View(document.settings)[k] = Unset
=============================================================================
