-------------------------- MODULE PluginLifecycle --------------------------
(***************************************************************************)
(* The lifecycle events of PluginManager (plugins.py): what the pump of a  *)
(* UI and the recoveries that reconcile it publish, the queue with its     *)
(* merged world activity, the one task that hands the entries to the       *)
(* handlers, and the boss screen that shows them.  Only the state of a     *)
(* world and the kind, world and activation of an entry are modelled.      *)
(***************************************************************************)
EXTENDS Naturals, Sequences, FiniteSets

CONSTANTS
    PluginWorlds,    \* worlds of the UI
    NoWorld,
    Handlers,        \* registered lifecycle handlers
    MaxActivity,     \* bound: inbound events
    MaxChanges,      \* bound: state changes that the pump reads
    MaxActivations   \* bound: activations of the boss screen

ASSUME PluginLifecycleAssumption ==
    /\ IsFiniteSet(Handlers) /\ NoWorld \notin PluginWorlds
    /\ MaxActivity \in Nat /\ MaxChanges \in Nat /\ MaxActivations \in Nat

VARIABLES
    worldsUp,    \* worlds whose RemoteWorldSession.state is "connected"
    woken,       \* publishers whose entry has been delivered, in that order
    publisher,   \* the pump and the reconciliation, in publish_session_state
    connected,   \* _connected_worlds
    entries,     \* _lifecycle_queue
    merged,      \* _queued_world_activity: a count per world and activation
    delivering,  \* the entry the dispatcher hands out
    untold,      \* the handlers that have not got it yet
    handlers,    \* lifecycle_handlers
    boss,        \* whether a boss view is active
    seed,        \* _boss_seed
    told,        \* ghost: the worlds whose last edge was world_connected
    seen, heard, \* ghost: inbound events, and those the handlers were told of
    torn,        \* ghost: worlds whose change a cancelled pump has not published
    changes      \* changes so far, bounded

queueVars == <<entries, merged>>
dispatchVars == <<delivering, untold, handlers>>
bossVars == <<boss, seed>>
lifecycleVars == <<worldsUp, publisher, connected, queueVars, dispatchVars, bossVars, told,
                   seen, heard,
                   torn, changes, woken>>

Publishers == {"pump", "reconciliation"}
\* step: "idle", "free" between two worlds, or waiting for the entry of the state ("state")
\* or of the edge ("edge"); todo: worlds still to reconcile.
AtRest == [step |-> "idle", world |-> NoWorld, value |-> FALSE, todo |-> {}]
NoEntry == [kind |-> "none", world |-> NoWorld, waiter |-> "none", activation |-> 0]

\* The activation an entry is queued in; 0 without a boss view.
Activation == IF boss THEN seed ELSE 0
Entry(kind, w, waiter) ==
    [kind |-> kind, world |-> w, waiter |-> waiter, activation |-> Activation]

PluginLifecycleInit ==
    /\ worldsUp = {} /\ woken = <<>> /\ publisher = [p \in Publishers |-> AtRest] /\ connected = {}
    /\ entries = <<>> /\ merged = <<>>
    /\ delivering = NoEntry /\ untold = {} /\ handlers = Handlers
    /\ boss = FALSE /\ seed = 0
    /\ told = {} /\ seen = 0 /\ heard = 0 /\ torn = {} /\ changes = 0

-----------------------------------------------------------------------------
(* process_event and publish_session_state *)

\* An inbound event, merged with what waits for the same world and activation.
Inbound(w) ==
    LET key == <<w, Activation>> IN
    /\ seen < MaxActivity /\ seen' = seen + 1
    /\ merged' = [k \in DOMAIN merged \cup {key} |->
                     IF k \notin DOMAIN merged THEN 1 ELSE merged[k] + IF k = key THEN 1 ELSE 0]
    /\ entries' = IF key \in DOMAIN merged THEN entries
                  ELSE Append(entries, Entry("activity", w, "none"))
    /\ UNCHANGED <<worldsUp, publisher, connected, dispatchVars, bossVars, told, heard, torn,
                   changes, woken>>

Say(p, kind, w) == entries' = Append(entries, Entry(kind, w, p))

\* The pump reads a change of a world's state and publishes it.
Change(w) ==
    /\ publisher["pump"].step = "idle" /\ changes < MaxChanges
    /\ changes' = changes + 1
    /\ worldsUp' = IF w \in worldsUp THEN worldsUp \ {w} ELSE worldsUp \cup {w}
    /\ Say("pump", "session_state", w)
    /\ publisher' = [publisher EXCEPT !["pump"] =
                        [step |-> "state", world |-> w, value |-> w \notin worldsUp, todo |-> {}]]
    /\ UNCHANGED <<connected, merged, dispatchVars, bossVars, told, seen, heard, torn, woken>>

\* A recovery cuts the connection: its pump is cancelled where it waits, its entry is
\* delivered all the same.
Abandoned(e) == IF e.waiter = "pump" THEN [e EXCEPT !.waiter = "none"] ELSE e

CancelPump ==
    LET pump == publisher["pump"] IN
    /\ pump.step # "idle"
    /\ torn' = IF pump.step = "edge" THEN torn ELSE torn \cup {pump.world}
    /\ publisher' = [publisher EXCEPT !["pump"] = AtRest]
    /\ entries' = [i \in DOMAIN entries |-> Abandoned(entries[i])]
    /\ delivering' = Abandoned(delivering)
    /\ woken' = IF \E i \in DOMAIN woken : woken[i] = "reconciliation"
                THEN <<"reconciliation">> ELSE <<>>
    /\ UNCHANGED <<worldsUp, connected, merged, untold, handlers, bossVars, told, seen,
                   heard, changes>>

\* _reconcile_world_states, when the UI has connected again
StartReconciliation ==
    /\ publisher["reconciliation"].step = "idle" /\ torn # {}
    /\ publisher' = [publisher EXCEPT !["reconciliation"] =
                        [AtRest EXCEPT !.step = "free", !.todo = PluginWorlds]]
    /\ UNCHANGED <<worldsUp, connected, queueVars, dispatchVars, bossVars, told, seen, heard,
                   torn, changes, woken>>

Reconcile(w) ==
    LET r == publisher["reconciliation"] IN
    /\ r.step = "free" /\ w \in r.todo
    /\ Say("reconciliation", "session_state", w)
    /\ publisher' = [publisher EXCEPT !["reconciliation"] =
                        [step |-> "state", world |-> w, value |-> w \in worldsUp, todo |-> r.todo \ {w}]]
    /\ torn' = torn \ {w}
    /\ UNCHANGED <<worldsUp, connected, merged, dispatchVars, bossVars, told, seen, heard,
                   changes, woken>>

\* What a publisher does when it has nothing more to wait for.
Return(p) == IF publisher[p].todo = {} THEN AtRest ELSE [publisher[p] EXCEPT !.step = "free"]

\* The entry is delivered: after the state an edge follows when the set disagrees.
ResumePublisher(p) ==
    LET w == publisher[p].world
        edge == publisher[p].value # (w \in connected)
    IN /\ woken # <<>> /\ Head(woken) = p /\ woken' = Tail(woken)
       /\ IF publisher[p].step = "state" /\ edge
          THEN /\ connected' = IF publisher[p].value THEN connected \cup {w} ELSE connected \ {w}
               /\ Say(p, IF publisher[p].value THEN "world_connected" ELSE "world_disconnected", w)
               /\ publisher' = [publisher EXCEPT ![p].step = "edge"]
          ELSE /\ publisher' = [publisher EXCEPT ![p] = Return(p)]
               /\ UNCHANGED <<connected, entries>>
       /\ UNCHANGED <<worldsUp, merged, dispatchVars, bossVars, told, seen, heard, torn, changes>>

-----------------------------------------------------------------------------
(* _dispatch_lifecycle_events and _deliver_lifecycle *)

\* Seeded fault: the count stays behind, to be merged with the next events.
DeliverUnpopped ==
    /\ delivering = NoEntry /\ entries # <<>>
    /\ LET e == Head(entries)
           key == <<e.world, e.activation>>
       IN /\ entries' = Tail(entries)
          /\ delivering' = e /\ untold' = handlers
          /\ heard' = IF e.kind = "activity" THEN heard + merged[key] ELSE heard
          /\ told' = CASE e.kind = "world_connected" -> told \cup {e.world}
                       [] e.kind = "world_disconnected" -> told \ {e.world}
                       [] OTHER -> told
    /\ UNCHANGED <<worldsUp, publisher, connected, merged, handlers, boss, seed, seen, torn,
                   changes, woken>>

\* The dispatcher takes the next entry, with the count it has by now.
Deliver ==
    /\ delivering = NoEntry /\ entries # <<>>
    /\ LET e == Head(entries)
           key == <<e.world, e.activation>>
       IN /\ entries' = Tail(entries)
          /\ delivering' = e /\ untold' = handlers
          /\ IF e.kind = "activity"
             THEN /\ heard' = heard + merged[key]
                  /\ merged' = [k \in DOMAIN merged \ {key} |-> merged[k]]
             ELSE UNCHANGED <<heard, merged>>
          /\ told' = CASE e.kind = "world_connected" -> told \cup {e.world}
                       [] e.kind = "world_disconnected" -> told \ {e.world}
                       [] OTHER -> told
    /\ UNCHANGED <<worldsUp, publisher, connected, handlers, boss, seed, seen, torn, changes,
                   woken>>

\* A handler that raises or is cancelled is removed.
Handle(h) ==
    /\ h \in untold
    /\ untold' = untold \ {h}
    /\ handlers' \in {handlers, handlers \ {h}}
    /\ UNCHANGED <<worldsUp, publisher, connected, queueVars, delivering, bossVars, told,
                   seen, heard,
                   torn, changes, woken>>

\* The waiter's future is resolved; those that wait are resumed in this order.
EndDelivery ==
    /\ delivering # NoEntry /\ untold = {}
    /\ delivering' = NoEntry
    /\ woken' = IF delivering.waiter = "none" THEN woken ELSE Append(woken, delivering.waiter)
    /\ UNCHANGED <<worldsUp, publisher, connected, queueVars, untold, handlers, bossVars,
                   told, seen, heard,
                   torn, changes>>

-----------------------------------------------------------------------------
(* The boss screen *)

\* another view or another world; the same ones change nothing
ActivateBoss ==
    /\ seed < MaxActivations
    /\ boss' = TRUE /\ seed' = seed + 1
    /\ entries' = Append(entries, [kind |-> "boss_activated", world |-> NoWorld,
                                   waiter |-> "none", activation |-> seed + 1])
    /\ UNCHANGED <<worldsUp, publisher, connected, merged, dispatchVars, told, seen, heard,
                   torn, changes,
                   woken>>

DismissBoss ==
    /\ boss /\ boss' = FALSE
    /\ UNCHANGED <<worldsUp, publisher, connected, queueVars, dispatchVars, seed, told, seen,
                   heard,
                   torn, changes, woken>>

PluginLifecycleNext ==
    \/ \E w \in PluginWorlds : Inbound(w) \/ Change(w) \/ Reconcile(w)
    \/ CancelPump \/ StartReconciliation
    \/ \E p \in Publishers : ResumePublisher(p)
    \/ Deliver \/ EndDelivery \/ \E h \in Handlers : Handle(h)
    \/ ActivateBoss \/ DismissBoss

PluginLifecycleSpec == PluginLifecycleInit /\ [][PluginLifecycleNext]_lifecycleVars

-----------------------------------------------------------------------------
(* Properties *)

\* When the dispatcher has nothing left and no cancelled change is unreconciled, the
\* handlers know every inbound event exactly once and the true state of every world,
\* however publications, merging, cancelled pumps and reconciliations interleaved
\* (plugins.py publish_session_state, _queue_world_activity, _dispatch_lifecycle_events).
HandlersUpToDate ==
    /\ entries = <<>> /\ torn = {} /\ \A p \in Publishers : publisher[p].step = "idle"
    => told = worldsUp /\ heard = seen
=============================================================================
