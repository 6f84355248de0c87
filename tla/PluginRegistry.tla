--------------------------- MODULE PluginRegistry ---------------------------
(***************************************************************************)
(* What plugins register (plugins.py): the calls of PluginRegistrar, the   *)
(* load of the enabled plugins one after the other with the rollback of    *)
(* one that fails, the removal of callbacks that raise, and the live       *)
(* replacement of the speaker rules of the Gateway.  A registration is a   *)
(* kind, a name and the plugin, with the rules it was built from.          *)
(***************************************************************************)
EXTENDS Naturals, Sequences, FiniteSets

CONSTANTS
    Enabled,          \* the enabled plugins, in their order, each of them once
    Speaker,          \* the plugin "speaker_effects"
    Discovered,       \* plugins with one entry point
    RegistrationNames,
    MaxCalls,         \* bound: calls of the registrar in one registration
    MaxRules          \* bound: replacements of the rules

ASSUME PluginRegistryAssumption ==
    /\ "none" \notin Discovered /\ MaxCalls \in Nat /\ MaxRules \in Nat
    /\ Enabled \in Seq({Enabled[i] : i \in DOMAIN Enabled})
    /\ \A i, j \in DOMAIN Enabled : Enabled[i] = Enabled[j] => i = j

VARIABLES
    scope,         \* "ui" or "gateway"
    registry,      \* the registrations of all kinds
    toLoad,        \* plugins not yet loaded
    registering,   \* what loads or replaces: the plugin, its calls, the snapshot
    loadedPlugins, \* _loaded_plugins
    loadFailures,  \* load_failures
    rules,         \* config["speaker_effects"]["rules"], numbered
    lastRules,     \* the number of the latest rules
    made,          \* ghost: the registrations of each plugin that were accepted
    raised         \* ghost: registrations removed because they raised

registryVars == <<scope, registry, toLoad, registering, loadedPlugins, loadFailures, rules,
                  lastRules, made, raised>>

\* settings is not among the dictionaries that load() restores
Kinds == {"command", "enricher", "presentation", "settings"}
NotRegistering == [plugin |-> "none", calls |-> 0, snapshot |-> {}, live |-> FALSE, rules |-> 0]

RegistryInit ==
    /\ scope \in {"ui", "gateway"}
    /\ registry = {} /\ toLoad = Enabled /\ registering = NotRegistering
    /\ loadedPlugins = {} /\ loadFailures = {}
    /\ rules = 0 /\ lastRules = 0
    /\ made = [p \in Discovered |-> {}] /\ raised = {}

Free == registering = NotRegistering

-----------------------------------------------------------------------------
(* load *)

\* No entry point of that name, or two.
LoadUnknown ==
    /\ Free /\ toLoad # <<>> /\ Head(toLoad) \notin Discovered
    /\ toLoad' = Tail(toLoad) /\ loadFailures' = loadFailures \cup {Head(toLoad)}
    /\ UNCHANGED <<scope, registry, registering, loadedPlugins, rules, lastRules, made, raised>>

StartLoad ==
    /\ Free /\ toLoad # <<>> /\ Head(toLoad) \in Discovered
    /\ toLoad' = Tail(toLoad)
    /\ registering' = [plugin |-> Head(toLoad), calls |-> 0, snapshot |-> registry,
                       live |-> FALSE, rules |-> rules]
    /\ UNCHANGED <<scope, registry, loadedPlugins, loadFailures, rules, lastRules, made, raised>>

\* Some kinds are accepted and forgotten in the other scope.
Ignored(kind) == (kind = "command" /\ scope = "gateway") \/ (kind = "enricher" /\ scope = "ui")

\* The registry a registration goes to: the live replacement fills a temporary one.
Target == IF registering.live THEN registering.snapshot ELSE registry

\* The settings of a plugin have its own name, other names are free to choose.
NameOf(kind, n) == IF kind = "settings" THEN registering.plugin ELSE n

Taken(kind, n) == \E r \in Target : r.kind = kind /\ r.name = NameOf(kind, n)

Add(kind, n) ==
    LET r == [kind |-> kind, name |-> NameOf(kind, n), plugin |-> registering.plugin,
              rules |-> IF registering.plugin = Speaker THEN registering.rules ELSE 0]
    IN /\ ~Free /\ registering.calls < MaxCalls
       /\ Ignored(kind) \/ ~Taken(kind, n)
       /\ registering' = [registering EXCEPT !.calls = @ + 1,
                             !.snapshot = IF registering.live /\ ~Ignored(kind)
                                          THEN @ \cup {r} ELSE @]
       /\ registry' = IF registering.live \/ Ignored(kind) THEN registry ELSE registry \cup {r}
       /\ made' = IF registering.live \/ Ignored(kind) THEN made
                  ELSE [made EXCEPT ![registering.plugin] = @ \cup {r}]
       /\ UNCHANGED <<scope, toLoad, loadedPlugins, loadFailures, rules, lastRules, raised>>

EndLoad ==
    /\ ~Free /\ ~registering.live
    /\ loadedPlugins' = loadedPlugins \cup {registering.plugin}
    /\ registering' = NotRegistering
    /\ UNCHANGED <<scope, registry, toLoad, loadFailures, rules, lastRules, made, raised>>

\* What the snapshot does not cover stays.
RolledBack == registering.snapshot \cup {r \in registry : r.kind = "settings"}

\* Seeded fault: the dictionaries are updated from the snapshot but not cleared.
FailLoadUncleared ==
    /\ ~Free /\ ~registering.live
    /\ registry' = registry \cup registering.snapshot
    /\ loadFailures' = loadFailures \cup {registering.plugin}
    /\ made' = [made EXCEPT ![registering.plugin] = {}]
    /\ registering' = NotRegistering
    /\ UNCHANGED <<scope, toLoad, loadedPlugins, rules, lastRules, raised>>

\* The plugin raises, is of another API version, or a name is taken.
FailLoad ==
    /\ ~Free /\ ~registering.live
    /\ registry' = RolledBack
    /\ loadFailures' = loadFailures \cup {registering.plugin}
    /\ made' = [made EXCEPT ![registering.plugin] = {}]
    /\ registering' = NotRegistering
    /\ UNCHANGED <<scope, toLoad, loadedPlugins, rules, lastRules, raised>>

-----------------------------------------------------------------------------
(* reconfigure_speaker_effects, once everything is loaded *)

StartRules ==
    /\ Free /\ toLoad = <<>> /\ scope = "gateway" /\ lastRules < MaxRules
    /\ Speaker \in Discovered /\ \E i \in DOMAIN Enabled : Enabled[i] = Speaker
    /\ lastRules' = lastRules + 1
    /\ registering' = [plugin |-> Speaker, calls |-> 0, snapshot |-> {}, live |-> TRUE,
                       rules |-> lastRules + 1]
    /\ UNCHANGED <<scope, registry, toLoad, loadedPlugins, loadFailures, rules, made, raised>>

\* The rules are refused: nothing was touched.
RefuseRules ==
    /\ ~Free /\ registering.live
    /\ registering' = NotRegistering
    /\ UNCHANGED <<scope, registry, toLoad, loadedPlugins, loadFailures, rules, lastRules, made,
                   raised>>

Decorators(R) == {r \in R : r.kind = "presentation" /\ r.plugin = Speaker}

\* The registration of the same name by another plugin is replaced too.
Retained ==
    {r \in registry \ Decorators(registry) :
        ~\E d \in Decorators(registering.snapshot) : r.kind = "presentation" /\ r.name = d.name}

TakeRules ==
    /\ ~Free /\ registering.live
    /\ registry' = Retained \cup Decorators(registering.snapshot)
    /\ rules' = registering.rules
    /\ loadFailures' = loadFailures \ {Speaker}
    /\ registering' = NotRegistering
    /\ UNCHANGED <<scope, toLoad, loadedPlugins, lastRules, made, raised>>

-----------------------------------------------------------------------------

\* A callback that raises is removed; commands, keys and presentation decorators stay.
RemoveRaising(r) ==
    /\ Free /\ toLoad = <<>>
    /\ r \in registry /\ r.kind = "enricher"
    /\ registry' = registry \ {r} /\ raised' = raised \cup {r}
    /\ UNCHANGED <<scope, toLoad, registering, loadedPlugins, loadFailures, rules, lastRules,
                   made>>

RegistryNext ==
    \/ LoadUnknown \/ StartLoad \/ EndLoad \/ FailLoad
    \/ \E kind \in Kinds, n \in RegistrationNames : Add(kind, n)
    \/ StartRules \/ RefuseRules \/ TakeRules
    \/ \E r \in registry : RemoveRaising(r)

RegistrySpec == RegistryInit /\ [][RegistryNext]_registryVars

-----------------------------------------------------------------------------
(* Properties *)

\* Apart from the descriptors of settings, and the decorators that new rules replaced, the
\* registry holds exactly what the loaded plugins registered and what has not raised: a
\* plugin that failed has left nothing and has taken nothing of the others with it
\* (plugins.py load, the snapshots it restores).
RegistryExact ==
    LET Restored(R) == {r \in R : r.kind # "settings" /\ (rules = 0 \/ r.kind # "presentation")}
    IN Free => Restored(registry) = Restored(UNION {made[p] : p \in loadedPlugins}) \ raised

\* The decorators of speaker_effects are those of the rules its configuration names, also
\* after rules that were refused or a load that failed (plugins.py
\* reconfigure_speaker_effects).
RulesAgree == \A r \in Decorators(registry) : Free => r.rules = rules

\* After any sequence of loads, failures and rule changes, the registry holds what the
\* loaded plugins registered and the rules in force are those of the configuration.
RegistrySound == RegistryExact /\ RulesAgree
=============================================================================
