------------------------------ MODULE MCActors ------------------------------
(* The components that act on a live stream, checked side by side: a         *)
(* behaviour chooses one of them and follows its specification while the     *)
(* others rest in their initial states.                                      *)
EXTENDS UpdateCoordination, PluginLifecycle, PluginRegistry, Agents, Display, TelnetText,
        WebFeed, PacedTransfers, TLC

CONSTANTS u1, u2
UiSymmetry == Permutations({u1, u2})

\* The plugins of the registry's part, in the order of the configuration; "absent" has no
\* entry point.
MCEnabled == <<"speaker_effects", "absent", "p">>

VARIABLE part   \* the component this behaviour follows
Parts == {"updates", "lifecycle", "registry", "agents", "display", "telnet", "web feed",
          "transfers"}

\* What rests while one part is followed.
Rest(p) ==
    /\ p # "updates" => UNCHANGED updateVars
    /\ p # "lifecycle" => UNCHANGED lifecycleVars
    /\ p # "registry" => UNCHANGED registryVars
    /\ p # "agents" => UNCHANGED agentVars
    /\ p # "display" => UNCHANGED displayVars
    /\ p # "telnet" => UNCHANGED telnetVars
    /\ p # "web feed" => UNCHANGED webFeedVars
    /\ p # "transfers" => UNCHANGED transferVars

\* The display and the registry start in several ways, of which one is enough elsewhere.
ActorsInit ==
    /\ part \in Parts
    /\ UpdatesInit /\ PluginLifecycleInit /\ RegistryInit /\ AgentsInit /\ DisplayInit
    /\ TelnetInit /\ WebFeedInit /\ TransfersInit
    /\ part # "registry" => scope = "ui"
    /\ part # "display" => columns = 1 /\ pager.height = 2 /\ pager.enabled

ActorsNext ==
    /\ UNCHANGED part
    /\ \/ part = "updates" /\ UpdatesNext /\ Rest(part)
       \/ part = "lifecycle" /\ PluginLifecycleNext /\ Rest(part)
       \/ part = "registry" /\ RegistryNext /\ Rest(part)
       \/ part = "agents" /\ AgentsNext /\ Rest(part)
       \/ part = "display" /\ DisplayNext /\ Rest(part)
       \/ part = "telnet" /\ TelnetNext /\ Rest(part)
       \/ part = "web feed" /\ WebFeedNext /\ Rest(part)
       \/ part = "transfers" /\ TransfersNext /\ Rest(part)

actorVars == <<part, updateVars, lifecycleVars, registryVars, agentVars, displayVars, telnetVars,
               webFeedVars, transferVars>>
ActorsSpec == ActorsInit /\ [][ActorsNext]_actorVars
=============================================================================
