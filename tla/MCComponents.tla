---------------------------- MODULE MCComponents ----------------------------
(* The components that share no state with one another, checked side by     *)
(* side: a behaviour chooses one of them and follows its specification while *)
(* the others rest in their initial states.                                  *)
EXTENDS WebGateway, GatewayUis, Installations, PluginSources, UpdateChecks, CommandLine,
        SetupInstall, TLC

CONSTANTS a, b, d1, d2, s1, s2

\* Three stable releases of two versions; the newer version was built from two commits.
MCReleases == {[version |-> 1, commit |-> a, stable |-> TRUE],
               [version |-> 2, commit |-> a, stable |-> TRUE],
               [version |-> 2, commit |-> b, stable |-> TRUE]}

\* The web devices and sockets are told apart by nothing.
ComponentSymmetry == Permutations({d1, d2}) \cup Permutations({s1, s2})

VARIABLE part   \* the component this behaviour follows
Parts == {"web", "uis", "installations", "stable sources", "pinned sources", "checks",
          "command line", "setup"}

restOfWeb == <<uiVars, instVars, pluginVars, checkVars, cliVars, setupVars>>
restOfUis == <<webVars, instVars, pluginVars, checkVars, cliVars, setupVars>>
restOfInstallations == <<webVars, uiVars, pluginVars, checkVars, cliVars, setupVars>>
restOfSources == <<webVars, uiVars, instVars, checkVars, cliVars, setupVars>>
restOfChecks == <<webVars, uiVars, instVars, pluginVars, cliVars, setupVars>>
restOfCommandLine == <<webVars, uiVars, instVars, pluginVars, checkVars, setupVars>>
restOfSetup == <<webVars, uiVars, instVars, pluginVars, checkVars, cliVars>>

ComponentsInit ==
    /\ part \in Parts
    /\ WebInit /\ UisInit /\ InstInit /\ ChecksInit /\ SetupInit
    /\ PluginsInit /\ (part = "stable sources" \/ latest = 1)
    /\ IF part = "command line"
       THEN CliInit
       ELSE given = [mode |-> "none", options |-> {}] /\ outcome = "none"

ComponentsNext ==
    /\ UNCHANGED part
    /\ \/ part = "web" /\ WebNext /\ UNCHANGED restOfWeb
       \/ part = "uis" /\ UisNext /\ UNCHANGED restOfUis
       \/ part = "installations" /\ InstNext /\ UNCHANGED restOfInstallations
       \/ part = "stable sources" /\ StableNext /\ UNCHANGED restOfSources
       \/ part = "pinned sources" /\ PinnedNext /\ UNCHANGED restOfSources
       \/ part = "checks" /\ ChecksNext /\ UNCHANGED restOfChecks
       \/ part = "command line" /\ RunCli /\ UNCHANGED restOfCommandLine
       \/ part = "setup" /\ SetupNext /\ UNCHANGED restOfSetup

componentVars == <<part, webVars, uiVars, instVars, pluginVars, checkVars, cliVars, setupVars>>
ComponentsSpec == ComponentsInit /\ [][ComponentsNext]_componentVars

\* Neither the installed program nor a plugin is replaced by an older version, except by a
\* rollback the user asked for.
VersionsOnlyGrow == NoDowngrade /\ NeverOlder
=============================================================================
