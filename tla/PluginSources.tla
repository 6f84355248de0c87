--------------------------- MODULE PluginSources ---------------------------
(* Plugin sources: every process that starts (Gateway, UI, all-in-one)      *)
(* resolves its sources in one shared state directory.  A stable source     *)
(* follows a release manifest through a locked, versioned layout; a pinned  *)
(* one is a bare git checkout without a lock.  Processes overlap, git and   *)
(* the network fail, and a process may die between two steps.               *)
EXTENDS Integers, FiniteSets

CONSTANTS
    Processes,          \* processes resolving their sources
    PluginVersions,     \* stable versions of the source, one commit each
    Compatible,         \* versions the running TFR and plugin API accept
    NoVersion,          \* no release, or an absent pointer
    NoProcess,          \* a free lock
    MaxPluginFaults     \* bound: failed pointer replacements and crashes

ASSUME PluginSourceAssumption ==
    /\ PluginVersions \subseteq Nat /\ Compatible \subseteq PluginVersions
    /\ NoVersion \notin PluginVersions /\ NoProcess \notin Processes
    /\ MaxPluginFaults \in Nat

VARIABLES
    latest,         \* version the published manifest names (external)
    kept,           \* complete release directories
    active, before, \* the `current' and `previous' pointers
    holder,         \* process holding the layout's lock
    proc,           \* per process: the stable source
    head,           \* what the pinned checkout holds
    pin,            \* per process: the pinned source
    mishaps         \* faults so far, bounded

stable == <<latest, kept, active, before, holder, proc>>
pinned == <<head, pin>>
pluginVars == <<stable, pinned, mishaps>>

\* seen: the active release at the start; wanted: what to activate;
\* old: the value of `previous' to restore; back: a rollback is under way.
Resting == [step |-> "idle", policy |-> "auto", seen |-> NoVersion,
            wanted |-> NoVersion, old |-> NoVersion, back |-> FALSE]
ProcSteps == {"idle", "fetch", "install", "switch", "point", "loaded", "failed"}
PinSteps == {"idle", "clone", "cloning", "fetch", "loaded", "failed"}

PluginTypeOK ==
    /\ latest \in PluginVersions /\ kept \subseteq PluginVersions
    /\ {active, before} \subseteq kept \cup {NoVersion}
    /\ holder \in Processes \cup {NoProcess}
    /\ \A p \in Processes :
           /\ proc[p].step \in ProcSteps /\ proc[p].policy \in {"auto", "notify"}
           /\ proc[p].step \in {"switch", "point"} <=> holder = p
           /\ pin[p] \in PinSteps
    /\ head \in {"none", "empty", "default", "ref"}
    /\ mishaps \in 0..MaxPluginFaults

PluginsInit ==
    /\ latest \in PluginVersions /\ kept = {} /\ active = NoVersion /\ before = NoVersion
    /\ holder = NoProcess /\ proc = [p \in Processes |-> Resting]
    /\ head = "none" /\ pin = [p \in Processes |-> "idle"] /\ mishaps = 0

Move(p, step) == proc' = [proc EXCEPT ![p].step = step]
Loads(p, v) == proc' = [proc EXCEPT ![p].step = "loaded", ![p].seen = v]
Unlock(p) == holder' = IF holder = p THEN NoProcess ELSE holder

\* The publisher moves the manifest, forward or back.
Publish == \E v \in PluginVersions : v # latest /\ latest' = v
           /\ UNCHANGED <<kept, active, before, holder, proc, pinned, mishaps>>

-----------------------------------------------------------------------------
(* A stable source: read the active release, fetch the manifest, install.   *)

StartSource(p, policy) ==
    /\ proc[p].step = "idle" /\ holder = NoProcess
    /\ proc' = [proc EXCEPT ![p] = [Resting EXCEPT !.step = "fetch", !.policy = policy,
                                                   !.seen = active]]
    /\ UNCHANGED <<latest, kept, active, before, holder, pinned, mishaps>>

\* What happens to a process whose update failed: it keeps the release it
\* has, as long as that one is compatible.
Fallback(p) == Move(p, IF proc[p].seen \in Compatible THEN "loaded" ELSE "failed")

\* The service is unreachable, or its latest release is not for this TFR.
FetchFails(p) ==
    /\ proc[p].step = "fetch"
    /\ Fallback(p)
    /\ UNCHANGED <<latest, kept, active, before, holder, pinned, mishaps>>

\* The manifest is compared with the release read before the request.
Fetch(p) ==
    LET seen == proc[p].seen IN
    /\ proc[p].step = "fetch"
    /\ IF latest \notin Compatible
       THEN Fallback(p)
       ELSE IF seen # NoVersion /\ (latest <= seen \/ proc[p].policy = "notify")
       THEN proc' = [proc EXCEPT ![p].wanted = latest,
                                 ![p].step = IF latest >= seen /\ seen \in Compatible
                                             THEN "loaded" ELSE "failed"]
       ELSE proc' = [proc EXCEPT ![p].wanted = latest, ![p].step = "install"]
    /\ UNCHANGED <<latest, kept, active, before, holder, pinned, mishaps>>

\* Seeded fault: the manifest is trusted, installed releases are not looked at.
InstallUnscanned(p) ==
    /\ proc[p].step = "install" /\ holder = NoProcess
    /\ kept' = kept \cup {proc[p].wanted}
    /\ Move(p, "switch") /\ holder' = p
    /\ UNCHANGED <<latest, active, before, pinned, mishaps>>

\* Under the lock every installed release is looked at again: a newer one,
\* put there by another process meanwhile, refuses this one.  A new release
\* is fetched into a staging directory and renamed.
Install(p) ==
    LET v == proc[p].wanted IN
    /\ proc[p].step = "install" /\ holder = NoProcess
    /\ \A k \in kept : k <= v
    /\ kept' = kept \cup {v}
    /\ Move(p, "switch") /\ holder' = p
    /\ UNCHANGED <<latest, active, before, pinned, mishaps>>

\* A refused release, or a staging that failed (git, tag, project).
InstallFails(p) ==
    /\ proc[p].step = "install" /\ holder = NoProcess
    /\ Fallback(p)
    /\ UNCHANGED <<latest, kept, active, before, holder, pinned, mishaps>>

\* tfr --rollback-plugin, by a process of its own.
RollbackPlugin(p) ==
    /\ proc[p].step = "idle" /\ holder = NoProcess
    /\ before \in Compatible
    /\ proc' = [proc EXCEPT ![p] = [Resting EXCEPT !.step = "switch", !.seen = active,
                                                   !.wanted = before, !.back = TRUE]]
    /\ holder' = p
    /\ UNCHANGED <<latest, kept, active, before, pinned, mishaps>>

\* Activation: `previous' first, then `current'.
SwitchPrevious(p) ==
    /\ proc[p].step = "switch"
    /\ IF active = proc[p].wanted
       THEN Loads(p, active) /\ Unlock(p) /\ UNCHANGED before
       ELSE /\ proc' = [proc EXCEPT ![p].step = "point", ![p].old = before]
            /\ before' = IF active = NoVersion THEN before ELSE active
            /\ UNCHANGED holder
    /\ UNCHANGED <<latest, kept, active, pinned, mishaps>>

SwitchCurrent(p) ==
    /\ proc[p].step = "point"
    /\ active' = proc[p].wanted
    /\ Loads(p, active') /\ Unlock(p)
    /\ UNCHANGED <<latest, kept, before, pinned, mishaps>>

SwitchFails(p) ==
    /\ proc[p].step = "point" /\ mishaps < MaxPluginFaults
    /\ mishaps' = mishaps + 1
    /\ before' = IF active = NoVersion THEN before ELSE proc[p].old
    /\ Fallback(p) /\ Unlock(p)
    /\ UNCHANGED <<latest, kept, active, pinned>>

-----------------------------------------------------------------------------
(* A pinned source: clone, fetch the commit, check it out, verify.          *)

\* Seeded fault: an existing checkout is taken as it is.
LookTrusting(p) ==
    /\ pin[p] = "idle"
    /\ pin' = [pin EXCEPT ![p] = IF head = "none" THEN "clone" ELSE "loaded"]
    /\ UNCHANGED <<head, stable, mishaps>>

\* An existing checkout is verified (origin, commit, paths, clean tree).
Look(p) ==
    /\ pin[p] = "idle"
    /\ pin' = [pin EXCEPT ![p] = IF head = "none" THEN "clone"
                                 ELSE IF head = "ref" THEN "loaded" ELSE "failed"]
    /\ UNCHANGED <<head, stable, mishaps>>

\* git clone refuses a directory another process began to fill.
StartClone(p) ==
    /\ pin[p] = "clone"
    /\ IF head = "none"
       THEN head' = "empty" /\ pin' = [pin EXCEPT ![p] = "cloning"]
       ELSE pin' = [pin EXCEPT ![p] = "failed"] /\ UNCHANGED head
    /\ UNCHANGED <<stable, mishaps>>

\* A failing clone removes what it made, a killed one (timeout) does not.
EndClone(p) ==
    /\ pin[p] = "cloning"
    /\ \/ head' = "default" /\ pin' = [pin EXCEPT ![p] = "fetch"]
       \/ head' = "none" /\ pin' = [pin EXCEPT ![p] = "failed"]
       \/ UNCHANGED head /\ pin' = [pin EXCEPT ![p] = "failed"]
    /\ UNCHANGED <<stable, mishaps>>

\* A failing fetch removes the checkout; a timeout raises past the removal
\* and leaves the clone at its default branch.
FetchCommit(p) ==
    /\ pin[p] = "fetch"
    /\ \/ head' = "ref" /\ pin' = [pin EXCEPT ![p] = "loaded"]
       \/ head' = "none" /\ pin' = [pin EXCEPT ![p] = "failed"]
       \/ UNCHANGED head /\ pin' = [pin EXCEPT ![p] = "failed"]
    /\ UNCHANGED <<stable, mishaps>>

-----------------------------------------------------------------------------
\* A process ends, or dies in the middle of a step; it starts afresh.
LeaveStable(p) ==
    /\ proc[p].step \in {"loaded", "failed"}
    /\ proc' = [proc EXCEPT ![p] = Resting]
    /\ UNCHANGED <<latest, kept, active, before, holder, pinned, mishaps>>
PerishStable(p) ==
    /\ proc[p].step # "idle" /\ mishaps < MaxPluginFaults
    /\ mishaps' = mishaps + 1
    /\ proc' = [proc EXCEPT ![p] = Resting]
    /\ Unlock(p)
    /\ UNCHANGED <<latest, kept, active, before, pinned>>
LeavePinned(p) ==
    /\ pin[p] \in {"loaded", "failed"}
    /\ pin' = [pin EXCEPT ![p] = "idle"]
    /\ UNCHANGED <<head, stable, mishaps>>
PerishPinned(p) ==
    /\ pin[p] # "idle" /\ mishaps < MaxPluginFaults
    /\ mishaps' = mishaps + 1
    /\ pin' = [pin EXCEPT ![p] = "idle"]
    /\ UNCHANGED <<head, stable>>

StableNext ==
    \/ Publish
    \/ \E p \in Processes :
        \/ \E policy \in {"auto", "notify"} : StartSource(p, policy)
        \/ FetchFails(p) \/ Fetch(p) \/ Install(p) \/ InstallFails(p)
        \/ RollbackPlugin(p) \/ SwitchPrevious(p) \/ SwitchCurrent(p) \/ SwitchFails(p)
        \/ LeaveStable(p) \/ PerishStable(p)
PinnedNext ==
    \E p \in Processes :
        \/ Look(p) \/ StartClone(p) \/ EndClone(p) \/ FetchCommit(p)
        \/ LeavePinned(p) \/ PerishPinned(p)

\* The two kinds of source share no state: a process resolves them in turn.
PluginsNext == StableNext \/ PinnedNext

PluginsSpec == PluginsInit /\ [][PluginsNext]_pluginVars

-----------------------------------------------------------------------------
\* The active release goes back only by a rollback, although the manifest may
\* be withdrawn and another process may install a newer release between this
\* one's look at the pointers and its installation (plugin_releases.py:790).
NeverOlder ==
    [][active # NoVersion /\ active' < active =>
           \E p \in Processes : holder = p /\ proc[p].back]_pluginVars

\* A process that had a compatible release ends without plugins only when the
\* manifest named an older release than the active one; a failed check or
\* update leaves it what it had (plugin_sources.py:246-306).
StartsWithWhatItHad ==
    \A p \in Processes :
        proc[p].step = "failed" /\ proc[p].seen \in Compatible => proc[p].wanted < proc[p].seen

\* Pinned code is imported at its exact commit only, also while another
\* process is still cloning or gave up half-way (plugin_sources.py:204).
PinnedExact == \A p \in Processes : pin[p] = "loaded" => head = "ref"

\* Updating a source never costs what it had: a failed installation leaves the plugin that
\* was there, and a pinned source runs the pinned commit.
SourcesSound == StartsWithWhatItHad /\ PinnedExact
=============================================================================
