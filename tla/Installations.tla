--------------------------- MODULE Installations ---------------------------
(* Managed installations of TFR: release directories below one root, the    *)
(* `current' and `previous' symlinks, the installation lock, and the shells *)
(* and Gateways that install, activate and roll back releases.  A build     *)
(* runs without the lock, so two installers overlap; a process may die at   *)
(* any step, which releases its lock and leaves the pointers as they are.   *)
EXTENDS Integers, FiniteSets

CONSTANTS
    Installers,     \* processes that install or activate
    Releases,       \* identities: VERSION+stable.COMMIT or VERSION+git.COMMIT
    NoRelease,      \* an absent pointer
    NoInstaller,    \* a free lock
    MaxInstallFaults   \* bound: failed pointer replacements and crashes

ASSUME InstallationAssumption ==
    /\ \A r \in Releases : r.version \in Nat /\ r.stable \in BOOLEAN
    /\ MaxInstallFaults \in Nat
    /\ NoRelease \notin Releases /\ NoInstaller \notin Installers

VARIABLES
    installed,      \* complete release directories
    current,        \* the release new processes run
    previous,       \* the release a rollback selects
    lock,           \* holder of install.lock
    job,            \* what each installer is doing
    replaced,       \* history: what `current' named before its last change
    deaths,         \* history: processes that died
    instFaults      \* failures so far, bounded

instVars == <<installed, current, previous, lock, job, replaced, deaths, instFaults>>
pointers == <<current, previous, replaced>>

Steps == {"idle", "building", "built", "activate", "point", "restore"}
\* release: what is installed or activated; old: the value of `previous' the
\* activation saw; candidate: the manifest allows a version once more.
Idle == [step |-> "idle", release |-> NoRelease, old |-> NoRelease,
         activate |-> FALSE, candidate |-> FALSE]

InstTypeOK ==
    /\ installed \subseteq Releases
    /\ {current, previous, replaced} \subseteq installed \cup {NoRelease}
    /\ lock \in Installers \cup {NoInstaller}
    /\ job \in [Installers -> [step : Steps, release : Releases \cup {NoRelease},
                                old : Releases \cup {NoRelease},
                                activate : BOOLEAN, candidate : BOOLEAN]]
    /\ \A i \in Installers : job[i].step \in {"activate", "point", "restore"} <=> lock = i
    /\ instFaults \in 0..MaxInstallFaults /\ deaths \in 0..instFaults

InstInit ==
    /\ installed = {} /\ lock = NoInstaller
    /\ current = NoRelease /\ previous = NoRelease /\ replaced = NoRelease
    /\ job = [i \in Installers |-> Idle]
    /\ deaths = 0 /\ instFaults = 0

Locked(i) == lock = NoInstaller /\ lock' = i
Finish(i) ==
    /\ job' = [job EXCEPT ![i] = Idle]
    /\ lock' = IF lock = i THEN NoInstaller ELSE lock

-----------------------------------------------------------------------------
(* Installing: a check under the lock, a build without it, and the check    *)
(* again when the staged release is moved into place.                       *)

\* A stable release must not be older than an installed one, nor have the
\* version of one from another commit (unless candidates are installed).
Downgrades(r, candidate) ==
    r.stable /\ \E s \in installed :
        s.stable /\ \/ s.version > r.version
                    \/ s.version = r.version /\ s.commit # r.commit /\ ~candidate

\* Start: an installed release is only activated, another one is built.
StartInstall(i, r, activate, candidate) ==
    /\ job[i] = Idle
    /\ ~Downgrades(r, candidate)
    /\ IF r \in installed
       THEN /\ activate /\ Locked(i)
            /\ job' = [job EXCEPT ![i] = [Idle EXCEPT !.step = "activate", !.release = r]]
       ELSE /\ lock = NoInstaller /\ UNCHANGED lock
            /\ job' = [job EXCEPT ![i] = [step |-> "building", release |-> r, old |-> NoRelease,
                                            activate |-> activate, candidate |-> candidate]]
    /\ UNCHANGED <<installed, pointers, deaths, instFaults>>

\* The archive, the wheel and the environment are complete in a staging
\* directory.  A failed build removes it again.
FinishBuild(i) ==
    /\ job[i].step = "building"
    /\ job' = [job EXCEPT ![i].step = "built"]
    /\ UNCHANGED <<installed, pointers, lock, deaths, instFaults>>
FailBuild(i) ==
    /\ job[i].step = "building"
    /\ Finish(i)
    /\ UNCHANGED <<installed, pointers, deaths, instFaults>>

\* Under the lock again.  Another installer may have been faster: the same
\* release is kept, a newer one refuses this one.  A release that fails its
\* verification stays installed and is not activated.
Commit(i) ==
    LET r == job[i].release IN
    /\ job[i].step = "built" /\ lock = NoInstaller
    /\ ~Downgrades(r, job[i].candidate)
    /\ installed' = installed \cup {r}
    /\ \/ /\ job[i].activate /\ Locked(i)
          /\ job' = [job EXCEPT ![i] = [Idle EXCEPT !.step = "activate", !.release = r]]
       \/ Finish(i)
    /\ UNCHANGED <<pointers, deaths, instFaults>>

\* A busy lock or a release that became a downgrade ends the installation.
CommitRefused(i) ==
    /\ job[i].step = "built"
    /\ lock # NoInstaller \/ Downgrades(job[i].release, job[i].candidate)
    /\ Finish(i)
    /\ UNCHANGED <<installed, pointers, deaths, instFaults>>

-----------------------------------------------------------------------------
(* Activation: `previous' takes the value of `current', then `current' is   *)
(* replaced; a failed replacement puts `previous' back.                     *)

Activate(i, r) ==
    /\ job[i] = Idle /\ r \in installed /\ Locked(i)
    /\ job' = [job EXCEPT ![i] = [Idle EXCEPT !.step = "activate", !.release = r]]
    /\ UNCHANGED <<installed, pointers, deaths, instFaults>>

Rollback(i) == previous # NoRelease /\ Activate(i, previous)

\* The active release stays active without touching the pointers.
PointPrevious(i) ==
    /\ job[i].step = "activate"
    /\ IF current = job[i].release
       THEN Finish(i) /\ UNCHANGED previous
       ELSE /\ job' = [job EXCEPT ![i].step = "point", ![i].old = previous]
            /\ previous' = IF current = NoRelease THEN previous ELSE current
            /\ UNCHANGED lock
    /\ UNCHANGED <<installed, current, replaced, deaths, instFaults>>

PointCurrent(i) ==
    /\ job[i].step = "point"
    /\ current' = job[i].release /\ replaced' = current
    /\ Finish(i)
    /\ UNCHANGED <<installed, previous, deaths, instFaults>>

\* Seeded fault: the failed activation is reported at once.
PointFailsHard(i) ==
    /\ job[i].step = "point" /\ instFaults < MaxInstallFaults
    /\ instFaults' = instFaults + 1
    /\ Finish(i)
    /\ UNCHANGED <<installed, pointers, deaths>>

\* The symlink cannot be replaced.
PointFails(i) ==
    /\ job[i].step = "point" /\ instFaults < MaxInstallFaults
    /\ instFaults' = instFaults + 1
    /\ IF current = NoRelease
       THEN Finish(i)
       ELSE job' = [job EXCEPT ![i].step = "restore"] /\ UNCHANGED lock
    /\ UNCHANGED <<installed, pointers, deaths>>

RestorePrevious(i) ==
    /\ job[i].step = "restore"
    /\ previous' = job[i].old
    /\ Finish(i)
    /\ UNCHANGED <<installed, current, replaced, deaths, instFaults>>

\* The process dies: the kernel releases its lock, its staging directory
\* stays behind, hidden from every list.
Die(i) ==
    /\ job[i] # Idle /\ instFaults < MaxInstallFaults
    /\ instFaults' = instFaults + 1 /\ deaths' = deaths + 1
    /\ Finish(i)
    /\ UNCHANGED <<installed, pointers>>

-----------------------------------------------------------------------------
InstNext ==
    \E i \in Installers :
        \/ \E r \in Releases, activate, candidate \in BOOLEAN :
               StartInstall(i, r, activate, candidate)
        \/ FinishBuild(i) \/ FailBuild(i) \/ Commit(i) \/ CommitRefused(i)
        \/ \E r \in installed : Activate(i, r)
        \/ Rollback(i) \/ PointPrevious(i) \/ PointCurrent(i) \/ PointFails(i)
        \/ RestorePrevious(i) \/ Die(i)

InstSpec == InstInit /\ [][InstNext]_instVars

-----------------------------------------------------------------------------
\* No installation adds a stable release older than one that is already
\* there, whichever of two overlapping builds ends first
\* (install_checkout.py:140 checks, 271 checks again).
NoDowngrade ==
    [][\A r \in installed' \ installed, s \in installed :
           r.stable /\ s.stable => s.version <= r.version]_instVars

\* While nobody is at work and no process died in between, a rollback leads
\* back to the release that was active before: a failed activation does not
\* cost the previous release (installations.py:320-344).
RollbackReady ==
    lock = NoInstaller /\ deaths = 0 /\ current # NoRelease => previous = replaced
=============================================================================
