---------------------------- MODULE SetupInstall ----------------------------
(* The setup assistant: it writes the files of a deployment profile in      *)
(* order, asks before it replaces one, keeps a backup of what it replaces,  *)
(* and may end early on an error.  It can be run again for another profile. *)
(* Between the runs the user edits the files.                               *)
EXTENDS Sequences, Naturals, FiniteSets

CONSTANTS MaxRuns, MaxEdits     \* bounds: runs of the assistant, edits by the user

ProfileNames == {"all-in-one", "local-split", "gateway", "remote-ui"}
Configuration == {"config", "worlds", "agents"}
Launchers == {"tfr-local", "tfr-gateway", "tfr-ui", "tfr-remote-ui", "tfr-doctor"}
Paths == Configuration \cup Launchers \cup {"token", "handoff"}

\* The words of each launcher's command after the executable.
Command(path, profile) ==
    CASE path = "tfr-local" -> <<"--config", "main">>
      [] path = "tfr-gateway" /\ profile = "gateway" ->
             <<"gateway", "--config", "main", "--listen-host", "host">>
      [] path = "tfr-gateway" /\ profile # "gateway" -> <<"gateway", "--config", "main">>
      [] path = "tfr-ui" -> <<"ui", "--config", "main">>
      [] path = "tfr-remote-ui" -> <<"ui", "--config", "main", "--gateway-host", "host">>
      [] path = "tfr-doctor" -> <<"doctor", "--profile", profile, "--config", "main">>
      [] OTHER -> <<>>

\* launcher_script: the words are joined by a line continuation and a plus
\* sign, which the shell passes on as a word of its own.
LauncherScript(words) ==
    [n \in 1..(2 * Len(words)) |-> IF n % 2 = 1 THEN "+" ELSE words[n \div 2]]

\* The command line's parser: its first positional word must name a mode.
Parses(words) ==
    words = <<>> \/ words[1] \in {"gateway", "ui", "doctor", "--config"}

\* The files of each profile, in the order the assistant writes them.
Plan(profile) ==
    CASE profile = "all-in-one" -> <<"config", "worlds", "agents", "tfr-local", "tfr-doctor">>
      [] profile = "local-split" ->
             <<"config", "worlds", "agents", "tfr-gateway", "tfr-ui", "tfr-doctor">>
      [] profile = "gateway" ->
             <<"config", "worlds", "agents", "token", "handoff", "tfr-gateway", "tfr-doctor">>
      [] profile = "remote-ui" -> <<"tfr-remote-ui", "tfr-doctor">>

VARIABLES
    file,           \* contents of each path, or Nothing
    saved,          \* backups: pairs of a path and contents
    wizard,         \* the run under way: profile and files still to write
    runs, edits     \* bounded counters

setupVars == <<file, saved, wizard, runs, edits>>

\* Contents: what a run wrote (the words of a launcher), or the user's n-th edit.
Nothing == [by |-> "nobody", run |-> 0, words |-> <<>>]
Written(path) == [by |-> "wizard", run |-> runs,
                  words |-> IF path \in Launchers
                            THEN LauncherScript(Command(path, wizard.profile)) ELSE <<>>]
Done == [profile |-> "remote-ui", left |-> <<>>]

SetupInit ==
    /\ file = [p \in Paths |-> Nothing] /\ saved = {}
    /\ wizard = Done /\ runs = 0 /\ edits = 0

StartSetup(profile) ==
    /\ wizard.left = <<>> /\ runs < MaxRuns
    /\ runs' = runs + 1
    /\ wizard' = [profile |-> profile, left |-> Plan(profile)]
    /\ UNCHANGED <<file, saved, edits>>

Advance == wizard' = [wizard EXCEPT !.left = Tail(@)]

\* Seeded fault: a confirmed replacement is written without a backup.
WriteOver(path) ==
    /\ file' = [file EXCEPT ![path] = Written(path)]
    /\ UNCHANGED saved

\* _write_file: a new file, or a replacement after its backup.
Write(path) ==
    /\ saved' = IF file[path] = Nothing THEN saved ELSE saved \cup {<<path, file[path]>>}
    /\ file' = [file EXCEPT ![path] = Written(path)]

\* Declined: the file stays.  Keeping the worlds keeps existing agents too.
Keep(path) ==
    /\ file[path] # Nothing
    /\ UNCHANGED <<file, saved>>

\* The token is generated once and never replaced.
SetupStep ==
    /\ wizard.left # <<>>
    /\ LET path == Head(wizard.left) IN
       \/ Keep(path)
       \/ (path = "token" => file[path] = Nothing) /\ Write(path)
    /\ Advance
    /\ UNCHANGED <<runs, edits>>

\* A backup or a write fails (OSError): the run ends where it is.  The
\* backup may already be there.
SetupFails ==
    /\ wizard.left # <<>>
    /\ LET path == Head(wizard.left) IN
       \/ UNCHANGED saved
       \/ file[path] # Nothing /\ saved' = saved \cup {<<path, file[path]>>}
    /\ wizard' = Done
    /\ UNCHANGED <<file, runs, edits>>

\* The user changes a file the assistant wrote.
Edit(path) ==
    /\ wizard.left = <<>> /\ file[path].by = "wizard" /\ edits < MaxEdits
    /\ edits' = edits + 1
    /\ file' = [file EXCEPT ![path] = [by |-> "user", run |-> edits + 1, words |-> <<>>]]
    /\ UNCHANGED <<saved, wizard, runs>>

SetupNext ==
    \/ \E profile \in ProfileNames : StartSetup(profile)
    \/ SetupStep \/ SetupFails
    \/ \E path \in Configuration : Edit(path)
SetupSpec == SetupInit /\ [][SetupNext]_setupVars

-----------------------------------------------------------------------------
\* Every edit the user made is in its file or in a backup, however often and
\* for whichever profile the assistant is run, and wherever it ends
\* (README.md:39: "it backs up files before approved replacement").
EditsSurvive ==
    \A n \in 1..edits :
        \E path \in Configuration :
            LET mine == [by |-> "user", run |-> n, words |-> <<>>] IN
            file[path] = mine \/ <<path, mine>> \in saved

\* A generated launcher starts the program it is named for (README.md:59-62).
LaunchersStart ==
    \A path \in Launchers : file[path] # Nothing => Parses(file[path].words)
=============================================================================
