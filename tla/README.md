# TFR: models and proofs

TFR is a terminal client for text worlds (MUCKs and MUSHes). Three kinds of
process take part: a *world connector* that owns the sockets to the worlds, a
*Gateway* that owns history, plugins and configuration, and *UIs* (terminal or
browser) that attach to the Gateway. This directory holds TLA+ models of these
processes and of the stores and stream processors inside them, TLC
configurations that check the models on small instances, and TLAPS proofs for
all instances. Paths are relative to the repository; `gateway.py` and the like
are in `src/tfr/`.

## Inventory

| Component | State | Operations | Interacts with | Hard because |
|---|---|---|---|---|
| Supervisor (`world_connector.py` `supervise_gateway`) | the Gateway's process, stop and restart requests, back-off, lease | start, hand over, terminate, pause, end | Gateway process, signals | requests, crashes and the lease race while a child boots |
| World connector (`world_connector.py`) | replay buffer per world, overflow notices, attached Gateway, delivery lock | publish, attach, acknowledge, replay, expire, shut down | world connections, Gateway bridge | Gateway crashes and restarts, pipes fill, publishers are cancelled between two writes |
| World connection (`_WorldConnection`) | runner, generation, command queue, quit flag | connect, log in, read, write, reconnect | connector, world | reconnections race commands, stop and start |
| Bridge and sessions (`sessions.py`) | view of every world, command queue, write loop | start, stop, handle frame, acknowledge, submit | connector, event bus | the view lags behind the connection |
| World text (`telnet.py`, `sessions.py` `TextFramer`) | protocol state, pending text | read a chunk, flush a prompt | world connection | chunks are cut anywhere |
| Event bus and history (`core.py`, `gateway.py`) | ingress queue, cursor, history per world, drop marks, counts, subscriptions | publish, pump, subscribe, deliver, overflow, stop | sessions, UIs, gag policy | snapshot against live feed, slow UIs, retention, changing policy |
| Gateway server (`gateway.py`) | UI connections, update participants, broadcasts | hello, requests, coordinated update | UIs, all stores | a participant is registered after its snapshot was taken |
| Native UI client (`gateway_client.py`) | cursor, connection, reading task, heartbeat, recoveries, locks | connect, resume, read, reconnect, recover | Gateway, event bus of the UI, plugins | several recoveries at once, restarts, cancelled tasks |
| Web Gateway (`gateway_web.py`) | WebSocket connections, limits, transfers | connect, feed, revoke, transfer | devices, browsers | revocation while connections are set up |
| Browser page (`web/app.mjs`) | transcript, cursor, generation | handle a message, reconnect | web Gateway | a connection breaks inside a snapshot |
| Configuration store (`gateway_configuration.py`) | document with its revision, audit log, layers of values | set, reset, batch, undo, read | UIs, plugins, import, migration | writers in threads, two files per commit, crashes between them |
| Import and migration (`configuration_transfer.py`, `gateway_migration.py`) | saved states with the document before them | apply, roll back, remove a profile | store | the state is saved before the commit it speaks of |
| Configuration sync (`configuration_sync.py`, `gateway.py`, `gateway_client.py`) | participants, views under way, reported revisions | greet, publish, apply, acknowledge | store, UIs | views torn by commits, lost connections, restarts |
| UI identities and devices (`gateway_uis.py`, `ui_identity.py`, `gateway_devices.py`) | records in memory and in a file, pairing codes, tokens | register, pair, rotate, revoke, expire, claim | Gateway server, imports | failed writes, expiry, two processes that start |
| Plugins (`plugins.py`) | registry, lifecycle queue, worlds told | register, roll back, publish, merge, dispatch, reconcile | sessions, UI client | a plugin fails half-way, publications are cancelled |
| Plugin sources and releases (`plugin_sources.py`, `plugin_releases.py`) | checkouts, installed releases, pointers, lock | fetch, install, switch, roll back, pin | every process that starts | processes overlap and die |
| Agents (`agents.py`) | batch, cooldown, recent messages, call in flight | trigger, wake, ask, judge, pause | session, model provider | stale answers |
| Coordinated update (`gateway.py`, `gateway_client.py`) | phase, participants, staged update | ask, prepare, commit, abort | Gateway, UIs, installations | participants come, go and time out |
| Installations (`installations.py`, `install_checkout.py`) | releases, `current`, `previous`, lock | install, activate, roll back | launchers, updates | builds overlap, two pointers, deaths |
| Update checks (`updates.py`) | result, ETag, cache file | ask, answer, load | release server, other processes | an ETag kept without its manifest |
| Setup assistant (`setup_install.py`) | files of a deployment profile, backups | run, back up, replace | the user | edits between runs, early ends |
| Command line (`cli.py`) | | pick a program | all programs | options of one mode given to another |
| Output pane (`pager.py`) | rows, entries, position, pause, unread | receive, page, scroll, resize, clear | terminal UI | trimming and rewrapping move positions |
| Terminal UI transfers (`tui.py`) | the transfer under way, preview tasks | type, paste, send an image, cancel | Gateway, worlds | the world reconnects while lines are paced |
| Presentation, settings, profiles, diagnostics | | | | mostly formatting and files |

What makes each correct:

- *supervisor and connector*: worlds outlive the Gateway, no frame disappears
  without a notice, frames arrive in order and once per Gateway;
- *commands*: order, at most once, login first, only on the connection they
  were meant for, nothing waits for ever;
- *text*: lines do not depend on how the network cut them;
- *history*: snapshot and feed fit together exactly, a missing event is always
  reported, a slow UI is told and blocks nobody;
- *UI client*: what it displays is the Gateway's feed without silent gaps,
  duplicates or reordering, over any sequence of failures; it recovers, and it
  shows plugins the connection it has;
- *browser*: a transcript without holes, no socket for a revoked device, a
  transfer slot that is freed;
- *configuration*: every confirmed change is one compare-and-set, undo and
  rollback bring back exactly what was there, nothing visible is taken back,
  UIs see whole documents and converge to what was published;
- *records*: a code or token is good once, before it expires, unless revoked;
  a file that was written can be read again;
- *plugins*: handlers know the true state of every world, a registration that
  fails leaves nothing behind;
- *agents*: no more messages than the limits allow, none that was decided
  before the last event was read;
- *updates and installations*: all participants commit or none, a rollback
  leads back to what ran before, versions do not go down by themselves;
- *terminal UI*: no output passes unseen, a transfer arrives as a whole prefix.

`PROJECT.json` lists all components with their files and all hazards with
their lines.

## Modules

| Module | Models | State and actions |
|---|---|---|
| `EventHistory` | `EventHistory` and the bus of the Gateway | `Publish`, `Pump` (with `Count`, `Retain`/`Drop`, `Deliver`), `Subscribe`, `Take`, `Unsubscribe`, `ManageGag`, `StopJoin`, `StopClose` |
| `EventFeed` | abstract: what a UI may rely on | `Publish`, `Display`, `Report`, `GatewayGone`, `StartOver` |
| `GatewayFeed` | extends `EventHistory` with a UI, connections and Gateway restarts | `Hello`, `Install`, `ReadEvent`, `Publishing`, `ReadEnd`, `Reconnect`, `DialFails`, `Break`, `Hangup`, `GatewayRestart`, `Reload` |
| `ClientLifecycle` | pump, heartbeat, restarts and recoveries of a UI | `GatewayStep`, `HeartbeatFails`, `AskRestart`, `BeginUpdate`/`EndUpdate`/`CommitUpdate`, `TaskStep` (the pump and the recoveries S, M, R, U, first come first served for two locks) |
| `WorldConnector` | replay buffer, attach protocol and bridge | `Publish`, `Acquire`, `Drained`, `Abort` (publishers and the delivery lock); `Accept`, `HandleMessage`, `End`, `Expire`, `Exit` (the connector); `GatewayStart` ... `GatewayShutdown` (the Gateway) |
| `GatewaySupervisor` | `supervise_gateway` and its child | `SupervisorStep`, `ChildStep`, `Crash`, `Error`, `RestartForUpdate`, `ChildAsksRestart`, `StopService`, `LeaseRunsOut` |
| `WorldCommands` | command queue to world socket, for one world | `Submit`, `TakeCommand`, `SendCommand`, `HandleState`, `Control`, `Detach`, `Restart`, `GatewayRestart` (the Gateway); `Receive`, `Unblock`, `Connect`, `SendStartup`, `WriteCommand`, `RemoteCloses`, `Retry` (the connector) |
| `ConfigurationStore` | document, audit log, import, migration | `Ask`, `Edit`, `Undo`, `Remove`, `SaveImport`, `SaveMigration`, `ReplaceDocument`, `RollbackImport`, `RollbackMigration`, `Clear`, `Refuse`, `Answer`, `Crash` |
| `ConfigurationSync` | extends `ConfigurationStore` with the UIs and what they are told | `Greet`, `Register`, `Publish`, `Abandoned`, `ReadSettings`, `ReadRevision`, `TakeAck` (the Gateway); `ReceiveHello`, `ReceiveConfiguration`, `Break` (the UIs); `GatewayDies` |
| `UpdateCoordination` | the transaction of Gateway and UIs | `Ask`, `CoordinatorStep` (check, stage, prepare, commit, abort), `UiStep`, `Expiry`, `Break`, `Connect` |
| `UpdateChecks` | the conditional check for releases | `Serve`, `AskServer`, `Answered`, `NotModified`, `CheckFails`, `LoadCache` |
| `Installations` | release directories and the two pointers | `StartInstall`, `FinishBuild`, `Commit`, `Activate`, `Rollback`, `PointPrevious`, `PointCurrent`, `PointFails`, `RestorePrevious`, `Die` |
| `SetupInstall` | the setup assistant | `StartSetup`, `SetupStep`, `SetupFails`, `Edit` |
| `PluginLifecycle` | lifecycle queue and reconciliation | `Inbound`, `Change`, `CancelPump`, `Reconcile`, `ResumePublisher`, `Deliver`, `Handle`, `ActivateBoss` |
| `PluginRegistry` | registrations | `StartLoad`, `Add`, `EndLoad`, `FailLoad`, `StartRules`, `TakeRules`, `RemoveRaising` |
| `PluginSources` | stable and pinned sources | `StableNext` (`Fetch`, `Install`, `SwitchPrevious`, ...), `PinnedNext` (`Look`, `StartClone`, `FetchCommit`, ...) |
| `Agents` | one agent and the session of its world | `Hear`, `Wake`, `BeginTurn`, `AskModel`, `TakeAnswer`, `Judge`, `Pause`, `WriteCommand`, `Tick` |
| `GatewayDevices` | paired devices | pair, authenticate, rotate, expire, revoke (`DeviceRequest`), `WebRestart` |
| `WebGateway` | extends `GatewayDevices` with WebSocket connections and transfers | `Reserve`, `Subscribe`, `Mark`, `Register`, `RevokeDevice`, `RevokeSockets`, `Leave`, `StartPaste`, `RunPaste`, `UserStopsPaste` |
| `WebFeed` | the transcript of a page | `SendInitialState`, `SendEvent`, `BreakPage`, `HandleMessage`, `EvictOldest` |
| `GatewayUis` | UI records and identities | `RegisterUi`, `Rename`, `Claim`, `Link`, `Import`, `RemoveProfile`, `Forget`, `UisRestart`, `CreateIdentity` |
| `Display` | the output pane | `Receive`, `Resize`, `PageDown`, `PageUp`, `GoToEnd`, `ClearScreen`, `RestoreScrollback` |
| `PacedTransfers` | lines, pastes and images to a world | `TypeLine`, `Paste`, `StartImage`, `LineDue`, `TakeLineAnswer`, `CancelImage`, `ConfirmImage`, `LoseGateway` |
| `TelnetText` | bytes to lines | `WorldSends`, `ReadChunk`, `FlushPrompt` |
| `CommandLine` | modes and options | `RunCli` |
| `EventHistoryProofs`, `WorldConnectorProofs`, `WorldCommandsProofs`, `ConfigurationStoreProofs`, `ConfigurationSyncProofs` | | theorems about the module of that name; `WorldCommandsProofs` also about `TelnetText` |
| `ConnectionProofs`, `ComponentsProofs`, `ActorsProofs` | | theorems about the components that `MCConnection`, `MCComponents` and `MCActors` check |
| `MC*` | instances for TLC | |

Correspondence. `EventHistory` represents an item of the history by its
cursor, an index of the ghost variable `log`; an event has a world, a
generation and a class, the pair of kind and actor type that filters and the
gag policy can tell apart. The body of the pump and of `subscribe` run under
one lock without awaiting anything, so each is one step; publishing, pumping
and sending are separate because they are separate tasks. `WorldConnector`
represents a frame by its place in `log`; the writes of a holder of the
delivery lock are a *job* that stops whenever the pipe is above its high-water
mark, because that is where `drain()` suspends and where cancellation and loss
of the connection are noticed. `WorldCommands` splits the write loop where it
awaits the audit event, `_detach` where it awaits the connector, and startup
at every `put`. `GatewayFeed` splits the reading task where it awaits the UI's
event bus. `ConfigurationStore` makes the whole of a locked mutation one step, since
it holds the store's lock from its reload to the end, with four outcomes of
`_commit`: written, audit log not written, directory not synced, process dead
between the two files. What happens outside the lock (the look at the revision
of an import or migration, its saved state, the clearing after a rollback) are
steps of their own; those of imports are on the event loop, which does nothing
else until they end (`LoopFree`). The ghost variable `past` keeps every
revision with the request that made it. `ConfigurationSync` splits a view into
the reading of the document and that of the revision, because a thread may
commit in between; the event loop does nothing else meanwhile (`LoopIdle`).

`ClientLifecycle` models the recoveries as tasks with a program counter; each
of the two asyncio locks is a queue with its holder in front, because waiters
are served in order, and a step ends where the code awaits. `GatewaySupervisor`
gives the child the stages the supervisor can tell apart by what a signal does
to it: booting (a signal kills it), serving (it stops), stopping.
`UpdateCoordination` numbers the connections of a UI, so that an answer or a
request for a lost one reaches nobody. The stores (`GatewayDevices`,
`GatewayUis`) keep memory and file apart, since a failed write leaves them
different; their operations await nothing under their lock and are one step
each. The handlers of `WebGateway` are cut where they await. `Installations`
and `PluginSources` cut where another process can see the file system: at the
lock, at each pointer replacement, and around a build, which runs without the
lock; a process may die at each. In `Display` an entry is its length and the
result of wrapping a number of rows; in `TelnetText` each byte carries the text
it stands for, which is the reference the result is compared with.
`CommandLine` and `SetupInstall` are functions of modes, options and profiles;
their runs go through all of them within the bounds. Actions carry the names of
the functions they model where these are unique.

Composed runs. `MCConnection`, `MCComponents` and `MCActors` extend several
component modules that share no variable. A variable `part`, fixed in the
initial state, says which one a behaviour follows; the others rest in their
initial states. So every state graph of a component is explored in full, and
none is multiplied with another. The fairness conditions of `MCConnection` are
those of its components, each within its own part. Components that do interact
are composed by extension: `GatewayFeed` over `EventHistory`,
`ConfigurationSync` over `ConfigurationStore`, `WebGateway` over
`GatewayDevices`.

Definitions commented as seeded faults are variants of the definition they
stand before; no specification uses them.

## Runs

| Run | Question | Result |
|---|---|---|
| `history` | Do snapshot and feed fit, is a closed UI told, is everything published delivered or its end told? Are truncation, gaps, counts and caps of snapshots right? | holds |
| `connector_replay` | Is nothing lost but by cancellation, is the order kept, are gaps announced first, is every frame or its notice delivered? | holds |
| `connector_crash` | Do worlds stay connected when the Gateway dies? | violated |
| `connection` | Does a UI over failures implement `EventFeed`, is every event displayed or reported? Does a UI recover, and do plugins see the connection it has? Do worlds outlive every Gateway, and is a requested restart served? | holds |
| `feed_cancel` | Is `EventFeed` implemented when a reconnection cancels a publication? | violated |
| `commands_settle` | Order, at most once, the Gateway's view; does every command of a connected world leave the queues? | holds |
| `config_store` | Is every confirmed change a compare-and-set, are undo, rollback and backups exact, does what readers saw stay? | holds |
| `config_sync` | Do UIs only see whole documents in order, never get ahead, and end with what was published? | holds |
| `config_rollback` | Is a migration rolled back only while that is safe? | violated |
| `config_reset` | Does a reset reveal the original value? | violated |
| `components` | Devices and sockets, transfer slots, UI records, rollback of installations, plugin sources, ETags, transports, edits under the setup assistant, versions that only grow | holds |
| `actors` | Plugin lifecycle and registry, agents, output pane, text, browser transcript, transfers, coordinated updates | holds |

The properties of `components` and `actors` that join several statements
(`DevicesSound`, `UiRecordsSound`, `SourcesSound`, `RegistrySound`,
`TurnsSound`, `PaneSound`, `LinesSound`, `VersionsOnlyGrow`, and likewise
`SnapshotReports`, `RollbacksSound`, `ViewsSound`) have each conjunct as a
definition of its own with its comment.

Bounds. Every bound is a constant named `Max...`. The histories have two
worlds with limits 1 and 2, so that three or four events overflow one world
and not the other; snapshots use requests without caps, with one class, with
every cap at once, and without history; two generations suffice for
"older" and "newer" to alternate. Snapshots are a function of the pumped log
alone, and `SnapshotReports` quantifies over requests and cursors, so one part
of `history` has no subscribers and a fixed policy, but one event more and two
generations; the other part has a subscriber and a policy that hides and shows
one class of two. The connector has two worlds whose frames have sizes 1
and 2 under limits 2 per world and 3 in all, so that a frame can overflow its
own world, the other one, or be too large alone; two connections (a new
Gateway while the old connection is still served), a crash and a cancellation.
One crash is enough for every order of crash, replay, acknowledgement and
overflow because the connector keeps nothing else about a Gateway.
`WorldCommands` has two commands, of which either may be a quit, and queues of
one, so that both queues fill; its run has no startup commands (see below).
`GatewayFeed` has
one world that retains a single event, so that every reconnection may meet a
gap, one restart, and two connections: with the last one the bound allows
nothing breaks, otherwise the bound, and not the code, would decide what the
UI gets.
`ClientLifecycle` has three Gateway processes, so that a UI can miss one, two
attempts of a recovery, and two faults or requests that overlap (a third adds
no new pair); `MaxRecoveries` is never reached. `GatewaySupervisor` has three
children, so that a replacement is replaced.
`ConfigurationStore` has two connections, two keys and three revisions: a
change, one that another connection makes in between, and an undo or rollback;
one crash, and a write that fails as often as it likes. One connection edits,
undoes and imports, the other makes every kind of request (`Asks`). `config_sync`
has two UIs, a batch over a shared and an own key followed by the removal of
the own section, and one broken connection, restarted UI or Gateway crash
(`MaxBreaks` counts all three); its UIs are alike (symmetry; no liveness is
checked there).
`components` has two processes wherever processes overlap and one failure or
death: every operation is retried on its own, so a second failure meets a state
the first could have left. Two devices and two sockets fill `MaxClients`; two
versions, the newer one built from two commits, are what the version rules tell
apart; three plugin versions, of which one is incompatible; three manifests, of
which one is invalid. `CommandLine` takes every pair of options: its rules
compare options with at most one other. `actors` has two UIs, two releases and
two transactions in `UpdateCoordination`, so that an answer may be of an earlier
transaction, connection or release; a minute of two ticks with two messages in
`Agents`; five rows, lines of one to four columns and three moves in `Display`,
so that trimming, rewrapping and paging meet; three lines per transfer and two
transfers in `PacedTransfers`; three items in `TelnetText`, cut at every place.
Symmetry is used for UIs, devices and sockets where no liveness is checked.
Deadlock is checked in the configuration runs and not in the others: each
system stops when its bounds are used up or it is shut down.

Fairness. Weak fairness of the steps of tasks that the event loops run as soon
as they can go on (pump, senders, readers, holders of locks, recoveries), of
the supervisor and of a Gateway process that serves, attaches and stops, and of
the UI's heartbeat, which pings and reconnects (`_supervise`,
`_recover_connection`; after the configured attempts it starts again with the
next heartbeat). Nothing is assumed of worlds, UIs, users, publishers, crashes,
administrators or broken connections. `Reconnect` is fair only when the
connection is broken: a healthy heartbeat reconnects nothing. The components of
`components` and `actors` have no fairness; their properties are about safety.

## What the violated runs show

- `connector_crash`: a Gateway that dies while a world publishes takes the
  connection to the world with it.
- `feed_cancel`: the cursor is advanced before the event is published on the
  UI's bus; `reconnect()` in between resumes after it.
- `config_rollback`: the rollback of a migration looks only at whether the
  request names the current revision, so it takes later changes with it.
- `config_reset`: a restarted Gateway records the bundle with the managed
  values already applied as its lowest layer of values; a reset removes the
  managed layer above it and the managed value stays in force.

`connection` excludes the case of `feed_cancel` by `MaxCancels = 0`; the
other three are about properties that the passing runs do not state.

Reading the code for the models turned up more such cases, which have a place
in the models but no run of their own; `PROJECT.json` lists them as hazards:

- Dropping a gagged event leaves no mark; if it is ungagged later, a resumed
  UI misses it without a report (`SnapshotReports` speaks of the classes that
  the policy treats alike throughout, `Steady`).
- The connector's command queue survives connections, so commands for an
  earlier connection precede the login of the next, and with a full queue the
  login waits for a writer that has not started (`commands_settle` has no
  startup commands).
- After a Gateway restart a connected world without `autoconnect` is shown as
  stopped (`commands_settle` has `Autoconnect`).
- A revision whose connection broke while it was made, or whose directory
  could not be synced, is published by nobody (`Abandoned`, `Unsynced`).
- A publisher cancelled after appending its frame leaves it unsent, and the
  next acknowledgement of its world discards it (`aborted` in
  `WorldConnector`, the exception of `OnlyAbortedLost`).
- Frames written but not acknowledged are counted as lost by an overflow
  notice and delivered all the same.
- A replay with more frames than the way back holds acknowledgements stops
  connector and Gateway; `AckPipeSize` is taken large enough.
- A command that names a connection generation is written to the next
  connection if its own ends on the way, and a quit queued before a restart of
  its world ends the new connection, which then comes back.
- A world that stopped by itself cannot be connected before it is disconnected
  (`control = "refused"`).

In the later components the same kind of reading found these. A bound or a
constant named in parentheses keeps the case out of the passing runs, and is
the assumption of the theorem where there is one:

- *Updates*: an asker that vanishes before its answer is written leaves the
  Gateway accepting no participants (`gateway.py:3432`, `AskerMayVanish`). A
  failed activation keeps the staged update; an abort before the prepare task
  starts, or a failed commit, keeps the UI's heartbeat off
  (`gateway_client.py:2843`; `Recovers` excepts `updating`); a late prepare of
  an aborted transaction replaces what was staged.
- *Recovery*: a reconnection to the old Gateway that still runs clears the
  expectation of a restart, so the restart then looks like a failure (`Recovers`
  speaks of the same process). The recovery after an update takes no lock of
  the runtime, and a stop during the recovery after a restart leaves a pump.
- *Supervisor*: a second restart request while the new child boots kills the
  child. A Gateway that ends with an error it reports exits with 2
  (`cli.py:566-568`), which ends the supervisor and closes all worlds
  (`MaxErrors`).
- *Web Gateway*: stopping a transfer in the same batch of messages that starts
  it leaves the slot taken (`gateway_web.py:2125-2212`, `PipelinedCancel`).
  When the mark of a device cannot be saved, the reservation and the
  subscription are kept (`gateway_web.py:1480-1485`).
- *Browser*: a page whose first connection broke before "ready" keeps events
  without a cursor and may show a hole (`blind` in `WebFeed`); the notice of
  missing history counts commands the transcript leaves out; a world that
  reconnects between snapshot and descriptor loses the gap flag.
- *UI records*: a crash between the claim and the commit of an import leaves
  UIs that name a missing profile (`configuration_transfer.py:296-297`).
- *Installations*: a death between the two pointers leaves `previous` equal to
  `current` (`deaths` in `RollbackReady`); two candidates of one version make
  its stable release uninstallable (`install_checkout.py:605-640`); one broken
  release directory blocks every list.
- *Plugin sources*: a `git fetch` that times out skips the removal of the
  checkout (`plugin_sources.py:186-197`); checkouts have no lock.
- *Command line*: "accepts only --socket" (`cli.py:163`) is said of a mode
  that ignores other options. *Setup*: launchers pass a stray `+`
  (`setup_install.py:228`), so the property `LaunchersStart` (README.md:59-62)
  is stated and checked by no run.
- *Agents*: an action decided in an earlier connection, or before a pause
  during the audit event, is still sent; `ActionsAreCurrent` (PLAN.md:546-547)
  is stated and checked by no run.
- *Plugins*: descriptors of settings are not rolled back with a failed plugin,
  and live rules leave the presentation cache (`gateway.py:3575-3582`).
- *Terminal UI*: closing the effects lab does not reset the unread mark of the
  world on screen (`tui.py:2372`, README.md:1145); a preview that fails with
  anything but `ValueError` ends its task (`tui.py:1839-1865`); a change of
  width keeps the place only in proportion.
- *Text*: a CR and its LF cut apart by a prompt that is shown, or by a full
  frame, make an extra empty line (`TextIsWhole` compares the text, and
  `ChunksDoNotMatter` speaks of input no prompt of which was shown).

## What is proved

`EventHistoryProofs`, for every set of worlds, classes, UIs, requests and
every queue size and limit, from `HistoryAssumption` alone:

- `TypeCorrect`: `Spec => []TypeOK`;
- `FeedIsExact`, `FeedIsPrefix`, `ClosedAreTold`: two invariants of
  `history` and the prefix property between them.

The invariant is `FeedInv`: `TypeOK` and, per subscription, that its stream
(what was taken followed by what is queued) is ascending and equals its feed
while it is open, that what was taken is a prefix of the feed, that a closed
subscription's queue is exactly the end mark, and that an unused one has an
empty stream. `FeedPrefix` alone is not inductive: it needs `FeedExact` of the
open state to survive taking an item, and `FeedExact` needs to know that an
unused subscription is empty to survive `Subscribe`. The argument goes by
actions: the pump appends the newest cursor to the streams of all matching
open subscriptions (or ends them), `Take` moves the head of the queue to the
end of what was received and leaves the stream alone, `Subscribe` starts with
a feed that is empty because nothing is newer than the cursor of the snapshot.
The lemmas on sequences (`TakeStream`, `QueueStream`, `AppendAscending`) are
stated for arbitrary sequences.

- `SnapshotsTell`: `Spec => []SnapshotReports`, for the classes that the gag
  policy treats alike throughout, which are all classes if it stays;
- `CountsAreExact`: `Spec => []CountsExact`, whatever the policy does.

`RetentionInv` says that what was dropped from a world came before everything
the world still retains (`NewestRetained`), and that the marks are past every
event of a steady class that was dropped and may be seen (`DropsMarked`): past its cursor, its
generation, and in the newest generation its class. The marks forget what was
dropped of older generations; `DropsMarked` is inductive all the same because
nobody asks for the class of an older generation. A step of the pump is reduced
to what it adds and the at most one event that goes out (`Pumped`). For
a class that the policy hides and shows again the statement is false: an event
that was hidden when it was dropped left no mark. A change of the policy does
not touch the others, since it neither hides nor shows an event of theirs.

`CountsInv` says that the generation a world counts is the newest of its events
in the log, and that the counts of any classes sum up to the number of events
shown of that generation. `Sum` is the cardinality of a set of pairs, so that
an event that is counted adds one element to either set (`PairsGrow`), and a
newer generation empties both. That the caps cut a snapshot from its old end
(`CapsCutOldEnd`) needs no more than the types: what is newer than a newer event
is a subset of what is newer than an older one, and takes no more bytes
(`BytesGrow`).

`ConnectionProofs` uses these for `GatewayFeed`, whose steps are steps of the
history or a restart of the Gateway (`FeedStepOfHistory`):

- `UiIsToldOfEveryEvent`: `FeedSpec => UiGetsFeed`, if `Undisturbed`: the UI
  asks for every event, none is hidden, and `MaxCancels = 0`, which is the case
  that `feed_cancel` refutes. Worlds, connections, restarts, retention,
  queues and the caps of the snapshots are arbitrary.

`UiInv` relates the two sides. What the Gateway has forgotten is not past its
newest drop (`NoneForgotten`), so that a snapshot without the flag continues
the UI's cursor without a hole (`SnapshotContinues`, `SnapshotOfAll`). On an
established connection the cursor is that of the last event read
(`CursorIsRead`), and as the connection carries a prefix of the feed the next
event read is the next one there is (`NextRead`). What the UI's cursor has
passed is displayed, reported or about to be displayed (`Accounted`). Then each
step of `GatewayFeed` is the step of `EventFeed` that its comment names, or a
stutter (`FeedSimulates`). `EventFeed` is a safety specification, so that no
fairness is needed.

`WorldCommandsProofs` is about the session of a world. For queues of every
size, any number of startup commands, attempts, control requests and restarts,
from `CommandsAssumption` (`WorldCommands`), and for any length of input, any
cuts, options and limit of a frame, from `TelnetAssumption` (`TelnetText`):

- `TypeCorrect`: `Spec => []TypeOK`;
- `OrderKept`: `Spec => []WrittenInOrder`;
- `ViewIsRight`: `Spec => []ViewAgrees` if `Autoconnect` or `MaxRestarts = 0`
  (a Gateway that follows another asks only the worlds that connect by
  themselves for their state, see above);
- `LinesAreSound`: `TelnetSpec => []LinesSound`.

`WrittenInOrder` says nothing of what is still on its way, so the invariant
`OrderInv` numbers the six places a command passes (written, the connector's
queue, the blocked reader, the messages to the connector, the write loop, the
Gateway's queue): whatever is further on its way was submitted earlier, each
queue is in order, and nothing is on its way that was not accepted. A step
either loses commands (`Kept`) or moves the first one of a place to an earlier
place with nothing in between (`Moved`); the three hops that skip the blocked
reader need that it is free.

`ViewAgrees` speaks of the moments when nothing is under way. `ViewInv` says
what keeps it true until then: the last state event on its way, or what the
Gateway knows if there is none (`Known`), has the world's generation and state,
unless a `start` is pending, which the world will answer, or the Gateway
already shows `stopped` and a `stop` is pending (`ViewFollows`). Detaching
shows `stopped` before the world is, so it needs that the world was told first
and that no `start` follows (`StopComesFirst`).

For `LinesSound`, `TelnetInv` adds to it that the bytes on their way take the
codec from the state it is in back to plain text and stand for the text they
carry (`WireDecodes`). A chunk cuts that way in two, so that the codec's text is
the text its bytes stand for (`FeedCodecIs`). What the framer cuts and what it
keeps is the text it was given (`FramerKeeps`), and cutting what it kept
together with more text gives what cutting all of it at once gives
(`FramerContinues`): the frames of the first part stay as they are, except that
a CR that came last had to wait (`CutsFirst`); the frame that was begun starts
with a character that ends no line (`LastCut`); from there on both cut alike,
the one at places shifted by what was cut before (`CutsShift`). What is said of
a recursive function for every length is a set of numbers that holds 0 and with
each number the next (`CountUp`), from the least element of its complement.

`ConfigurationStoreProofs`, for all keys, values, connections, requests and
bounds, from `StoreAssumption` and `NoneAssumption` (`None` is no request):

- `TypeCorrect`: `StoreSpec => []TypeOK`;
- `UndoIsExact`: `StoreSpec => []UndoRestores`;
- `VisibleNeverLost`: `StoreSpec => VisibleIsFinal`;
- `ConfirmedIsCompareAndSet`: `StoreSpec => []Confirmed`;
- `BackupsPrecede`: `StoreSpec => []BackupPrecedes`;
- `RollbacksAreSound`: `StoreSpec => []RollbacksSound`.

The invariant `IInv` adds that the file and the readers' document are
revisions of the past (`DiskIsPast`), that every logged change leads from its
revision back to the one before while later revisions have no entry
(`LogLeadsBack`), and that what is to be imported or was saved is a whole
document. Whatever a step is, it leaves the files alone or adds one revision
(`Kept`, `Grown`); `GrownInv` shows the invariant for any addition that `Fits`,
and each request has a lemma that it does. `OverlayBefore` is the algebra
behind undo: the values recorded before a change take it back.

Backups are saved before the commit they belong to. `BackupInv` adds to `IInv`
that what is saved, and what a running request remembers to put back, is the
document before the revision it names (`BackupsRight`), which stays true
because revisions are only added, and that a migration which is saved and not
committed is exactly one revision ahead and alone (`SavingIsAhead`), so that
nobody else makes the revision its backup precedes.

`WorldConnectorProofs`, for any number of worlds, frames, connections, crashes
and cancelled publishers, and limits and pipes of any size, from
`ConnectorAssumption` and `NoneAssumption`:

- `ConnectorTypes`: `Spec => []TypeOK`;
- `NothingLostSilently`: `Spec => []OnlyAbortedLost`;
- `HandledInOrder`: `Spec => []SeenInOrder`;
- `GapsAreAnnounced`: `Spec => []GapAnnouncedFirst`.

None of the three is inductive. What a Gateway will still see is the pipe to
it, followed by what the holder of the delivery lock has still to write
(`Stream`). `StreamInv`
says that this stream is rising, continues what was handled, and has no gap
that is not covered by what is handled, named by a notice or aborted
(`Gapless`), and that it is complete: together with what was handled it
contains everything the buffer holds (`Complete`). `AcksInv` says that only
what was handled is acknowledged, which is what allows the connector to forget
it, and `TasksInv` ties the Gateway's place to the one task that will give it
up. The replay is described by what it contains (`InOrder`), not by how it is
sorted.

`ConfigurationSyncProofs`, for any number of UIs, keys, requests and failures,
from the assumptions of the store and `NotNone`:

- `StoreHoldsAmongUis`: `Confirmed`, `UndoRestores` and `VisibleStays` hold of
  `ConfigurationSync` as well;
- `SyncTypesHold`: `Spec => [](TypeOK /\ SyncTypeOK)`;
- `ViewsAreDocuments`: `Spec => []ViewsSound`;
- `UisConverge`: `Spec => []Converged`.

The composition is proved from the store's own lemmas: every step of
`ConfigurationSync` is a step of the store, leaves it alone, or drops the
answer of a request nobody waits for. `SyncInv` says of every message under way
that it is `Truthful` (it shows a document of a revision no later than the one
it names), that messages come in the order of their revisions (`Informed`), and
that the last message of each UI is as recent as what it is owed, unless the
event loop is still going to send it one (`Settling`, `LoopShows`).

`ConnectionProofs`, about `GatewaySupervisor`, for any number of processes, from
`SupervisorAssumption`:

- `WorldsClosedForAReason`: worlds are closed only after a stop, the end of the
  lease, or a Gateway that ended with an error it reports;
- `WorldsSurvive`: `[]WorldsOutliveGateway` if `MaxErrors = 0`, that is, if no
  Gateway reports an error on its way out (see above for why this is needed).

The supervisor decides by exit status alone. The invariant `SupervisorInv`
therefore says of everything on the way to its end that it has such an excuse
(`EndIsExcused`: the expiry flag, a child that stops for good, one that ended
with status 0 or 2), and that it reaps only a child that has ended
(`ReapsTheDead`).

The same module, about `ClientLifecycle`, for any number of tasks, faults and
Gateway processes, from `LifecycleAssumption`: `ShownIsTrue`,
`LifecycleSpec => []ShownAgrees`. The property
speaks of the moment when all recoveries have ended; the invariant
says how the two may differ during them: a UI shows a Gateway it
does not read from only while a recovery waits for the runtime's lock
(`LostIsNoticed`), and none although it reads from one only while an activity
waits for the client's lock, which will cut that connection (`UnshownIsCut`).

`ComponentsProofs` is about the components of `MCComponents`, each for any
number of its actors, from the assumptions of its module:

- `DevicesAreSound`: `[]DevicesSound`; `SlotIsFreed`: `[]PasteSlotFreed` if
  `PipelinedCancel = FALSE` (`WebGateway`);
- `UiRecordsAreSound`: `[]UiRecordsSound` (`GatewayUis`);
- `RollbackLeadsBack`: `[]RollbackReady`; `NoneIsOlder`: `NoDowngrade`
  (`Installations`);
- `EtagIsOfManifest`: `[]EtagNamesManifest` (`UpdateChecks`);
- `SourcesAreSound`: `[]SourcesSound`; `PluginsNeverOlder`: `NeverOlder`
  (`PluginSources`);
- `TransportIsHanded`: `[]TransportIsUsed` (`CommandLine`);
- `UserEditsSurvive`: `[]EditsSurvive` (`SetupInstall`);
- `NothingIsDowngraded`: `ComponentsSpec => VersionsOnlyGrow`, the action
  property of the composition, from `NoneIsOlder` and `PluginsNeverOlder`.

`DevicesInv` adds where records come from (`MadeForOneCode`, `AnswersExist`,
`Unique`) and that an open code has none in memory (`OpenIsUnspent`; a failed
exchange may have left one in the file); `WebInv` that every socket past its
reservation has a device and that a revocation takes the record before it
closes the sockets (`RevokedFirst`), which is why a connection that is being
set up meanwhile finds its device gone (`RevokedAreClosed`). `InstallInv`
follows an activation through its two pointer replacements: who
holds the lock is the only one past the check (`OneActivation`), and what it
remembers of `previous` is what `Staged` says, so that a failure can restore
it. `EtagIsOfManifest` needs to know of each
request under way that it asked with the ETag of what its process knows
(`AskedIsCurrent`). `NoneIsOlder` and `PluginsNeverOlder` need little more than
types, because the check is repeated in the step that adds the release.

`ActorsProofs` is about components of `MCActors`, from the assumptions of their
modules:

- `UpdatesActivateTogether`: `UpdatesSpec => ActivatedTogether`, for any number
  of UIs, releases and transactions (`UpdateCoordination`);
- `TransfersAreWhole`: `[]TransferIsWhole`, for any number of transfers of any
  length (`PacedTransfers`);
- `AgentsKeepTheirTurn`: `[]TurnsSound`, for any limits (`Agents`);
- `RegistryHoldsTheLoaded`: `[]RegistrySound`, for any plugins and
  registrations (`PluginRegistry`);
- `HandlersKnow`: `[]HandlersUpToDate`, for any number of worlds and events
  (`PluginLifecycle`);
- `TranscriptIsWhole`: `WebFeedSpec => []TranscriptHasNoHole`, for any number of
  events, connections and dropped events and any limits (`WebFeed`);
- `PaneIsSound`: `DisplaySpec => []PaneSound`, for any number and length of
  entries, any widths, heights, overlap and maximum of rows (`Display`).

`ActivatedTogether` follows from `CoordInv`: a commit that is on its way, or a
task that serves one, comes from a decision (`CommitsDecided`), and a UI that
answered has prepared what it answered (`AnswersHold`). For a transfer the
invariant looks at the three places a line can be, the requests of the UI, the
session's queue and the world: the line that is waited for is the last request
(`RequestsInOrder`), it continues what was accepted last (`QueuedInOrder`),
which continues what was written last or can no longer be written, because the
generation it expects is over (`SentInOrder`). For an agent, `AgentsInv` says
that the times it keeps are the last requests and that the others are a minute
old; a cooldown longer than a minute is therefore only kept for a minute, since
the request it counts from has been dropped by then (`Spacing`;
agents.py:351-361). For the registry, that a plugin which is loading has a
snapshot that holds everything but its own registrations (`Exact`). For the
lifecycle events, that each inbound event is counted in one merged entry
(`ActivityCounted`), that each publisher waits for exactly one entry
(`OneEntryEach`), that the last edge of a world in the queue is the state of
the world (`EdgesTell`), and that a comparison with a stale state is followed
by one that is not (`WorldsFollowed`).

That a page has no hole depends on what is under way when a connection breaks,
because the page keeps what it has appended by then while its cursor has not
moved. `TranscriptInv` splits a connection into the events that were announced
and have not arrived (`OnTheWay`), and the live events that follow them without
a break in the stream and then in the queue (`Live`, `LiveFrom`). What the page
lacks behind its cursor and before an event it has is out of reach for ever
(`Hidden`: dropped from the history, or with too many events after it), so no
later snapshot puts it behind the events after it. What the snapshot leaves out
is older than what it announces (`RestHidden`); the hello tells it with a gap,
or nothing of the announced generation is left out (`Announced`); and once the
hello has been handled what the page has and what is announced have no hole
together (`Following`). A gap removes the end of the transcript, because
generations rise and the hello names the latest, so that nothing of an earlier
connection is torn.

For the output pane, `DisplayInv` relates three counts of rows. The pager's
total is the number of rows of the entries, so that cutting whole entries and
then part of the next one (`CutRows`, `TrimKeeps`) takes as many rows from the
one as from the other. The pager stands where its mode says (`Stands`), which
each of its operations keeps: an append, a page, a scroll, a cut, a reflow and a
new size. And with the pager on, the rows that have been seen reach to the end
of what the pane shows (`SeenTo`), so that after an operation the pane still
joins them (`Adjoins`) and what it then shows extends them (`LookSees`). A row
counts as an entry and its place in it, so that the number of rows is the
cardinality of a set of pairs.

Where the connector's proofs need the newest notice of a world or the frames of
a set in their order, they use the least element of a well-founded order
(`WFMin`), which takes no operator as a parameter.

Model-checked only:

- liveness (`FeedReachesUi`, `FramesDelivered`, `EventReachesUi`, `Recovers`,
  `RestartIsServed`, `CommandsSettle`), since the prover knows neither fairness
  nor `ENABLED`;
- what the runs that expect a violation refute.

Type invariants of modules without a proof were established with TLC on the
instances of their runs where these do not list them.

## Not modelled

Contents of events and commands, encodings and sizes (the connector's limit of
16,384 bytes for a command is below the Gateway's 65,536 characters), TLS,
sockets on disk, the idle command, the session mode without a connector,
NOSPOOF attribution, the browser's settings, drafts and service worker, HTTP
routes, cookies and origins, secrets of imports, the validation of settings,
the spellcheck command, building, signatures and downloads of releases, prompts
and HTTP exchanges of agents, commands and key bindings of plugins, and layout,
menus and editors of the terminal UI. Not modelled at all, because they have no
state that several parties share: definitions and forms of settings, connection
profiles (one file, read before a connection), presentation, diagnostics and
replay, and the development tooling. `PROJECT.json` gives the reason for each
component. `GatewayFeed` has one UI, since UIs share nothing but the history.

## Plan

Done: 1 `EventHistory` and its proofs, 2 `WorldConnector`, 3 `EventFeed` and
`GatewayFeed`, 4 `WorldCommands` and its proofs, 5 `ConfigurationStore`, its
proofs and `ConfigurationSync`, 6 `UpdateCoordination` and `ClientLifecycle`,
7 `GatewaySupervisor`, 8 `GatewayDevices`, `GatewayUis`, `Installations`,
`UpdateChecks`, `PluginSources`, `SetupInstall`, 9 `Agents`, `PluginLifecycle`,
`PluginRegistry`, `WebGateway`, `WebFeed`, 10 `TelnetText`, `Display`,
`PacedTransfers`, `CommandLine`, 11 proofs for the supervisor, the UI's
recovery, installations, update checks and the web Gateway, 12 proofs for the
connector, the configuration among UIs, UI records, plugin sources, command
line, setup, updates, transfers, agents and plugins, for what a resumed UI is
told, for the refinement of `EventFeed`, for the transcript of a page, for
snapshots, for the output pane and for the text of a world.

Left, most important first: `GatewaySupervisor` composed with `WorldConnector`
and `WorldCommands` (what a stop does to frames and commands under way); the
resumption of requests after a reconnection; the session mode without a
connector and the idle command; gag patterns and configuration scopes against
reference definitions.
