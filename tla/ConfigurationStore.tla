-------------------------- MODULE ConfigurationStore --------------------------
(***************************************************************************)
(* The Gateway's managed configuration: the revisioned document with its   *)
(* audit log (GatewayConfigurationStore of gateway_configuration.py), the  *)
(* import of an archive and its rollback (configuration_transfer.py), and  *)
(* the migration of legacy settings and its rollback                       *)
(* (gateway_migration.py).  Every request names the revision it was made   *)
(* for and becomes one new revision or fails.                              *)
(*                                                                         *)
(* Edits, undos, migrations and their rollback run in threads, under the   *)
(* store's lock; imports, their rollback and the removal of a UI's profile *)
(* run on the event loop and keep it busy until they end.  A mutation      *)
(* first reloads document and audit log from disk, writes the document,    *)
(* then the audit log, and only then shows the new document to readers.    *)
(*                                                                         *)
(* A document gives every key (of any section) its value or Unset.  The    *)
(* previous values of an audit entry are kept per revision: the log holds  *)
(* 500 entries and a revision has at most 64, so the newest are complete.  *)
(***************************************************************************)
EXTENDS Naturals

CONSTANTS
  Keys, Values, Unset,
  Callers,       (* connections, each with at most one request under way    *)
  Asks,          (* bound: connection -> the kinds of requests it makes     *)
  Edits,         (* changes of set, reset and batch requests                *)
  Profiles,      (* the keys of each UI's own section                       *)
  Archives,      (* documents to import                                     *)
  Legacy,        (* the settings the collected migration proposals agree on *)
  None,
  MaxRevision,   (* bounds: the last revision, and Gateway crashes          *)
  MaxCrashes

Settings == [Keys -> Values \cup {Unset}]
Changes == UNION {[K -> Values \cup {Unset}] : K \in SUBSET Keys}

Kinds == {"edit", "undo", "remove", "import", "rollback-import", "migrate", "rollback-migration"}

ASSUME StoreAssumption ==
  /\ Asks \in [Callers -> SUBSET Kinds]
  /\ Edits \subseteq Changes
  /\ Profiles \subseteq SUBSET Keys
  /\ Archives \subseteq Settings
  /\ Legacy \in Settings
  /\ None \notin Nat
  /\ MaxRevision \in Nat /\ MaxCrashes \in Nat

VARIABLES
  stored,        (* gateway-configuration.json                              *)
  document,      (* _document, what readers in the Gateway see              *)
  audit,         (* the audit log, by revision                              *)
  imported,      (* the last import: revision and backup                    *)
  migrated,      (* the last migration: revision and document before it     *)
  request,       (* the request of each connection                          *)
  past,          (* every revision there was: settings, operation, caller   *)
  crashes

disk == <<stored, audit, past>>
storeVars == <<disk, document, imported, migrated, request, crashes>>

Revisions == 0..MaxRevision
Empty == [k \in Keys |-> Unset]
NoChange == [k \in {} |-> Unset]
Unapplied == [applied |-> None, backup |-> Empty]

Overlay(settings, change) ==
  [k \in Keys |-> IF k \in DOMAIN change THEN change[k] ELSE settings[k]]

(* Phase and kind of a caller's request.                                   *)
Is(c, kind, phase) == request[c] # None /\ request[c].kind = kind /\ request[c].phase = phase

(* The event loop runs an import or its rollback to the end.               *)
LoopFree ==
  \A c \in Callers : ~ (Is(c, "import", "saved") \/ Is(c, "rollback-import", "committed"))

(* The migration store's own lock.                                         *)
MigrationFree ==
  \A c \in Callers : ~ (Is(c, "migrate", "saved") \/ Is(c, "rollback-migration", "committed"))

-----------------------------------------------------------------------------
(* What a locked mutation comes to.                                        *)

Phased(c, phase) == request' = [request EXCEPT ![c].phase = phase]

(* The document file becomes the next revision.                            *)
Replace(c, settings) ==
  /\ stored.revision < MaxRevision
  /\ stored' = [revision |-> stored.revision + 1, settings |-> settings]
  /\ past' = [past EXCEPT ![stored.revision + 1] =
                [settings |-> settings, kind |-> request[c].kind, by |-> c]]

(* Document and audit log are written; readers see the new document.       *)
Written(c, settings, entry, phase) ==
  /\ Replace(c, settings)
  /\ audit' = [audit EXCEPT ![stored.revision + 1] = entry]
  /\ document' = stored'
  /\ Phased(c, phase)
  /\ UNCHANGED <<imported, migrated, crashes>>

(* A request fails; an import or migration takes back what it saved.       *)
Fail(c) ==
  /\ request' = [request EXCEPT ![c] = None]
  /\ imported' = IF Is(c, "import", "saved") THEN request[c].prior ELSE imported
  /\ migrated' = IF Is(c, "migrate", "saved") THEN request[c].prior ELSE migrated
  /\ UNCHANGED crashes

(* Seeded fault: readers see the document before the audit log is written. *)
AuditFailsShown(c, settings) ==
  /\ stored.revision < MaxRevision
  /\ document' = [revision |-> stored.revision + 1, settings |-> settings]
  /\ Fail(c)
  /\ UNCHANGED disk

(* The audit log cannot be written: the document file is put back.         *)
AuditFails(c, settings) ==
  /\ document' = stored
  /\ Fail(c)
  /\ UNCHANGED disk

(* The file is replaced, but syncing its directory fails: the request      *)
(* fails, and the revision stays on disk without an audit entry.           *)
Unsynced(c, settings) ==
  /\ Replace(c, settings)
  /\ document' = stored
  /\ Fail(c)
  /\ UNCHANGED audit

(* The migration state is checked against the revision when it is loaded.  *)
Loaded(state, revision) ==
  IF state.applied # None /\ state.applied > revision THEN Unapplied ELSE state

(* A new Gateway process loads what is on disk.                            *)
Restarted ==
  /\ crashes < MaxCrashes
  /\ crashes' = crashes + 1
  /\ document' = stored'
  /\ migrated' = Loaded(migrated, stored'.revision)
  /\ request' = [c \in Callers |-> None]
  /\ UNCHANGED <<audit, imported>>

(* The Gateway dies between the document and the audit log.                *)
DieUnaudited(c, settings) == Replace(c, settings) /\ Restarted

(* What _commit may come to.                                               *)
CommitAs(c, settings, entry, phase) ==
  \/ Written(c, settings, entry, phase)
  \/ AuditFails(c, settings)
  \/ Unsynced(c, settings)
  \/ DieUnaudited(c, settings)

(* Seeded fault: the check is made before the reload.                      *)
CurrentBeforeReload(c) == request[c].expected = document.revision

(* The revision check, after the reload.                                   *)
Current(c) == request[c].expected = stored.revision

Logged(kind, before) == [kind |-> kind, before |-> before]
Before(change) == [k \in DOMAIN change |-> stored.settings[k]]

-----------------------------------------------------------------------------
(* Requests.                                                               *)

(* A connection asks for a change of the configuration it last saw.        *)
Ask(c, kind, change) ==
  /\ LoopFree
  /\ kind \in Asks[c]
  /\ request[c] = None
  /\ request' = [request EXCEPT ![c] =
       [kind |-> kind, phase |-> "asked", change |-> change,
        expected |-> document.revision, prior |-> Unapplied]]
  /\ UNCHANGED <<disk, document, imported, migrated, crashes>>

AskSomething(c) ==
  \/ \E e \in Edits : Ask(c, "edit", e)
  \/ \E P \in Profiles : Ask(c, "remove", [k \in P |-> Unset])
  \/ \E s \in Archives : Ask(c, "import", s)
  \/ Ask(c, "migrate", Legacy)
  \/ \E kind \in {"undo", "rollback-import", "rollback-migration"} : Ask(c, kind, NoChange)

(* set, reset and batch: every change must have an effect.                 *)
Effective(c) == \A k \in DOMAIN request[c].change : request[c].change[k] # stored.settings[k]

Edit(c) ==
  /\ Is(c, "edit", "asked")
  /\ Current(c) /\ Effective(c)
  /\ LET change == request[c].change
     IN  CommitAs(c, Overlay(stored.settings, change), Logged("edit", Before(change)), "done")

(* Seeded fault: the newest entry is undone, whatever its revision.        *)
UndoneNewest ==
  IF audit[stored.revision] = None /\ stored.revision > 0
  THEN audit[stored.revision - 1] ELSE audit[stored.revision]

(* undo takes back the changes logged for the current revision, unless it  *)
(* replaced the document or undid a batch.  Undoing one change is logged   *)
(* like a change, undoing a batch only as such.                            *)
Undone == audit[stored.revision]

Undo(c) ==
  /\ Is(c, "undo", "asked")
  /\ Current(c)
  /\ Undone # None /\ Undone.kind = "edit"
  /\ LET single == \E k \in Keys : DOMAIN Undone.before = {k}
     IN  CommitAs(c, Overlay(stored.settings, Undone.before),
                  IF single THEN Logged("edit", Before(Undone.before))
                            ELSE Logged("batch", NoChange),
                  "done")

(* remove_ui_profile: the whole section of one UI, which has settings.     *)
Remove(c) ==
  /\ LoopFree
  /\ Is(c, "remove", "asked")
  /\ Current(c)
  /\ \E k \in DOMAIN request[c].change : stored.settings[k] # Unset
  /\ CommitAs(c, Overlay(stored.settings, request[c].change), Logged("document", NoChange), "done")

(* An import or migration saves what a rollback needs, before it commits.  *)
Saved(c, state, settings) ==
  request' = [request EXCEPT ![c].phase = "saved", ![c].prior = state, ![c].change = settings]

Planned(c) == [applied |-> request[c].expected + 1, backup |-> document.settings]

SaveImport(c) ==
  /\ LoopFree
  /\ Is(c, "import", "asked")
  /\ request[c].expected = document.revision
  /\ imported' = Planned(c)
  /\ Saved(c, imported, request[c].change)
  /\ UNCHANGED <<disk, document, migrated, crashes>>

(* Settings that are managed already keep their value.                     *)
Migrated(c) ==
  [k \in Keys |-> IF document.settings[k] # Unset THEN document.settings[k] ELSE Legacy[k]]

SaveMigration(c) ==
  /\ MigrationFree
  /\ Is(c, "migrate", "asked")
  /\ request[c].expected = document.revision
  /\ migrated' = Planned(c)
  /\ Saved(c, migrated, Migrated(c))
  /\ UNCHANGED <<disk, document, imported, crashes>>

(* replace_document for what was saved.                                    *)
ReplaceDocument(c) ==
  /\ Is(c, "import", "saved") \/ Is(c, "migrate", "saved")
  /\ Current(c)
  /\ CommitAs(c, request[c].change, Logged("document", NoChange), "done")

(* Seeded fault: only the revision of the request is checked.              *)
ImportIsKnown(c) == imported.applied # None

(* An import can be rolled back as long as nothing else was committed.     *)
ImportIsLast(c) == imported.applied = document.revision

RollbackImport(c) ==
  /\ LoopFree
  /\ Is(c, "rollback-import", "asked")
  /\ request[c].expected = document.revision
  /\ ImportIsLast(c)
  /\ Current(c)
  /\ CommitAs(c, imported.backup, Logged("document", NoChange), "committed")

RollbackMigration(c) ==
  /\ MigrationFree
  /\ Is(c, "rollback-migration", "asked")
  /\ request[c].expected = document.revision
  /\ migrated.applied # None
  /\ Current(c)
  /\ CommitAs(c, migrated.backup, Logged("document", NoChange), "committed")

(* After its commit a rollback clears what was saved.                      *)
Clear(c) ==
  /\ \/ /\ Is(c, "rollback-import", "committed")
        /\ imported' = [imported EXCEPT !.applied = None]
        /\ UNCHANGED migrated
     \/ /\ Is(c, "rollback-migration", "committed")
        /\ migrated' = [migrated EXCEPT !.applied = None]
        /\ UNCHANGED imported
  /\ Phased(c, "done")
  /\ UNCHANGED <<disk, document, crashes>>

(* Why a request that came to its turn is refused: another revision, a     *)
(* change without effect, nothing to undo or to roll back, or a file that  *)
(* cannot be written at all.  All but the first look of an import or       *)
(* migration at the revision come after the reload.                        *)
Refuse(c) ==
  /\ request[c] # None
  /\ request[c].phase \in {"asked", "saved"}
  /\ request[c].kind \in {"import", "rollback-import", "remove"} => LoopFree \/ request[c].phase = "saved"
  /\ request[c].kind \in {"migrate", "rollback-migration"} => MigrationFree \/ request[c].phase = "saved"
  /\ document' \in {document, stored}
  /\ Fail(c)
  /\ UNCHANGED disk

(* The answer goes out.                                                    *)
Answer(c) ==
  /\ LoopFree
  /\ request[c] # None /\ request[c].phase = "done"
  /\ request' = [request EXCEPT ![c] = None]
  /\ UNCHANGED <<disk, document, imported, migrated, crashes>>

Crash == UNCHANGED <<stored, past>> /\ Restarted

-----------------------------------------------------------------------------
StoreInit ==
  /\ stored = [revision |-> 0, settings |-> Empty]
  /\ document = stored
  /\ audit = [r \in Revisions |-> None]
  /\ imported = Unapplied
  /\ migrated = Unapplied
  /\ request = [c \in Callers |-> None]
  /\ past = [r \in Revisions |-> [settings |-> Empty, kind |-> None, by |-> None]]
  /\ crashes = 0

(* The steps of a request between question and answer.                     *)
Mutation(c) ==
  \/ Edit(c) \/ Undo(c) \/ Remove(c)
  \/ SaveImport(c) \/ SaveMigration(c) \/ ReplaceDocument(c)
  \/ RollbackImport(c) \/ RollbackMigration(c) \/ Clear(c)
  \/ Refuse(c)

StoreNext ==
  \/ \E c \in Callers : AskSomething(c) \/ Mutation(c) \/ Answer(c)
  \/ Crash

StoreSpec == StoreInit /\ [][StoreNext]_storeVars
-----------------------------------------------------------------------------
(* Every variable has its type.                                            *)
Document == [revision : Revisions, settings : Settings]
State == [applied : (1..MaxRevision + 1) \cup {None}, backup : Settings]
Entry == [kind : {"edit", "batch", "document"}, before : Changes]
Revision == [settings : Settings, kind : Kinds \cup {None}, by : Callers \cup {None}]
Request ==
  [kind : Kinds, phase : {"asked", "saved", "committed", "done"}, change : Changes,
   expected : Revisions, prior : State]

ASSUME NoneAssumption == None \notin Request

TypeOK ==
  /\ stored \in Document /\ document \in Document
  /\ audit \in [Revisions -> Entry \cup {None}]
  /\ imported \in State /\ migrated \in State
  /\ request \in [Callers -> Request \cup {None}]
  /\ past \in [Revisions -> Revision]
  /\ crashes \in 0..MaxCrashes

(* Compare-and-set: a request that is confirmed made the revision after    *)
(* the one it was made for, and that revision is what it was made for with *)
(* this one change, whatever other callers, failures and restarts did      *)
(* (_check_revision, _mutation_lock, _commit).                             *)
Confirmed ==
  \A c \in Callers :
    request[c] # None /\ request[c].phase \in {"committed", "done"} =>
      LET made == past[request[c].expected + 1]
      IN  /\ request[c].expected < document.revision
          /\ made.by = c /\ made.kind = request[c].kind
          /\ request[c].kind \in {"edit", "remove"} =>
               made.settings = Overlay(past[request[c].expected].settings, request[c].change)

(* Undo brings back exactly the settings there were before the change it   *)
(* undoes, also when revisions without an audit entry lie in between.      *)
UndoRestores ==
  \A r \in 1..stored.revision :
    past[r].kind = "undo" => r > 1 /\ past[r].settings = past[r - 2].settings

(* Rolling back an import never takes back anything but the last revision, *)
(* and takes that back whole.                                              *)
RollbackRestores ==
  \A r \in 1..stored.revision :
    past[r].kind = "rollback-import" => r > 1 /\ past[r].settings = past[r - 2].settings

(* What a rollback would restore is the document before the revision that  *)
(* was applied, also after a crash between saving it and the commit; a     *)
(* migration that was saved but never committed is forgotten.              *)
BackupPrecedes ==
  /\ \A state \in {imported, migrated} :
       state.applied # None => state.backup = past[state.applied - 1].settings
  /\ MigrationFree /\ migrated.applied # None => migrated.applied <= stored.revision

(* Rollbacks as a whole: what they would restore is right at any time, and *)
(* an import is taken back only as the last revision.                      *)
RollbacksSound == RollbackRestores /\ BackupPrecedes

(* A revision that readers have seen stays: neither a failed write nor a   *)
(* restart takes it back or gives its number to another document           *)
(* (_commit, _mutation_lock's reload, the restarted process).              *)
VisibleStays ==
  /\ document'.revision >= document.revision
  /\ document'.settings = past'[document'.revision].settings
  /\ \A r \in 0..document.revision : past'[r] = past[r]

VisibleIsFinal == [][VisibleStays]_storeVars

(* README.md:712-714: a migration is rolled back only as long as no later  *)
(* configuration change makes that unsafe.                                 *)
RollbackIsSafe ==
  \A r \in 1..stored.revision :
    past[r].kind = "rollback-migration" => past[r - 1].kind = "migrate"
=============================================================================
