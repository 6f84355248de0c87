----------------------- MODULE ConfigurationStoreProofs -----------------------
(***************************************************************************)
(* Theorems about ConfigurationStore, for every set of keys, values,       *)
(* connections and requests, and every bound.  Whatever a step does to the *)
(* other variables, to the files and to what readers see it is one of two: *)
(* they stay (Kept), or one revision is added (Grown).                     *)
(***************************************************************************)
EXTENDS ConfigurationStore, TLAPS

DiskTypes ==
  /\ stored \in Document /\ document \in Document
  /\ audit \in [Revisions -> Entry \cup {None}]
  /\ past \in [Revisions -> Revision]

(* What is asked to be imported, and what was saved, are whole documents.  *)
RestTypes ==
  /\ imported \in State /\ migrated \in State
  /\ request \in [Callers -> Request \cup {None}]
  /\ \A c \in Callers :
       request[c] # None /\ (request[c].kind = "import" \/ request[c].phase = "saved") =>
         request[c].change \in Settings
  /\ crashes \in 0..MaxCrashes

(* The files agree with the past, readers see a revision of it, and the    *)
(* log says how to get from one revision back to the one before.           *)
DiskIsPast ==
  /\ stored.settings = past[stored.revision].settings
  /\ document.revision <= stored.revision
  /\ document.settings = past[document.revision].settings

LogLeadsBack ==
  /\ audit[0] = None
  /\ \A r \in 1..stored.revision :
       audit[r] # None /\ audit[r].kind = "edit" =>
         past[r - 1].settings = Overlay(past[r].settings, audit[r].before)
  /\ \A r \in Revisions : r > stored.revision => audit[r] = None

DiskInv == DiskTypes /\ DiskIsPast /\ LogLeadsBack /\ UndoRestores
IInv == DiskInv /\ RestTypes

-----------------------------------------------------------------------------
(* Overlays.                                                               *)
LEMMA OverlayType ==
  ASSUME NEW settings \in Settings, NEW change \in Changes
  PROVE  Overlay(settings, change) \in Settings
BY DEF Overlay, Settings, Changes

(* A change is taken back by what was there before it.                     *)
LEMMA OverlayBefore ==
  ASSUME NEW change \in Changes, stored.settings \in Settings
  PROVE  /\ Before(change) \in Changes
         /\ Overlay(Overlay(stored.settings, change), Before(change)) = stored.settings
<1> PICK K \in SUBSET Keys : change \in [K -> Values \cup {Unset}]
  BY DEF Changes
<1>1. Before(change) \in [K -> Values \cup {Unset}]
  BY DEF Before, Settings
<1>2. Before(change) \in Changes
  BY <1>1 DEF Changes
<1> DEFINE twice == Overlay(Overlay(stored.settings, change), Before(change))
<1>3. ASSUME NEW k \in Keys PROVE twice[k] = stored.settings[k]
  BY <1>1 DEF Overlay, Before, Settings
<1>4. twice = [k \in Keys |-> twice[k]]
  BY DEF Overlay
<1>5. stored.settings = [k \in Keys |-> stored.settings[k]]
  BY DEF Settings
<1> QED BY <1>2, <1>3, <1>4, <1>5

-----------------------------------------------------------------------------
(* The two effects on files and readers.                                   *)
Kept == UNCHANGED disk /\ document' \in {document, stored}

Grown(c, settings, entry) ==
  /\ Replace(c, settings)
  /\ audit' \in {audit, [audit EXCEPT ![stored.revision + 1] = entry]}
  /\ document' \in {stored, stored'}

LEMMA CommitGrows ==
  ASSUME NEW c \in Callers, NEW settings, NEW entry, NEW phase,
         CommitAs(c, settings, entry, phase)
  PROVE  Kept \/ Grown(c, settings, entry)
<1>1. CASE Written(c, settings, entry, phase)
  BY <1>1 DEF Written, Grown
<1>2. CASE AuditFails(c, settings)
  BY <1>2 DEF AuditFails, Kept
<1>3. CASE Unsynced(c, settings)
  BY <1>3 DEF Unsynced, Grown
<1>4. CASE DieUnaudited(c, settings)
  BY <1>4 DEF DieUnaudited, Restarted, Grown
<1> QED BY <1>1, <1>2, <1>3, <1>4 DEF CommitAs

LEMMA KeptInv == DiskInv /\ Kept => DiskInv'
BY DEF DiskInv, Kept, disk, DiskTypes, DiskIsPast, LogLeadsBack, UndoRestores, Document,
       Overlay, Revisions

(* What a new revision has to be.                                          *)
Fits(c, settings, entry) ==
  /\ settings \in Settings
  /\ entry \in Entry
  /\ entry.kind = "edit" => Overlay(settings, entry.before) = stored.settings
  /\ request[c].kind = "undo" =>
       stored.revision > 0 /\ settings = past[stored.revision - 1].settings

LEMMA GrownInv ==
  ASSUME NEW c \in Callers, NEW settings, NEW entry,
         request[c] \in Request, DiskInv,
         Fits(c, settings, entry), Grown(c, settings, entry)
  PROVE  DiskInv'
<1> DEFINE n == stored.revision + 1
           made == [settings |-> settings, kind |-> request[c].kind, by |-> c]
<1>1. /\ n \in Revisions /\ n \in 1..MaxRevision
      /\ stored' = [revision |-> n, settings |-> settings]
      /\ past' = [past EXCEPT ![n] = made]
  BY StoreAssumption DEF Grown, Replace, DiskInv, DiskTypes, Document, Revisions
<1>0. stored.revision \in 0..MaxRevision /\ MaxRevision \in Nat /\ Revisions = 0..MaxRevision
  BY StoreAssumption DEF DiskInv, DiskTypes, Document, Revisions
<1>2. made \in Revision
  BY DEF Fits, Revision, Request
<1>3. stored' \in Document
  BY <1>1 DEF Fits, Document
<1>4. document' \in Document
  BY <1>3 DEF Grown, DiskInv, DiskTypes
<1>5. past' \in [Revisions -> Revision]
  BY <1>1, <1>2 DEF DiskInv, DiskTypes
<1>6. audit' \in [Revisions -> Entry \cup {None}]
  BY <1>1 DEF Grown, Fits, DiskInv, DiskTypes
<1>7. /\ past'[n] = made
      /\ \A r \in Revisions : r # n => past'[r] = past[r] /\ audit'[r] = audit[r]
      /\ audit'[n] \in {None, entry}
  <2>1. past'[n] = made /\ \A r \in Revisions : r # n => past'[r] = past[r]
    BY <1>1 DEF DiskInv, DiskTypes
  <2>2. audit[n] = None
    BY <1>0, <1>1 DEF DiskInv, LogLeadsBack
  <2>3. CASE audit' = audit
    BY <2>1, <2>2, <2>3
  <2>4. CASE audit' = [audit EXCEPT ![n] = entry]
    BY <2>1, <2>4, <1>1 DEF DiskInv, DiskTypes
  <2> QED BY <2>3, <2>4 DEF Grown
<1>8. DiskIsPast'
  BY <1>1, <1>7, StoreAssumption DEF Grown, DiskIsPast, DiskInv, DiskTypes, Document, Revisions
<1>9. LogLeadsBack'
  <2>1. audit'[0] = None
    BY <1>0, <1>1, <1>7 DEF DiskInv, LogLeadsBack
  <2>2. ASSUME NEW r \in 1..n, audit'[r] # None, audit'[r].kind = "edit"
        PROVE  past'[r - 1].settings = Overlay(past'[r].settings, audit'[r].before)
    <3>1. CASE r = n
      <4>1. audit'[r] = entry /\ past'[r].settings = settings
        BY <3>1, <1>7, <2>2
      <4>2. past'[r - 1].settings = stored.settings
        BY <3>1, <1>1, <1>7 DEF DiskInv, DiskIsPast, DiskTypes, Document, Revisions
      <4> QED BY <4>1, <4>2, <2>2 DEF Fits
    <3>2. CASE r # n
      <4>1. /\ r \in 1..stored.revision /\ r \in Revisions /\ r - 1 \in Revisions
            /\ r - 1 # n
        BY <3>2, <1>1, <1>0
      <4>2. past'[r] = past[r] /\ audit'[r] = audit[r] /\ past'[r - 1] = past[r - 1]
        BY <4>1, <3>2, <1>7
      <4> QED BY <4>1, <4>2, <2>2 DEF DiskInv, LogLeadsBack
    <3> QED BY <3>1, <3>2
  <2>3. ASSUME NEW r \in Revisions, r > n PROVE audit'[r] = None
    BY <1>0, <1>1, <1>7, <2>3 DEF DiskInv, LogLeadsBack
  <2> QED BY <2>1, <2>2, <2>3, <1>1 DEF LogLeadsBack, Overlay
<1>10. UndoRestores'
  <2>1. ASSUME NEW r \in 1..n, past'[r].kind = "undo"
        PROVE  r > 1 /\ past'[r].settings = past'[r - 2].settings
    <3>1. CASE r = n
      <4>1. stored.revision > 0 /\ settings = past[stored.revision - 1].settings
        BY <3>1, <2>1, <1>7 DEF Fits
      <4>2. /\ r > 1 /\ r - 2 = stored.revision - 1
            /\ r - 2 \in Revisions /\ r - 2 # n
        BY <4>1, <3>1, <1>1, <1>0
      <4> QED BY <4>1, <4>2, <3>1, <1>7
    <3>2. CASE r # n
      <4>1. r \in 1..stored.revision /\ r \in Revisions
        BY <3>2, <1>1, <1>0
      <4>2. r > 1 /\ past[r].settings = past[r - 2].settings
        BY <4>1, <3>2, <2>1, <1>7 DEF DiskInv, UndoRestores
      <4>3. r - 2 \in Revisions /\ r - 2 # n
        BY <4>1, <4>2, <1>1, <1>0
      <4> QED BY <4>1, <4>2, <4>3, <3>2, <1>7
    <3> QED BY <3>1, <3>2
  <2> QED BY <2>1, <1>1 DEF UndoRestores
<1> QED BY <1>3, <1>4, <1>5, <1>6, <1>8, <1>9, <1>10 DEF DiskInv, DiskTypes

-----------------------------------------------------------------------------
(* The types of the other variables.                                       *)
LEMMA UnappliedType == Unapplied \in State
BY DEF Unapplied, State, Empty, Settings

LEMMA FailTypes ==
  ASSUME NEW c \in Callers, RestTypes, request[c] # None, Fail(c)
  PROVE  RestTypes'
<1>1. request[c].prior \in State
  BY DEF RestTypes, Request
<1>2. imported' \in State /\ migrated' \in State
  BY <1>1 DEF Fail, RestTypes
<1>3. \A d \in Callers : request'[d] = IF d = c THEN None ELSE request[d]
  BY DEF Fail, RestTypes
<1>4. request' \in [Callers -> Request \cup {None}]
  BY DEF Fail, RestTypes
<1> QED BY <1>2, <1>3, <1>4 DEF Fail, RestTypes

LEMMA RestartTypes ==
  ASSUME RestTypes, Restarted
  PROVE  RestTypes'
<1>1. migrated' \in State
  BY UnappliedType DEF Restarted, Loaded, RestTypes
<1>2. crashes' \in 0..MaxCrashes
  BY StoreAssumption DEF Restarted, RestTypes
<1> QED BY <1>1, <1>2 DEF Restarted, RestTypes

LEMMA PhasedTypes ==
  ASSUME NEW c \in Callers, NEW phase \in {"committed", "done"},
         RestTypes, request[c] # None, Phased(c, phase)
  PROVE  /\ request' \in [Callers -> Request \cup {None}]
         /\ \A d \in Callers :
              request'[d] # None /\ (request'[d].kind = "import" \/ request'[d].phase = "saved") =>
                request'[d].change \in Settings
<1>1. request[c] \in Request
  BY DEF RestTypes
<1>2. [request[c] EXCEPT !.phase = phase] \in Request
  BY <1>1 DEF Request
<1>3. request' = [request EXCEPT ![c] = [request[c] EXCEPT !.phase = phase]]
  BY DEF Phased
<1>4. \A d \in Callers :
        request'[d] = IF d = c THEN [request[c] EXCEPT !.phase = phase] ELSE request[d]
  BY <1>3 DEF RestTypes
<1>5. request' \in [Callers -> Request \cup {None}]
  BY <1>2, <1>3 DEF RestTypes
<1>6. [request[c] EXCEPT !.phase = phase].phase = phase
  BY <1>1 DEF Request
<1>7. /\ [request[c] EXCEPT !.phase = phase].kind = request[c].kind
      /\ [request[c] EXCEPT !.phase = phase].change = request[c].change
  BY <1>1 DEF Request
<1> QED BY <1>4, <1>5, <1>6, <1>7 DEF RestTypes

LEMMA CommitTypes ==
  ASSUME NEW c \in Callers, NEW settings, NEW entry, NEW phase \in {"committed", "done"},
         RestTypes, request[c] # None, CommitAs(c, settings, entry, phase)
  PROVE  RestTypes'
<1>1. CASE Written(c, settings, entry, phase)
  BY <1>1, PhasedTypes DEF Written, RestTypes
<1>2. CASE AuditFails(c, settings)
  BY <1>2, FailTypes DEF AuditFails
<1>3. CASE Unsynced(c, settings)
  BY <1>3, FailTypes DEF Unsynced
<1>4. CASE DieUnaudited(c, settings)
  BY <1>4, RestartTypes DEF DieUnaudited
<1> QED BY <1>1, <1>2, <1>3, <1>4 DEF CommitAs

-----------------------------------------------------------------------------
(* A commit that fits keeps the invariant.                                 *)
LEMMA CommitInv ==
  ASSUME NEW c \in Callers, NEW settings, NEW entry, NEW phase \in {"committed", "done"},
         IInv, request[c] # None,
         Fits(c, settings, entry), CommitAs(c, settings, entry, phase)
  PROVE  IInv'
<1>1. request[c] \in Request
  BY DEF IInv, RestTypes
<1>2. DiskInv'
  BY <1>1, CommitGrows, KeptInv, GrownInv DEF IInv
<1>3. RestTypes'
  BY CommitTypes DEF IInv
<1> QED BY <1>2, <1>3 DEF IInv

(* Whole documents fit every request that is not an undo.                  *)
LEMMA DocumentFits ==
  ASSUME NEW c \in Callers, NEW settings \in Settings, request[c].kind # "undo"
  PROVE  Fits(c, settings, Logged("document", NoChange))
<1>1. NoChange \in [{} -> Values \cup {Unset}]
  BY DEF NoChange
<1>2. NoChange \in Changes
  BY <1>1 DEF Changes
<1> QED BY <1>2 DEF Fits, Logged, Entry

LEMMA EditInv ==
  ASSUME NEW c \in Callers, IInv, Edit(c)
  PROVE  IInv'
<1> DEFINE change == request[c].change
           settings == Overlay(stored.settings, change)
<1>1. request[c] # None /\ request[c].kind = "edit" /\ request[c] \in Request
  BY DEF Edit, Is, IInv, RestTypes
<1>2. change \in Changes /\ stored.settings \in Settings
  BY <1>1 DEF Request, IInv, DiskInv, DiskTypes, Document
<1>3. settings \in Settings
  BY <1>2, OverlayType
<1>4. Before(change) \in Changes /\ Overlay(settings, Before(change)) = stored.settings
  BY <1>2, OverlayBefore
<1>5. Fits(c, settings, Logged("edit", Before(change)))
  BY <1>1, <1>3, <1>4 DEF Fits, Logged, Entry
<1>6. CommitAs(c, settings, Logged("edit", Before(change)), "done")
  BY DEF Edit
<1> QED BY <1>1, <1>5, <1>6, CommitInv

LEMMA UndoInv ==
  ASSUME NEW c \in Callers, IInv, Undo(c)
  PROVE  IInv'
<1> DEFINE before == Undone.before
           settings == Overlay(stored.settings, before)
           single == \E k \in Keys : DOMAIN before = {k}
           entry == IF single THEN Logged("edit", Before(before)) ELSE Logged("batch", NoChange)
<1>1. request[c] # None /\ request[c].kind = "undo" /\ request[c] \in Request
  BY DEF Undo, Is, IInv, RestTypes
<1>2. stored.revision \in Revisions /\ stored.settings \in Settings
  BY DEF IInv, DiskInv, DiskTypes, Document
<1>3. audit[stored.revision] \in Entry /\ audit[stored.revision].kind = "edit"
  BY <1>2 DEF Undo, Undone, IInv, DiskInv, DiskTypes
<1>4. before \in Changes
  BY <1>3 DEF Undone, Entry
<1>5. settings \in Settings
  BY <1>2, <1>4, OverlayType
<1>6. Before(before) \in Changes /\ Overlay(settings, Before(before)) = stored.settings
  BY <1>2, <1>4, OverlayBefore
<1>7. stored.revision \in 1..stored.revision /\ stored.revision > 0
  <2>1. audit[0] = None /\ audit[stored.revision] # None
    BY DEF Undo, Undone, IInv, DiskInv, LogLeadsBack
  <2> QED BY <2>1, <1>2, StoreAssumption DEF Revisions
<1>8. settings = past[stored.revision - 1].settings
  BY <1>3, <1>7 DEF Undo, Undone, IInv, DiskInv, LogLeadsBack, DiskIsPast
<1>9. entry \in Entry /\ (entry.kind = "edit" => Overlay(settings, entry.before) = stored.settings)
  <2>1. CASE single
    BY <2>1, <1>6 DEF Logged, Entry
  <2>2. CASE ~single
    <3>1. NoChange \in [{} -> Values \cup {Unset}]
      BY DEF NoChange
    <3>2. NoChange \in Changes
      BY <3>1 DEF Changes
    <3> QED BY <2>2, <3>2 DEF Logged, Entry
  <2> QED BY <2>1, <2>2
<1>10. Fits(c, settings, entry)
  BY <1>1, <1>5, <1>7, <1>8, <1>9 DEF Fits
<1>11. CommitAs(c, settings, entry, "done")
  BY DEF Undo
<1> QED BY <1>1, <1>10, <1>11, CommitInv

LEMMA DocumentInv ==
  ASSUME NEW c \in Callers, IInv,
         Remove(c) \/ ReplaceDocument(c) \/ RollbackImport(c) \/ RollbackMigration(c)
  PROVE  IInv'
<1>1. stored.settings \in Settings
  BY DEF IInv, DiskInv, DiskTypes, Document
<1>2. CASE Remove(c)
  <2>1. request[c] # None /\ request[c].kind = "remove" /\ request[c] \in Request
    BY <1>2 DEF Remove, Is, IInv, RestTypes
  <2>2. Overlay(stored.settings, request[c].change) \in Settings
    BY <1>1, <2>1, OverlayType DEF Request
  <2> QED BY <1>2, <2>1, <2>2, DocumentFits, CommitInv DEF Remove
<1>3. CASE ReplaceDocument(c)
  <2>1. /\ request[c] # None /\ request[c].kind \in {"import", "migrate"}
        /\ request[c].phase = "saved"
    BY <1>3 DEF ReplaceDocument, Is
  <2>2. request[c].change \in Settings
    BY <2>1 DEF IInv, RestTypes
  <2> QED BY <1>3, <2>1, <2>2, DocumentFits, CommitInv DEF ReplaceDocument
<1>4. CASE RollbackImport(c)
  <2>1. request[c] # None /\ request[c].kind = "rollback-import"
    BY <1>4 DEF RollbackImport, Is
  <2>2. imported.backup \in Settings
    BY DEF IInv, RestTypes, State
  <2> QED BY <1>4, <2>1, <2>2, DocumentFits, CommitInv DEF RollbackImport
<1>5. CASE RollbackMigration(c)
  <2>1. request[c] # None /\ request[c].kind = "rollback-migration"
    BY <1>5 DEF RollbackMigration, Is
  <2>2. migrated.backup \in Settings
    BY DEF IInv, RestTypes, State
  <2> QED BY <1>5, <2>1, <2>2, DocumentFits, CommitInv DEF RollbackMigration
<1> QED BY <1>2, <1>3, <1>4, <1>5

-----------------------------------------------------------------------------
(* The steps that commit nothing.                                          *)
LEMMA AskInv ==
  ASSUME NEW c \in Callers, IInv, AskSomething(c)
  PROVE  IInv'
<1>1. PICK kind \in Kinds, change \in Changes :
        Ask(c, kind, change) /\ (kind = "import" => change \in Settings)
  <2>1. \A e \in Edits : e \in Changes
    BY StoreAssumption
  <2>2. \A P \in Profiles : [k \in P |-> Unset] \in Changes
    <3> TAKE P \in Profiles
    <3>1. P \in SUBSET Keys /\ [k \in P |-> Unset] \in [P -> Values \cup {Unset}]
      BY StoreAssumption
    <3> QED BY <3>1 DEF Changes
  <2>3. Settings \subseteq Changes
    <3>1. Keys \in SUBSET Keys
      OBVIOUS
    <3> QED BY <3>1 DEF Settings, Changes
  <2>4. NoChange \in Changes
    <3>1. NoChange \in [{} -> Values \cup {Unset}]
      BY DEF NoChange
    <3> QED BY <3>1 DEF Changes
  <2> QED BY <2>1, <2>2, <2>3, <2>4, StoreAssumption DEF AskSomething, Kinds
<1> DEFINE new == [kind |-> kind, phase |-> "asked", change |-> change,
                   expected |-> document.revision, prior |-> Unapplied]
<1>2. Kept
  BY <1>1 DEF Ask, Kept, disk
<1>3. new \in Request
  BY UnappliedType DEF Request, IInv, DiskInv, DiskTypes, Document
<1>4. request' = [request EXCEPT ![c] = new]
  BY <1>1 DEF Ask
<1>5. request' \in [Callers -> Request \cup {None}]
  BY <1>3, <1>4 DEF IInv, RestTypes
<1>6. \A d \in Callers : request'[d] = IF d = c THEN new ELSE request[d]
  BY <1>4 DEF IInv, RestTypes
<1>7. new.change = change /\ new.kind = kind /\ new.phase = "asked"
  OBVIOUS
<1>8. RestTypes'
  BY <1>1, <1>5, <1>6, <1>7 DEF Ask, IInv, RestTypes
<1> QED BY <1>2, <1>8, KeptInv DEF IInv

(* What is planned and saved has its types.                                *)
LEMMA SavedTypes ==
  ASSUME NEW c \in Callers, NEW state \in State, NEW settings \in Settings,
         IInv, request[c] # None, Saved(c, state, settings)
  PROVE  /\ Planned(c) \in State
         /\ request' \in [Callers -> Request \cup {None}]
         /\ \A d \in Callers :
              request'[d] # None /\ (request'[d].kind = "import" \/ request'[d].phase = "saved") =>
                request'[d].change \in Settings
<1>1. request[c] \in Request /\ document.settings \in Settings
  BY DEF IInv, RestTypes, DiskInv, DiskTypes, Document
<1>2. request[c].expected + 1 \in 1..MaxRevision + 1
  BY <1>1, StoreAssumption DEF Request, Revisions
<1>3. Planned(c) \in State
  BY <1>1, <1>2 DEF Planned, State
<1>4. Keys \in SUBSET Keys
  OBVIOUS
<1>5. settings \in Changes
  BY <1>4 DEF Settings, Changes
<1> DEFINE new == [request[c] EXCEPT !.phase = "saved", !.prior = state, !.change = settings]
<1>6. new \in Request /\ new.change = settings
  BY <1>1, <1>5 DEF Request
<1>7. request' = [request EXCEPT ![c] = new]
  BY DEF Saved
<1>8. request' \in [Callers -> Request \cup {None}]
  BY <1>6, <1>7 DEF IInv, RestTypes
<1>9. \A d \in Callers : request'[d] = IF d = c THEN new ELSE request[d]
  BY <1>7 DEF IInv, RestTypes
<1> QED BY <1>3, <1>6, <1>8, <1>9 DEF IInv, RestTypes

LEMMA SaveInv ==
  ASSUME NEW c \in Callers, IInv, SaveImport(c) \/ SaveMigration(c)
  PROVE  IInv'
<1>1. Kept
  BY DEF SaveImport, SaveMigration, Kept, disk
<1>2. CASE SaveImport(c)
  <2>1. request[c] # None /\ request[c].change \in Settings /\ imported \in State
    BY <1>2 DEF SaveImport, Is, IInv, RestTypes
  <2>2. /\ Planned(c) \in State
        /\ request' \in [Callers -> Request \cup {None}]
        /\ \A d \in Callers :
             request'[d] # None /\ (request'[d].kind = "import" \/ request'[d].phase = "saved") =>
               request'[d].change \in Settings
    BY <1>2, <2>1, SavedTypes DEF SaveImport
  <2>3. RestTypes'
    BY <1>2, <2>2 DEF SaveImport, IInv, RestTypes
  <2> QED BY <1>1, <2>3, KeptInv DEF IInv
<1>3. CASE SaveMigration(c)
  <2>1. request[c] # None /\ Migrated(c) \in Settings /\ migrated \in State
    BY <1>3, StoreAssumption
    DEF SaveMigration, Is, Migrated, Settings, IInv, RestTypes, DiskInv, DiskTypes, Document
  <2>2. /\ Planned(c) \in State
        /\ request' \in [Callers -> Request \cup {None}]
        /\ \A d \in Callers :
             request'[d] # None /\ (request'[d].kind = "import" \/ request'[d].phase = "saved") =>
               request'[d].change \in Settings
    BY <1>3, <2>1, SavedTypes DEF SaveMigration
  <2>3. RestTypes'
    BY <1>3, <2>2 DEF SaveMigration, IInv, RestTypes
  <2> QED BY <1>1, <2>3, KeptInv DEF IInv
<1> QED BY <1>2, <1>3

LEMMA ClearInv ==
  ASSUME NEW c \in Callers, IInv, Clear(c)
  PROVE  IInv'
<1>1. Kept
  BY DEF Clear, Kept, disk
<1>2. request[c] # None /\ Phased(c, "done")
  BY DEF Clear, Is
<1>3. /\ [imported EXCEPT !.applied = None] \in State
      /\ [migrated EXCEPT !.applied = None] \in State
  BY DEF IInv, RestTypes, State
<1>4. imported' \in State /\ migrated' \in State
  BY <1>3 DEF Clear, IInv, RestTypes
<1>5. RestTypes'
  BY <1>2, <1>4, PhasedTypes DEF Clear, IInv, RestTypes
<1> QED BY <1>1, <1>5, KeptInv DEF IInv

LEMMA RefuseInv ==
  ASSUME NEW c \in Callers, IInv, Refuse(c)
  PROVE  IInv'
<1>1. Kept
  BY DEF Refuse, Kept
<1>2. RestTypes'
  BY FailTypes DEF Refuse, IInv
<1> QED BY <1>1, <1>2, KeptInv DEF IInv

LEMMA AnswerInv ==
  ASSUME NEW c \in Callers, IInv, Answer(c)
  PROVE  IInv'
<1>1. Kept
  BY DEF Answer, Kept, disk
<1>2. \A d \in Callers : request'[d] = IF d = c THEN None ELSE request[d]
  BY DEF Answer, IInv, RestTypes
<1>3. request' \in [Callers -> Request \cup {None}]
  BY DEF Answer, IInv, RestTypes
<1>4. RestTypes'
  BY <1>2, <1>3 DEF Answer, IInv, RestTypes
<1> QED BY <1>1, <1>4, KeptInv DEF IInv

LEMMA CrashInv ==
  ASSUME IInv, Crash
  PROVE  IInv'
<1>1. Kept
  BY DEF Crash, Restarted, Kept, disk
<1>2. RestTypes'
  BY RestartTypes DEF Crash, IInv
<1> QED BY <1>1, <1>2, KeptInv DEF IInv

-----------------------------------------------------------------------------
LEMMA InitInv == StoreInit => IInv
<1> SUFFICES ASSUME StoreInit PROVE IInv
  OBVIOUS
<1>1. Empty \in Settings /\ 0 \in Revisions
  BY StoreAssumption DEF Empty, Settings, Revisions
<1>2. DiskTypes
  BY <1>1 DEF StoreInit, DiskTypes, Document, Revision
<1>3. DiskIsPast /\ LogLeadsBack /\ UndoRestores
  BY <1>1, StoreAssumption DEF StoreInit, DiskIsPast, LogLeadsBack, UndoRestores, Revisions
<1>4. RestTypes
  BY UnappliedType, StoreAssumption DEF StoreInit, RestTypes
<1> QED BY <1>2, <1>3, <1>4 DEF IInv, DiskInv

LEMMA NextInv == IInv /\ [StoreNext]_storeVars => IInv'
<1> SUFFICES ASSUME IInv, [StoreNext]_storeVars PROVE IInv'
  OBVIOUS
<1>1. ASSUME NEW c \in Callers, AskSomething(c) \/ Mutation(c) \/ Answer(c)
      PROVE  IInv'
  <2>1. CASE Mutation(c)
    BY <2>1, EditInv, UndoInv, DocumentInv, SaveInv, ClearInv, RefuseInv DEF Mutation
  <2> QED BY <1>1, <2>1, AskInv, AnswerInv
<1>2. CASE UNCHANGED storeVars
  <2>1. Kept
    BY <1>2 DEF storeVars, Kept
  <2>2. RestTypes'
    BY <1>2 DEF storeVars, IInv, RestTypes
  <2> QED BY <2>1, <2>2, KeptInv DEF IInv
<1> QED BY <1>1, <1>2, CrashInv DEF StoreNext

LEMMA Invariance == StoreSpec => []IInv
BY InitInv, NextInv, PTL DEF StoreSpec

(* Every variable of the store has its type.                               *)
THEOREM TypeCorrect == StoreSpec => []TypeOK
<1>1. IInv => TypeOK
  BY DEF IInv, DiskInv, DiskTypes, RestTypes, TypeOK
<1> QED BY <1>1, Invariance, PTL

(* Undo brings back the settings before the change it undoes, whatever     *)
(* other callers do and wherever writes fail or the Gateway dies           *)
(* (GatewayConfigurationStore.undo, _commit, _load_audit).                 *)
THEOREM UndoIsExact == StoreSpec => []UndoRestores
<1>1. IInv => UndoRestores
  BY DEF IInv, DiskInv
<1> QED BY <1>1, Invariance, PTL

-----------------------------------------------------------------------------
LEMMA StepEffect ==
  ASSUME StoreNext
  PROVE  Kept \/ \E c \in Callers : \E settings, entry : Grown(c, settings, entry)
<1>1. ASSUME NEW c \in Callers, NEW settings, NEW entry, NEW phase,
             CommitAs(c, settings, entry, phase)
      PROVE  Kept \/ \E d \in Callers : \E s, e : Grown(d, s, e)
  BY <1>1, CommitGrows
<1>2. ASSUME NEW c \in Callers, AskSomething(c) \/ Mutation(c) \/ Answer(c)
      PROVE  Kept \/ \E d \in Callers : \E s, e : Grown(d, s, e)
  <2>1. CASE AskSomething(c)
    BY <2>1 DEF AskSomething, Ask, Kept, disk
  <2>2. CASE Edit(c)
    BY <1>1, <2>2 DEF Edit
  <2>3. CASE Undo(c)
    BY <1>1, <2>3 DEF Undo
  <2>4. CASE Remove(c)
    BY <1>1, <2>4 DEF Remove
  <2>5. CASE ReplaceDocument(c)
    BY <1>1, <2>5 DEF ReplaceDocument
  <2>6. CASE RollbackImport(c)
    BY <1>1, <2>6 DEF RollbackImport
  <2>7. CASE RollbackMigration(c)
    BY <1>1, <2>7 DEF RollbackMigration
  <2>8. CASE SaveImport(c) \/ SaveMigration(c) \/ Clear(c) \/ Refuse(c) \/ Answer(c)
    BY <2>8 DEF SaveImport, SaveMigration, Clear, Refuse, Answer, Kept, disk
  <2> QED BY <1>2, <2>1, <2>2, <2>3, <2>4, <2>5, <2>6, <2>7, <2>8 DEF Mutation
<1>3. CASE Crash
  BY <1>3 DEF Crash, Restarted, Kept, disk
<1> QED BY <1>2, <1>3 DEF StoreNext

LEMMA StepVisible ==
  ASSUME IInv, IInv', StoreNext
  PROVE  VisibleStays
<1>0. /\ MaxRevision \in Nat /\ Revisions = 0..MaxRevision
      /\ stored.revision \in Revisions /\ document.revision \in Revisions
      /\ document.revision <= stored.revision
  BY StoreAssumption DEF IInv, DiskInv, DiskTypes, DiskIsPast, Document, Revisions
<1>1. document'.settings = past'[document'.revision].settings
  BY DEF IInv, DiskInv, DiskIsPast
<1>2. CASE Kept
  BY <1>0, <1>1, <1>2 DEF Kept, disk, VisibleStays
<1>3. ASSUME NEW c \in Callers, NEW settings, NEW entry, Grown(c, settings, entry)
      PROVE  VisibleStays
  <2>1. document'.revision >= document.revision
    BY <1>0, <1>3 DEF Grown, Replace
  <2>2. \A r \in 0..document.revision : past'[r] = past[r]
    BY <1>0, <1>3 DEF Grown, Replace, IInv, DiskInv, DiskTypes
  <2> QED BY <1>1, <2>1, <2>2 DEF VisibleStays
<1> QED BY <1>2, <1>3, StepEffect

(* What readers have seen is never taken back, for every order of          *)
(* requests, failed writes and crashes (_commit, _mutation_lock).          *)
THEOREM VisibleNeverLost == StoreSpec => VisibleIsFinal
<1>1. IInv /\ IInv' /\ [StoreNext]_storeVars => [VisibleStays]_storeVars
  BY StepVisible
<1> QED BY <1>1, Invariance, PTL DEF StoreSpec, VisibleIsFinal
-----------------------------------------------------------------------------
(* Backups.  What was saved before a commit is right wherever the commit   *)
(* ends, and so is what the request itself keeps to take back.             *)

RightBackup(state, revision, history) ==
  state.applied # None =>
    /\ state.applied <= revision + 1
    /\ state.backup = history[state.applied - 1].settings

Saving(c) == Is(c, "migrate", "saved")
Busy(c) == Saving(c) \/ Is(c, "rollback-migration", "committed")

(* A migration that is saved and not committed is one revision ahead; it   *)
(* is alone, and what it takes back was committed.                         *)
SavingIsAhead ==
  /\ \A c \in Callers : Saving(c) =>
       /\ migrated.applied = request[c].expected + 1
       /\ request[c].prior.applied # None => request[c].prior.applied <= stored.revision
  /\ \A c, d \in Callers : Saving(c) /\ Busy(d) => c = d
  /\ (\A c \in Callers : ~Saving(c)) /\ migrated.applied # None =>
       migrated.applied <= stored.revision

BackupsRight ==
  /\ RightBackup(imported, stored.revision, past)
  /\ RightBackup(migrated, stored.revision, past)
  /\ \A c \in Callers :
       request[c] # None => RightBackup(request[c].prior, stored.revision, past)

BackupInv == BackupsRight /\ SavingIsAhead

(* The step as the past sees it.                                           *)
PastGrows ==
  /\ stored'.revision >= stored.revision
  /\ \A r \in 0..stored.revision : past'[r] = past[r]

LEMMA StepGrows ==
  ASSUME IInv, [StoreNext]_storeVars
  PROVE  PastGrows
<1>0. MaxRevision \in Nat /\ Revisions = 0..MaxRevision /\ stored.revision \in Revisions
  BY StoreAssumption DEF IInv, DiskInv, DiskTypes, Document, Revisions
<1>1. CASE Kept \/ UNCHANGED storeVars
  BY <1>0, <1>1 DEF Kept, disk, storeVars, PastGrows
<1>2. ASSUME NEW c \in Callers, NEW settings, NEW entry, Grown(c, settings, entry)
      PROVE  PastGrows
  BY <1>0, <1>2 DEF Grown, Replace, IInv, DiskInv, DiskTypes, PastGrows
<1> QED BY <1>1, <1>2, StepEffect

(* A backup that is right stays right.                                     *)
LEMMA BackupStays ==
  ASSUME IInv, PastGrows, stored'.revision \in Revisions,
         NEW state \in State, RightBackup(state, stored.revision, past)
  PROVE  RightBackup(state, stored'.revision, past')
<1>1. MaxRevision \in Nat /\ stored.revision \in 0..MaxRevision /\ stored'.revision \in 0..MaxRevision
  BY StoreAssumption DEF IInv, DiskInv, DiskTypes, Document, Revisions
<1>2. CASE state.applied # None
  <2>1. state.applied \in 1..MaxRevision + 1
    BY <1>2 DEF State
  <2>2. state.applied - 1 \in 0..stored.revision
    BY <1>1, <1>2, <2>1 DEF RightBackup
  <2> QED BY <1>1, <2>1, <2>2 DEF RightBackup, PastGrows
<1> QED BY <1>2 DEF RightBackup

(* What the store saved and what requests keep, when nothing is saved.     *)
LEMMA BackupsStay ==
  ASSUME IInv, IInv', PastGrows, BackupsRight,
         imported' \in {imported} \cup {request[c].prior : c \in {d \in Callers : request[d] # None}}
                         \cup {[imported EXCEPT !.applied = None]},
         migrated' \in {migrated} \cup {request[c].prior : c \in {d \in Callers : request[d] # None}}
                         \cup {[migrated EXCEPT !.applied = None]} \cup {Unapplied},
         \A c \in Callers : request'[c] # None =>
           \/ request'[c].prior = Unapplied
           \/ request[c] # None /\ request'[c].prior = request[c].prior
  PROVE  BackupsRight'
<1>1. /\ stored'.revision \in Revisions /\ imported \in State /\ migrated \in State
      /\ \A c \in Callers : request[c] # None => request[c].prior \in State
  BY DEF IInv, RestTypes, DiskInv, DiskTypes, Document, Request
<1>2. ASSUME NEW state, state.applied = None PROVE RightBackup(state, stored'.revision, past')
  BY <1>2 DEF RightBackup
<1>3. \A c \in Callers : request[c] # None => RightBackup(request[c].prior, stored'.revision, past')
  BY <1>1, BackupStays DEF BackupsRight
<1>4. /\ RightBackup(imported, stored'.revision, past')
      /\ RightBackup(migrated, stored'.revision, past')
  BY <1>1, BackupStays DEF BackupsRight
<1>5. /\ Unapplied.applied = None
      /\ [imported EXCEPT !.applied = None].applied = None
      /\ [migrated EXCEPT !.applied = None].applied = None
  BY <1>1 DEF Unapplied, State
<1>6. RightBackup(imported', stored'.revision, past')
  BY <1>2, <1>3, <1>4, <1>5
<1>7. RightBackup(migrated', stored'.revision, past')
  BY <1>2, <1>3, <1>4, <1>5
<1>8. ASSUME NEW c \in Callers, request'[c] # None
      PROVE  RightBackup(request'[c].prior, stored'.revision, past')
  BY <1>2, <1>3, <1>5, <1>8
<1> QED BY <1>6, <1>7, <1>8 DEF BackupsRight

(* A request fails: a migration that was saved is taken back.              *)
LEMMA FailBackup ==
  ASSUME NEW c \in Callers, IInv, IInv', PastGrows, BackupInv, request[c] # None, Fail(c)
  PROVE  BackupInv'
<1>1. \A d \in Callers : request'[d] = IF d = c THEN None ELSE request[d]
  BY DEF Fail, IInv, RestTypes
<1>2. BackupsRight'
  BY <1>1, BackupsStay DEF Fail, BackupInv
<1>3. /\ stored.revision \in Nat /\ stored'.revision \in Nat /\ stored'.revision >= stored.revision
      /\ migrated \in State /\ request[c].prior \in State
  BY StoreAssumption
     DEF PastGrows, IInv, RestTypes, DiskInv, DiskTypes, Document, Revisions, Request
<1>4. \A d \in Callers : Saving(d)' => Saving(d) /\ d # c /\ request'[d] = request[d]
  BY <1>1 DEF Saving, Is
<1>5. \A d \in Callers : Busy(d)' => Busy(d) /\ d # c
  BY <1>1 DEF Saving, Busy, Is
<1>6. \A d, e \in Callers : Saving(d)' /\ Busy(e)' => d = e
  BY <1>4, <1>5 DEF BackupInv, SavingIsAhead
<1>7. CASE Saving(c)
  <2>1. \A d \in Callers : ~Saving(d)'
    BY <1>4, <1>7 DEF BackupInv, SavingIsAhead, Busy
  <2>2. migrated' = request[c].prior
    BY <1>7 DEF Fail, Saving
  <2>3. migrated'.applied # None => migrated'.applied <= stored'.revision
    <3> SUFFICES ASSUME migrated'.applied # None PROVE migrated'.applied <= stored'.revision
      OBVIOUS
    <3>1. request[c].prior.applied \in Nat /\ request[c].prior.applied <= stored.revision
      BY <1>3, <1>7, <2>2, StoreAssumption DEF BackupInv, SavingIsAhead, State
    <3> QED BY <1>3, <2>2, <3>1
  <2> QED BY <1>2, <1>6, <2>1, <2>3 DEF BackupInv, SavingIsAhead
<1>8. CASE ~Saving(c)
  <2>1. migrated' = migrated
    BY <1>8 DEF Fail, Saving
  <2>2. \A d \in Callers : Saving(d) => Saving(d)'
    BY <1>1, <1>8 DEF Saving, Is
  <2>3. ASSUME NEW d \in Callers, Saving(d)'
        PROVE  /\ migrated'.applied = request'[d].expected + 1
               /\ request'[d].prior.applied # None => request'[d].prior.applied <= stored'.revision
    <3>1. Saving(d) /\ request'[d] = request[d] /\ request[d].prior \in State
      BY <1>4, <2>3 DEF Saving, Is, IInv, RestTypes, Request
    <3>2. request[d].prior.applied # None => request[d].prior.applied \in Nat
      BY <3>1, StoreAssumption DEF State
    <3> QED BY <1>3, <2>1, <3>1, <3>2 DEF BackupInv, SavingIsAhead
  <2>4. (\A d \in Callers : ~Saving(d)') /\ migrated'.applied # None =>
          migrated'.applied <= stored'.revision
    <3>1. migrated.applied # None => migrated.applied \in Nat
      BY <1>3, StoreAssumption DEF State
    <3> QED BY <1>3, <2>1, <2>2, <3>1 DEF BackupInv, SavingIsAhead
  <2> QED BY <1>2, <1>6, <2>3, <2>4 DEF BackupInv, SavingIsAhead
<1> QED BY <1>7, <1>8

(* A new process forgets what was saved and never committed.               *)
LEMMA RestartBackup ==
  ASSUME IInv, IInv', PastGrows, BackupInv, Restarted
  PROVE  BackupInv'
<1>1. /\ \A c \in Callers : request'[c] = None
      /\ imported' = imported
      /\ migrated' \in {migrated, Unapplied}
  BY DEF Restarted, Loaded
<1>2. BackupsRight'
  BY <1>1, BackupsStay DEF BackupInv
<1>3. migrated'.applied # None => migrated'.applied <= stored'.revision
  <2>1. Unapplied.applied = None
    BY DEF Unapplied
  <2>2. /\ migrated.applied # None => migrated.applied \in Nat
        /\ stored'.revision \in Nat
    BY StoreAssumption DEF IInv, RestTypes, State, DiskInv, DiskTypes, Document, Revisions
  <2> QED BY <2>1, <2>2 DEF Restarted, Loaded
<1>4. \A c \in Callers : ~Saving(c)'
  BY <1>1 DEF Saving, Is
<1> QED BY <1>2, <1>3, <1>4 DEF BackupInv, SavingIsAhead

(* A request that saved nothing goes on, or a migration that was saved is  *)
(* committed as the revision it announced.                                 *)
LEMMA PhasedBackup ==
  ASSUME NEW c \in Callers, NEW phase \in {"committed", "done"},
         IInv, IInv', PastGrows, BackupInv, request[c] # None, Phased(c, phase),
         imported' \in {imported, [imported EXCEPT !.applied = None]},
         \/ migrated' = migrated
         \/ migrated' = [migrated EXCEPT !.applied = None] /\ Busy(c) /\ ~Saving(c),
         request[c].kind = "rollback-migration" => Busy(c) \/ \A d \in Callers : ~Saving(d),
         Saving(c) => /\ migrated' = migrated
                      /\ stored'.revision = request[c].expected + 1
  PROVE  BackupInv'
<1>1. request[c] \in Request
  BY DEF IInv, RestTypes
<1>2. \A d \in Callers :
        request'[d] = IF d = c THEN [request[c] EXCEPT !.phase = phase] ELSE request[d]
  BY DEF Phased, IInv, RestTypes
<1>3. /\ [request[c] EXCEPT !.phase = phase].phase = phase
      /\ [request[c] EXCEPT !.phase = phase].prior = request[c].prior
  BY <1>1 DEF Request
<1>4. \A d \in Callers : request'[d] # None =>
        request[d] # None /\ request'[d].prior = request[d].prior
  BY <1>2, <1>3
<1>5. BackupsRight'
  BY <1>4, BackupsStay DEF BackupInv
<1>6. \A d \in Callers : Saving(d)' => Saving(d) /\ d # c /\ request'[d] = request[d]
  BY <1>2, <1>3 DEF Saving, Is
<1>7. \A d \in Callers : Saving(d) /\ d # c => Saving(d)'
  BY <1>2 DEF Saving, Is
<1>8. /\ stored.revision \in Nat /\ stored'.revision \in Nat /\ stored'.revision >= stored.revision
      /\ migrated \in State /\ migrated' \in State
      /\ migrated.applied # None => migrated.applied \in Nat
      /\ migrated'.applied # None => migrated'.applied = migrated.applied
  <2>1. [migrated EXCEPT !.applied = None].applied = None
    BY DEF IInv, RestTypes, State
  <2> QED
    BY <2>1, StoreAssumption
       DEF PastGrows, IInv, RestTypes, DiskInv, DiskTypes, Document, Revisions, State
<1>9. ASSUME NEW d \in Callers, Saving(d)'
      PROVE  /\ migrated'.applied = request'[d].expected + 1
             /\ request'[d].prior.applied # None => request'[d].prior.applied <= stored'.revision
  <2>1. Saving(d) /\ request'[d] = request[d] /\ request[d].prior \in State
    BY <1>6, <1>9 DEF Saving, Is, IInv, RestTypes, Request
  <2>2. request[d].prior.applied # None => request[d].prior.applied \in Nat
    BY <2>1, StoreAssumption DEF State
  <2>3. migrated' = migrated
    BY <1>6, <1>9 DEF BackupInv, SavingIsAhead
  <2> QED BY <1>8, <2>1, <2>2, <2>3 DEF BackupInv, SavingIsAhead
<1>10. \A d, e \in Callers : Saving(d)' /\ Busy(e)' => d = e
  <2> SUFFICES ASSUME NEW d \in Callers, NEW e \in Callers, Saving(d)', Busy(e)' PROVE d = e
    OBVIOUS
  <2>1. Saving(d) /\ d # c
    BY <1>6
  <2>2. Busy(e) \/ e = c
    BY <1>2 DEF Busy, Saving, Is
  <2>3. e # c
    <3> SUFFICES ASSUME e = c PROVE FALSE
      OBVIOUS
    <3>1. ~Busy(c)
      BY <2>1 DEF BackupInv, SavingIsAhead
    <3>2. request[c].kind = "rollback-migration"
      BY <1>1, <1>2, <1>3 DEF Busy, Saving, Is, Request
    <3> QED BY <2>1, <3>1, <3>2
  <2> QED BY <2>1, <2>2, <2>3 DEF BackupInv, SavingIsAhead
<1>11. (\A d \in Callers : ~Saving(d)') /\ migrated'.applied # None =>
         migrated'.applied <= stored'.revision
  <2> SUFFICES ASSUME \A d \in Callers : ~Saving(d)', migrated'.applied # None
               PROVE  migrated'.applied <= stored'.revision
    OBVIOUS
  <2>1. CASE Saving(c)
    BY <1>8, <2>1 DEF BackupInv, SavingIsAhead
  <2>2. CASE ~Saving(c)
    <3>1. \A d \in Callers : ~Saving(d)
      BY <1>7, <2>2
    <3>2. migrated'.applied = migrated.applied
      BY <1>8
    <3> QED BY <1>8, <3>1, <3>2 DEF BackupInv, SavingIsAhead
  <2> QED BY <2>1, <2>2
<1> QED BY <1>5, <1>6, <1>9, <1>10, <1>11 DEF BackupInv, SavingIsAhead

LEMMA CommitBackup ==
  ASSUME NEW c \in Callers, NEW settings, NEW entry, NEW phase \in {"committed", "done"},
         IInv, IInv', PastGrows, BackupInv, request[c] # None,
         CommitAs(c, settings, entry, phase),
         request[c].kind = "rollback-migration" => \A d \in Callers : ~Saving(d),
         Current(c)
  PROVE  BackupInv'
<1>1. CASE Written(c, settings, entry, phase)
  <2>1. migrated' = migrated /\ imported' = imported /\ Phased(c, phase)
    BY <1>1 DEF Written
  <2>2. stored'.revision = request[c].expected + 1
    BY <1>1 DEF Written, Replace, Current
  <2> QED BY <2>1, <2>2, PhasedBackup
<1>2. CASE AuditFails(c, settings)
  BY <1>2, FailBackup DEF AuditFails
<1>3. CASE Unsynced(c, settings)
  BY <1>3, FailBackup DEF Unsynced
<1>4. CASE DieUnaudited(c, settings)
  BY <1>4, RestartBackup DEF DieUnaudited
<1> QED BY <1>1, <1>2, <1>3, <1>4 DEF CommitAs

LEMMA MutationBackup ==
  ASSUME NEW c \in Callers, IInv, IInv', PastGrows, BackupInv,
         Edit(c) \/ Undo(c) \/ Remove(c) \/ ReplaceDocument(c)
         \/ RollbackImport(c) \/ RollbackMigration(c)
  PROVE  BackupInv'
<1>1. CASE Edit(c)
  BY <1>1, CommitBackup DEF Edit, Is
<1>2. CASE Undo(c)
  BY <1>2, CommitBackup DEF Undo, Is
<1>3. CASE Remove(c)
  BY <1>3, CommitBackup DEF Remove, Is
<1>4. CASE ReplaceDocument(c)
  BY <1>4, CommitBackup DEF ReplaceDocument, Is
<1>5. CASE RollbackImport(c)
  BY <1>5, CommitBackup DEF RollbackImport, Is
<1>6. CASE RollbackMigration(c)
  BY <1>6, CommitBackup DEF RollbackMigration, Is, MigrationFree, Saving
<1> QED BY <1>1, <1>2, <1>3, <1>4, <1>5, <1>6

(* What is saved before a commit is the document it starts from.           *)
LEMMA PlannedIsRight ==
  ASSUME NEW c \in Callers, IInv, request[c].expected = document.revision
  PROVE  RightBackup(Planned(c), stored.revision, past)
<1>1. /\ document.revision \in Nat /\ stored.revision \in Nat
      /\ document.revision <= stored.revision
      /\ document.settings = past[document.revision].settings
  BY StoreAssumption DEF IInv, DiskInv, DiskIsPast, DiskTypes, Document, Revisions
<1>2. Planned(c).applied - 1 = document.revision /\ Planned(c).backup = document.settings
  BY <1>1 DEF Planned
<1>3. Planned(c).applied = document.revision + 1
  BY DEF Planned
<1> QED BY <1>1, <1>2, <1>3 DEF RightBackup

LEMMA SaveBackup ==
  ASSUME NEW c \in Callers, IInv, IInv', BackupInv, SaveImport(c) \/ SaveMigration(c)
  PROVE  BackupInv'
<1>1. /\ request[c] # None /\ request[c] \in Request /\ request[c].phase = "asked"
      /\ request[c].expected = document.revision
  BY DEF SaveImport, SaveMigration, Is, IInv, RestTypes
<1>2. stored' = stored /\ past' = past
  BY DEF SaveImport, SaveMigration, disk
<1>3. RightBackup(Planned(c), stored.revision, past)
  BY <1>1, PlannedIsRight
<1>4. CASE SaveImport(c)
  <2> DEFINE new == [request[c] EXCEPT !.phase = "saved", !.prior = imported,
                                       !.change = request[c].change]
  <2>1. imported' = Planned(c) /\ migrated' = migrated /\ request' = [request EXCEPT ![c] = new]
    BY <1>4 DEF SaveImport, Saved
  <2>2. new.prior = imported /\ new.kind = "import"
    BY <1>1, <1>4 DEF SaveImport, Is, Request
  <2>3. \A d \in Callers : request'[d] = IF d = c THEN new ELSE request[d]
    BY <2>1 DEF IInv, RestTypes
  <2>4. BackupsRight'
    BY <1>2, <1>3, <2>1, <2>2, <2>3 DEF BackupInv, BackupsRight
  <2>5. ~Saving(c) /\ ~Saving(c)' /\ ~Busy(c)'
    BY <1>4, <2>2, <2>3 DEF SaveImport, Busy, Saving, Is
  <2>6. \A d \in Callers : /\ Saving(d)' <=> Saving(d)
                           /\ Busy(d)' => Busy(d)
                           /\ Saving(d) => request'[d] = request[d]
    BY <2>3, <2>5 DEF Saving, Busy, Is
  <2> QED BY <1>2, <2>1, <2>4, <2>6 DEF BackupInv, SavingIsAhead
<1>5. CASE SaveMigration(c)
  <2> DEFINE new == [request[c] EXCEPT !.phase = "saved", !.prior = migrated,
                                       !.change = Migrated(c)]
  <2>1. imported' = imported /\ migrated' = Planned(c) /\ request' = [request EXCEPT ![c] = new]
    BY <1>5 DEF SaveMigration, Saved
  <2>2. new.prior = migrated /\ new.expected = request[c].expected
    BY <1>1 DEF Request
  <2>3. \A d \in Callers : request'[d] = IF d = c THEN new ELSE request[d]
    BY <2>1 DEF IInv, RestTypes
  <2>4. BackupsRight'
    BY <1>2, <1>3, <2>1, <2>2, <2>3 DEF BackupInv, BackupsRight
  <2>5. \A d \in Callers : ~Busy(d)
    BY <1>5 DEF SaveMigration, MigrationFree, Busy, Saving
  <2>6. \A d \in Callers : Busy(d)' => d = c
    BY <2>3, <2>5 DEF Saving, Busy, Is
  <2>7. \A d \in Callers : Saving(d)' => d = c
    BY <2>6 DEF Busy
  <2>8. Saving(c)'
    <3>1. new # None /\ new.kind = "migrate" /\ new.phase = "saved"
      <4>1. new.kind = "migrate" /\ new.phase = "saved"
        BY <1>1, <1>5 DEF SaveMigration, Is, Request
      <4>2. new \in Request
        <5>1. migrated \in State /\ Migrated(c) \in Changes
          <6>1. Migrated(c) \in Settings /\ Keys \in SUBSET Keys
            BY StoreAssumption DEF Migrated, Settings, IInv, DiskInv, DiskTypes, Document
          <6> QED BY <6>1 DEF Settings, Changes, IInv, RestTypes
        <5> QED BY <1>1, <5>1 DEF Request, IInv, RestTypes
      <4> QED BY <4>1, <4>2, NoneAssumption
    <3> QED BY <2>3, <3>1 DEF Saving, Is
  <2>9. migrated'.applied = new.expected + 1
    BY <2>1, <2>2 DEF Planned
  <2>10. new.prior.applied # None => new.prior.applied <= stored.revision
    BY <2>2, <2>5 DEF BackupInv, SavingIsAhead, Busy
  <2> QED BY <1>2, <2>3, <2>4, <2>6, <2>7, <2>8, <2>9, <2>10 DEF BackupInv, SavingIsAhead
<1> QED BY <1>4, <1>5

LEMMA ClearBackup ==
  ASSUME NEW c \in Callers, IInv, IInv', PastGrows, BackupInv, Clear(c)
  PROVE  BackupInv'
<1>1. request[c] # None /\ Phased(c, "done") /\ ~Saving(c)
  BY DEF Clear, Saving, Is
<1>2. CASE Is(c, "rollback-import", "committed")
  <2>1. imported' = [imported EXCEPT !.applied = None] /\ migrated' = migrated
        /\ request[c].kind # "rollback-migration"
    BY <1>2 DEF Clear, Is
  <2> QED BY <1>1, <2>1, PhasedBackup
<1>3. CASE Is(c, "rollback-migration", "committed")
  <2>1. imported' = imported /\ migrated' = [migrated EXCEPT !.applied = None] /\ Busy(c)
    BY <1>3 DEF Clear, Is, Busy
  <2> QED BY <1>1, <2>1, PhasedBackup
<1> QED BY <1>2, <1>3 DEF Clear

(* Steps that neither save nor commit.                                     *)
LEMMA QuietBackup ==
  ASSUME NEW c \in Callers, IInv, IInv', PastGrows, BackupInv, AskSomething(c) \/ Answer(c)
  PROVE  BackupInv'
<1>1. /\ stored' = stored /\ imported' = imported /\ migrated' = migrated
      /\ \A d \in Callers : d # c => request'[d] = request[d]
      /\ request'[c] # None => request'[c].prior = Unapplied /\ request'[c].phase = "asked"
  BY DEF AskSomething, Ask, Answer, disk, IInv, RestTypes
<1>2. BackupsRight'
  BY <1>1, BackupsStay DEF BackupInv
<1>3. ~Saving(c)' /\ ~Busy(c)'
  BY <1>1 DEF Saving, Busy, Is
<1>4. \A d \in Callers : d # c => (Saving(d)' <=> Saving(d)) /\ (Busy(d)' <=> Busy(d))
  BY <1>1 DEF Saving, Busy, Is
<1>5. ~Saving(c)
  <2>1. request[c] = None \/ request[c].phase = "done"
    BY DEF AskSomething, Ask, Answer
  <2> QED BY <2>1 DEF Saving, Is
<1> QED BY <1>1, <1>2, <1>3, <1>4, <1>5 DEF BackupInv, SavingIsAhead

LEMMA NextBackup == IInv /\ IInv' /\ BackupInv /\ [StoreNext]_storeVars => BackupInv'
<1> SUFFICES ASSUME IInv, IInv', BackupInv, [StoreNext]_storeVars PROVE BackupInv'
  OBVIOUS
<1>1. PastGrows
  BY StepGrows
<1>2. ASSUME NEW c \in Callers, Refuse(c) PROVE BackupInv'
  BY <1>1, <1>2, FailBackup DEF Refuse
<1>3. ASSUME NEW c \in Callers, Mutation(c) PROVE BackupInv'
  BY <1>1, <1>2, <1>3, MutationBackup, SaveBackup, ClearBackup DEF Mutation
<1>4. ASSUME NEW c \in Callers, AskSomething(c) \/ Answer(c) PROVE BackupInv'
  BY <1>1, <1>4, QuietBackup
<1>5. CASE Crash
  BY <1>1, <1>5, RestartBackup DEF Crash
<1>6. CASE UNCHANGED storeVars
  BY <1>6 DEF storeVars, disk, BackupInv, BackupsRight, SavingIsAhead, Saving, Busy, Is
<1> QED BY <1>3, <1>4, <1>5, <1>6 DEF StoreNext

LEMMA InitBackup == StoreInit => BackupInv
<1> SUFFICES ASSUME StoreInit PROVE BackupInv
  OBVIOUS
<1>1. Unapplied.applied = None
  BY DEF Unapplied
<1>2. \A c \in Callers : request[c] = None /\ ~Saving(c)
  BY DEF StoreInit, Saving, Is
<1> QED BY <1>1, <1>2 DEF StoreInit, BackupInv, BackupsRight, RightBackup, SavingIsAhead

LEMMA BackupInvariance == StoreSpec => [](IInv /\ BackupInv)
BY InitInv, NextInv, InitBackup, NextBackup, PTL DEF StoreSpec

(* What a rollback would restore is the document before the revision that  *)
(* was applied, wherever saving, commit and crash fall                     *)
(* (configuration_transfer.py and gateway_migration.py save before they    *)
(* commit).                                                                *)
THEOREM BackupsPrecede == StoreSpec => []BackupPrecedes
<1>1. IInv /\ BackupInv => BackupPrecedes
  <2> SUFFICES ASSUME IInv, BackupInv PROVE BackupPrecedes
    OBVIOUS
  <2>1. \A state \in {imported, migrated} :
          state.applied # None => state.backup = past[state.applied - 1].settings
    BY DEF BackupInv, BackupsRight, RightBackup
  <2>2. MigrationFree => \A c \in Callers : ~Saving(c)
    BY DEF MigrationFree, Saving
  <2> QED BY <2>1, <2>2 DEF BackupInv, SavingIsAhead, BackupPrecedes
<1> QED BY <1>1, BackupInvariance, PTL

(* The commit of an import's rollback restores the document before the     *)
(* last revision.                                                          *)
LEMMA RollbackTakesLast ==
  ASSUME NEW c \in Callers, IInv, BackupInv, RollbackImport(c)
  PROVE  /\ stored.revision > 0
         /\ imported.backup = past[stored.revision - 1].settings
<1>1. imported.applied = stored.revision /\ stored.revision \in Nat /\ imported \in State
  BY StoreAssumption
     DEF RollbackImport, ImportIsLast, Current, IInv, RestTypes, DiskInv, DiskTypes, Document,
         Revisions
<1>2. imported.applied # None /\ imported.applied \in 1..MaxRevision + 1
  BY <1>1, StoreAssumption DEF State
<1> QED BY <1>1, <1>2, StoreAssumption DEF BackupInv, BackupsRight, RightBackup

(* A step that adds a revision for the rollback of an import takes the     *)
(* last revision back.                                                     *)
LEMMA StepRollback ==
  ASSUME IInv, BackupInv, StoreNext
  PROVE  \/ Kept
         \/ \E c \in Callers : \E settings, entry :
              /\ Grown(c, settings, entry)
              /\ request[c].kind = "rollback-import" =>
                   stored.revision > 0 /\ settings = past[stored.revision - 1].settings
<1> DEFINE Good(c, settings, entry) ==
             /\ Grown(c, settings, entry)
             /\ request[c].kind = "rollback-import" =>
                  stored.revision > 0 /\ settings = past[stored.revision - 1].settings
<1>1. ASSUME NEW c \in Callers, NEW settings, NEW entry, NEW phase,
             CommitAs(c, settings, entry, phase),
             request[c].kind = "rollback-import" =>
               stored.revision > 0 /\ settings = past[stored.revision - 1].settings
      PROVE  Kept \/ \E d \in Callers : \E s, e : Good(d, s, e)
  BY <1>1, CommitGrows
<1>2. ASSUME NEW c \in Callers, Edit(c) \/ Undo(c) \/ Remove(c) \/ ReplaceDocument(c)
                                \/ RollbackMigration(c)
      PROVE  Kept \/ \E d \in Callers : \E s, e : Good(d, s, e)
  <2>1. request[c].kind # "rollback-import"
    BY <1>2 DEF Edit, Undo, Remove, ReplaceDocument, RollbackMigration, Is
  <2>2. \E settings, entry, phase : CommitAs(c, settings, entry, phase)
    BY <1>2 DEF Edit, Undo, Remove, ReplaceDocument, RollbackMigration
  <2> QED BY <1>1, <2>1, <2>2
<1>3. ASSUME NEW c \in Callers, RollbackImport(c)
      PROVE  Kept \/ \E d \in Callers : \E s, e : Good(d, s, e)
  BY <1>1, <1>3, RollbackTakesLast DEF RollbackImport
<1>4. ASSUME NEW c \in Callers,
             AskSomething(c) \/ SaveImport(c) \/ SaveMigration(c) \/ Clear(c) \/ Refuse(c)
             \/ Answer(c)
      PROVE  Kept
  BY <1>4
     DEF AskSomething, Ask, SaveImport, SaveMigration, Clear, Refuse, Answer, Kept, disk
<1>5. CASE Crash
  BY <1>5 DEF Crash, Restarted, Kept, disk
<1> QED BY <1>2, <1>3, <1>4, <1>5 DEF StoreNext, Mutation

LEMMA NextRollback ==
  ASSUME IInv, BackupInv, RollbackRestores, [StoreNext]_storeVars
  PROVE  RollbackRestores'
<1>0. stored.revision \in 0..MaxRevision /\ MaxRevision \in Nat /\ Revisions = 0..MaxRevision
  BY StoreAssumption DEF IInv, DiskInv, DiskTypes, Document, Revisions
<1>1. CASE Kept \/ UNCHANGED storeVars
  BY <1>1 DEF Kept, disk, storeVars, RollbackRestores
<1>2. ASSUME NEW c \in Callers, NEW settings, NEW entry, Grown(c, settings, entry),
             request[c].kind = "rollback-import" =>
               stored.revision > 0 /\ settings = past[stored.revision - 1].settings
      PROVE  RollbackRestores'
  <2> DEFINE n == stored.revision + 1
  <2>1. /\ stored'.revision = n /\ n \in Revisions
        /\ past'[n].kind = request[c].kind /\ past'[n].settings = settings
        /\ \A r \in Revisions : r # n => past'[r] = past[r]
    BY <1>0, <1>2 DEF Grown, Replace, IInv, DiskInv, DiskTypes
  <2>2. ASSUME NEW r \in 1..n, past'[r].kind = "rollback-import"
        PROVE  r > 1 /\ past'[r].settings = past'[r - 2].settings
    <3>1. CASE r = n
      <4>1. stored.revision > 0 /\ settings = past[stored.revision - 1].settings
        BY <1>2, <2>1, <2>2, <3>1
      <4>2. r > 1 /\ r - 2 = stored.revision - 1 /\ r - 2 \in Revisions /\ r - 2 # n
        BY <1>0, <3>1, <4>1
      <4> QED BY <2>1, <3>1, <4>1, <4>2
    <3>2. CASE r # n
      <4>1. r \in 1..stored.revision /\ r \in Revisions
        BY <1>0, <3>2
      <4>2. r > 1 /\ past[r].settings = past[r - 2].settings
        BY <2>1, <2>2, <3>2, <4>1 DEF RollbackRestores
      <4>3. r - 2 \in Revisions /\ r - 2 # n
        BY <1>0, <4>1, <4>2
      <4> QED BY <2>1, <3>2, <4>1, <4>2, <4>3
    <3> QED BY <3>1, <3>2
  <2> QED BY <2>1, <2>2 DEF RollbackRestores
<1> QED BY <1>1, <1>2, StepRollback

(* Rollbacks are right at any time: an import is taken back as the last    *)
(* revision and whole, and what is saved is what there was before          *)
(* (configuration_transfer.py rollback_import, gateway_migration.py).      *)
THEOREM RollbacksAreSound == StoreSpec => []RollbacksSound
<1>1. StoreInit => RollbackRestores
  BY StoreAssumption DEF StoreInit, RollbackRestores
<1>2. IInv /\ BackupInv /\ RollbackRestores /\ [StoreNext]_storeVars => RollbackRestores'
  BY NextRollback
<1>3. StoreSpec => []RollbackRestores
  BY <1>1, <1>2, BackupInvariance, PTL DEF StoreSpec
<1>4. RollbackRestores /\ BackupPrecedes => RollbacksSound
  BY DEF RollbacksSound
<1> QED BY <1>3, <1>4, BackupsPrecede, PTL

-----------------------------------------------------------------------------
(* Confirmed requests.                                                     *)
Settled(c) == request[c] # None /\ request[c].phase \in {"committed", "done"}

(* A request becomes confirmed by its commit, for the revision it named.   *)
Commits(c) ==
  \E settings, entry : \E phase \in {"committed", "done"} :
    /\ Written(c, settings, entry, phase)
    /\ request[c] # None /\ Current(c)
    /\ request[c].kind \in {"edit", "remove"} =>
         settings = Overlay(stored.settings, request[c].change)

Stands(c) ==
  /\ Settled(c)
  /\ request'[c].expected = request[c].expected
  /\ request'[c].kind = request[c].kind
  /\ request'[c].change = request[c].change

LEMMA CommitSettles ==
  ASSUME NEW c \in Callers, NEW d \in Callers, NEW settings, NEW entry,
         NEW phase \in {"committed", "done"},
         IInv, request[c] # None, Current(c), CommitAs(c, settings, entry, phase), Settled(d)',
         request[c].kind \in {"edit", "remove"} =>
           settings = Overlay(stored.settings, request[c].change)
  PROVE  Stands(d) \/ Commits(d)
<1>1. CASE Written(c, settings, entry, phase)
  <2>1. CASE d = c
    BY <1>1, <2>1 DEF Commits
  <2>2. CASE d # c
    BY <1>1, <2>2 DEF Written, Phased, IInv, RestTypes, Settled, Stands
  <2> QED BY <2>1, <2>2
<1>2. CASE Fail(c)
  BY <1>2 DEF Fail, IInv, RestTypes, Settled, Stands
<1>3. CASE Restarted
  BY <1>3 DEF Restarted, Settled
<1> QED BY <1>1, <1>2, <1>3 DEF CommitAs, AuditFails, Unsynced, DieUnaudited

LEMMA StepSettles ==
  ASSUME IInv, StoreNext, NEW d \in Callers, Settled(d)'
  PROVE  Stands(d) \/ Commits(d)
<1>1. ASSUME NEW c \in Callers, Edit(c) \/ Remove(c) \/ Undo(c)
      PROVE  Stands(d) \/ Commits(d)
  <2>1. CASE Edit(c)
    BY <2>1, CommitSettles DEF Edit, Is
  <2>2. CASE Remove(c)
    BY <2>2, CommitSettles DEF Remove, Is
  <2>3. CASE Undo(c)
    BY <2>3, CommitSettles DEF Undo, Is
  <2> QED BY <1>1, <2>1, <2>2, <2>3
<1>2. ASSUME NEW c \in Callers, ReplaceDocument(c) \/ RollbackImport(c) \/ RollbackMigration(c)
      PROVE  Stands(d) \/ Commits(d)
  <2>1. CASE ReplaceDocument(c)
    BY <2>1, CommitSettles DEF ReplaceDocument, Is
  <2>2. CASE RollbackImport(c)
    BY <2>2, CommitSettles DEF RollbackImport, Is
  <2>3. CASE RollbackMigration(c)
    BY <2>3, CommitSettles DEF RollbackMigration, Is
  <2> QED BY <1>2, <2>1, <2>2, <2>3
<1>3. ASSUME NEW c \in Callers, AskSomething(c) \/ Refuse(c) \/ Answer(c)
      PROVE  Stands(d)
  BY <1>3 DEF AskSomething, Ask, Refuse, Fail, Answer, IInv, RestTypes, Settled, Stands
<1>4. ASSUME NEW c \in Callers, SaveImport(c) \/ SaveMigration(c)
      PROVE  Stands(d)
  <2>1. d # c
    <3> SUFFICES ASSUME d = c PROVE FALSE
      OBVIOUS
    <3>1. request[c] \in Request
      BY <1>4 DEF SaveImport, SaveMigration, Is, IInv, RestTypes
    <3>2. request'[c].phase = "saved"
      BY <1>4, <3>1 DEF SaveImport, SaveMigration, Saved, IInv, RestTypes, Request
    <3> QED BY <3>2 DEF Settled
  <2>2. request'[d] = request[d]
    BY <1>4, <2>1 DEF SaveImport, SaveMigration, Saved, IInv, RestTypes
  <2> QED BY <2>2 DEF Settled, Stands
<1>5. ASSUME NEW c \in Callers, Clear(c)
      PROVE  Stands(d)
  <2>1. request[c] \in Request /\ Settled(c)
    BY <1>5 DEF Clear, Is, Settled, IInv, RestTypes
  <2>2. \A e \in Callers :
          request'[e] = IF e = c THEN [request[c] EXCEPT !.phase = "done"] ELSE request[e]
    BY <1>5 DEF Clear, Phased, IInv, RestTypes
  <2> QED BY <2>1, <2>2 DEF Settled, Stands, Request
<1>6. CASE Crash
  BY <1>6 DEF Crash, Restarted, Settled
<1> QED BY <1>1, <1>2, <1>3, <1>4, <1>5, <1>6 DEF StoreNext, Mutation

LEMMA NextConfirmed ==
  ASSUME IInv, IInv', Confirmed, StoreNext
  PROVE  Confirmed'
<1> SUFFICES ASSUME NEW c \in Callers, Settled(c)'
             PROVE  LET made == past'[request'[c].expected + 1]
                    IN  /\ request'[c].expected < document'.revision
                        /\ made.by = c /\ made.kind = request'[c].kind
                        /\ request'[c].kind \in {"edit", "remove"} =>
                             made.settings = Overlay(past'[request'[c].expected].settings,
                                                     request'[c].change)
  BY DEF Confirmed, Settled
<1>0. /\ MaxRevision \in Nat /\ Revisions = 0..MaxRevision
      /\ stored.revision \in Revisions /\ document.revision \in Revisions
      /\ document'.revision \in Revisions
  BY StoreAssumption DEF IInv, DiskInv, DiskTypes, Document, Revisions
<1>1. CASE Stands(c)
  <2>1. request[c] \in Request /\ request[c].expected \in Nat
    BY <1>0, <1>1 DEF Stands, Settled, IInv, RestTypes, Request
  <2>2. VisibleStays
    BY StepVisible
  <2>3. request[c].expected < document.revision
    BY <1>1 DEF Stands, Settled, Confirmed
  <2>4. /\ past'[request[c].expected] = past[request[c].expected]
        /\ past'[request[c].expected + 1] = past[request[c].expected + 1]
        /\ document'.revision > request[c].expected
    BY <1>0, <2>1, <2>2, <2>3 DEF VisibleStays
  <2> QED BY <1>1, <2>4 DEF Stands, Settled, Confirmed
<1>2. CASE Commits(c)
  <2>1. PICK settings, entry : \E phase \in {"committed", "done"} :
          /\ Written(c, settings, entry, phase)
          /\ request[c] # None /\ Current(c)
          /\ request[c].kind \in {"edit", "remove"} =>
               settings = Overlay(stored.settings, request[c].change)
    BY <1>2 DEF Commits
  <2>2. PICK phase \in {"committed", "done"} : Written(c, settings, entry, phase)
    BY <2>1
  <2>3. /\ request[c] \in Request
        /\ request'[c] = [request[c] EXCEPT !.phase = phase]
    BY <2>1, <2>2 DEF Written, Phased, IInv, RestTypes
  <2>4. /\ request'[c].expected = stored.revision
        /\ request'[c].kind = request[c].kind
        /\ request'[c].change = request[c].change
    BY <2>1, <2>3 DEF Current, Request
  <2>5. /\ stored.revision < MaxRevision
        /\ document'.revision = stored.revision + 1
        /\ past' = [past EXCEPT ![stored.revision + 1] =
                      [settings |-> settings, kind |-> request[c].kind, by |-> c]]
    BY <2>2 DEF Written, Replace
  <2>6. /\ past'[stored.revision + 1] = [settings |-> settings, kind |-> request[c].kind, by |-> c]
        /\ past'[stored.revision] = past[stored.revision]
    BY <1>0, <2>5 DEF IInv, DiskInv, DiskTypes
  <2>7. past[stored.revision].settings = stored.settings
    BY DEF IInv, DiskInv, DiskIsPast
  <2> QED BY <1>0, <2>1, <2>4, <2>5, <2>6, <2>7
<1> QED BY <1>1, <1>2, StepSettles

(* Every request that is confirmed is one compare-and-set, whatever other  *)
(* callers, failed writes and crashes come between                         *)
(* (_check_revision, _mutation_lock, _commit).                             *)
THEOREM ConfirmedIsCompareAndSet == StoreSpec => []Confirmed
<1>1. StoreInit => Confirmed
  BY DEF StoreInit, Confirmed
<1>2. IInv /\ IInv' /\ Confirmed /\ [StoreNext]_storeVars => Confirmed'
  <2>1. CASE UNCHANGED storeVars
    BY <2>1 DEF storeVars, disk, Confirmed
  <2> QED BY <2>1, NextConfirmed
<1> QED BY <1>1, <1>2, Invariance, PTL DEF StoreSpec
=============================================================================
