----------------------------- MODULE GatewayUis -----------------------------
(***************************************************************************)
(* The UIs a Gateway knows (UiStore): their names and the configuration    *)
(* profiles they have claimed, in memory and in uis.json, which the next   *)
(* Gateway refuses to load unless it is consistent; and how the terminal   *)
(* UIs of one installation come to share one identity (ui_identity.py).    *)
(***************************************************************************)
EXTENDS Naturals, FiniteSets, Functions

CONSTANTS UiIds, Names, DefaultName,  \* the name a platform suggests
          NoName,
          Imported,        \* profile ids an import brings
          NoProfile,
          Starters,        \* processes of one installation that start
          MaxUiFailures    \* bound: writes of uis.json that fail

ASSUME UisAssumption ==
    /\ DefaultName \in Names /\ NoName \notin Names
    /\ NoProfile \notin UiIds \cup Imported /\ MaxUiFailures \in Nat

VARIABLES
    names, nameFile,     \* display_name of each record, NoName without one
    claims, claimFile,   \* _configuration_profiles
    pending,             \* pending_profiles of the last import
    uiFailures,
    idFile,              \* native-ui.json: a set of one identity, or none
    started              \* per starter: "new", "missing" (it has found no file), or its id

recordVars == <<names, nameFile, claims, claimFile, pending, uiFailures>>
identityVars == <<idFile, started>>
uiVars == <<recordVars, identityVars>>

UisInit ==
    /\ names = [u \in UiIds |-> NoName] /\ nameFile = names
    /\ claims = [u \in UiIds |-> NoProfile] /\ claimFile = claims
    /\ pending = {} /\ uiFailures = 0
    /\ idFile = {} /\ started = [s \in Starters |-> "new"]

Known == {u \in UiIds : names[u] # NoName}
FreeNames == Names \ Range(names)

\* _save: the whole file, or an error that restores memory and leaves either file
Store(newNames, newClaims) ==
    \/ /\ names' = newNames /\ nameFile' = newNames
       /\ claims' = newClaims /\ claimFile' = newClaims
       /\ UNCHANGED uiFailures
    \/ /\ uiFailures < MaxUiFailures /\ uiFailures' = uiFailures + 1
       /\ \/ nameFile' = newNames /\ claimFile' = newClaims
          \/ UNCHANGED <<nameFile, claimFile>>
       /\ UNCHANGED <<names, claims>>

-----------------------------------------------------------------------------
\* _default_name: the platform, with a part of the id when that is taken; a known UI
\* keeps its name
NewName(n) == n \in FreeNames /\ (DefaultName \in FreeNames => n = DefaultName)
RegisterUi(u) ==
    /\ \/ u \in Known /\ Store(names, claims)
       \/ /\ u \notin Known
          /\ \E n \in Names : NewName(n) /\ Store([names EXCEPT ![u] = n], claims)
    /\ UNCHANGED pending

\* Seeded fault: a name is taken that another UI has had since.
RenameTaken(u, n) ==
    /\ u \in Known
    /\ Store([names EXCEPT ![u] = n], claims)
    /\ UNCHANGED pending

\* rename, rename_named
Rename(u, n) ==
    /\ u \in Known /\ n \in FreeNames
    /\ Store([names EXCEPT ![u] = n], claims)
    /\ UNCHANGED pending

Forget(u) ==
    /\ u \in Known
    /\ Store([names EXCEPT ![u] = NoName], [claims EXCEPT ![u] = NoProfile])
    /\ UNCHANGED pending

\* an import brings profiles of UIs this Gateway does not know
Import(p) ==
    /\ p \notin pending
    /\ pending' = pending \cup {p}
    /\ UNCHANGED <<names, nameFile, claims, claimFile, uiFailures>>

Claimed(u, p) == [claims EXCEPT ![u] = IF p = u THEN NoProfile ELSE p]

\* claim of the configuration transfer: a pending profile nobody has, for a registered UI,
\* which gives up the one it had
Claim(u, p) ==
    /\ p \in pending /\ p \notin Known /\ p \notin Range(claims)
    /\ u \in Known
    /\ Store(names, Claimed(u, p))
    /\ pending' = IF claims' = Claimed(u, p) THEN pending \ {p} ELSE pending

\* apply_import links a known UI to the profile that was found for it, and links it to
\* what it had when the import fails; rollback gives back the claims before the import.
\* claim_configuration_profile refuses a profile of another UI.
Link(u, p) ==
    /\ u \in Known
    /\ \A other \in UiIds \ {u} : claims[other] # p
    /\ Store(names, Claimed(u, p))
    /\ UNCHANGED pending

RemoveProfile(p) ==
    /\ Store(names, [u \in UiIds |-> IF claims[u] = p THEN NoProfile ELSE claims[u]])
    /\ pending' = pending \ {p}

\* _load of the next Gateway
UisRestart ==
    /\ names' = nameFile /\ claims' = claimFile
    /\ UNCHANGED <<nameFile, claimFile, pending, uiFailures>>

-----------------------------------------------------------------------------
\* load_or_create_native_ui_id
LookForIdentity(s) ==
    /\ started[s] = "new"
    /\ started' = [started EXCEPT ![s] = IF idFile = {} THEN "missing" ELSE CHOOSE id \in idFile : TRUE]
    /\ UNCHANGED idFile

\* os.link fails when another process was faster, whose identity is taken
CreateIdentity(s) ==
    /\ started[s] = "missing"
    /\ idFile' = IF idFile = {} THEN {s} ELSE idFile
    /\ started' = [started EXCEPT ![s] = CHOOSE id \in idFile' : TRUE]

UisNext ==
    \/ /\ \/ UisRestart
          \/ \E u \in UiIds :
               \/ RegisterUi(u) \/ Forget(u)
               \/ \E n \in Names : Rename(u, n)
               \/ \E p \in Imported \cup UiIds : Claim(u, p) \/ Link(u, p)
          \/ \E p \in Imported \cup UiIds : RemoveProfile(p)
          \/ \E p \in Imported : Import(p)
       /\ UNCHANGED identityVars
    \/ /\ \E s \in Starters : LookForIdentity(s) \/ CreateIdentity(s)
       /\ UNCHANGED recordVars

UisSpec == UisInit /\ [][UisNext]_uiVars

-----------------------------------------------------------------------------
(* Properties *)

\* Whatever sequence of registrations, renames, claims, removals, failed writes and
\* restarts came before, the file is one the next Gateway loads: no two UIs of one name,
\* no claim of an unknown UI, no profile claimed twice (gateway_uis.py _load, lines
\* 519-534; a Gateway that refuses its file does not start).
UiFileLoads ==
    \A u, v \in UiIds :
        /\ u # v /\ nameFile[u] # NoName => nameFile[u] # nameFile[v]
        /\ u # v /\ claimFile[u] # NoProfile => claimFile[u] # claimFile[v]
        /\ claimFile[u] # NoProfile => nameFile[u] # NoName

\* All processes of an installation use the identity in its file, those included that
\* start at the same time before there is one (ui_identity.py "Return the stable ID for
\* this native UI installation").
OneIdentity == \A s \in Starters : started[s] \notin {"new", "missing"} => idFile = {started[s]}

\* Whatever starts, renames, imports or fails to save, the file of the UIs can be loaded
\* again and no two UIs share one identity.
UiRecordsSound == UiFileLoads /\ OneIdentity
=============================================================================
