--------------------------- MODULE GatewayDevices ---------------------------
(***************************************************************************)
(* DeviceStore: the browsers paired with a Gateway.  A pairing code is     *)
(* redeemed for one device record with its token; records are kept in      *)
(* memory and in one file that every change replaces, pairing codes and    *)
(* the answers to their redemption only in memory.  No operation awaits    *)
(* anything while it holds the store's lock, so each is one step.          *)
(***************************************************************************)
EXTENDS Naturals, FiniteSets

CONSTANTS Devices,          \* bound: device records, told apart by their token
          Codes,            \* bound: pairing codes
          NoDevice,
          MaxSaveFailures   \* bound: writes of devices.json that fail

ASSUME DevicesAssumption ==
    IsFiniteSet(Devices) /\ NoDevice \notin Devices /\ MaxSaveFailures \in Nat

VARIABLES
    memory, disk,   \* per device: "absent", or the age of its last use: "fresh" (within a
                    \* day), "stale", or "expired" after 180 days
    code,           \* per code: "unused", "open", "redeemed", or "gone"
    redemption,     \* _redeemed_pairings: the device a repeated exchange is answered with
    saveFailures,
    origin,         \* ghost: the codes a device's record was made for, one or none
    revoked         \* ghost: the devices whose revocation was reported as done

deviceVars == <<memory, disk, code, redemption, saveFailures, origin, revoked>>

Ages == {"absent", "fresh", "stale", "expired"}

DevicesInit ==
    /\ memory = [d \in Devices |-> "absent"] /\ disk = memory
    /\ code = [c \in Codes |-> "unused"]
    /\ redemption = [c \in Codes |-> NoDevice]
    /\ saveFailures = 0
    /\ origin = [d \in Devices |-> {}] /\ revoked = {}

\* authenticate, authenticate_by_id
Valid(d) == memory[d] \in {"fresh", "stale"}
NewDevices == {d \in Devices : origin[d] = {}}
Fresh(d) == [memory EXCEPT ![d] = "fresh"]

\* _save writes all records; when it fails the caller restores memory, and the file is the
\* old one, or the new one when only the synchronisation of the directory failed.
Saved(new) == memory' = new /\ disk' = new /\ UNCHANGED saveFailures
SaveFails(new) ==
    /\ saveFailures < MaxSaveFailures
    /\ saveFailures' = saveFailures + 1
    /\ disk' \in {disk, new}

-----------------------------------------------------------------------------
CreatePairing(c) ==
    /\ code[c] = "unused"
    /\ code' = [code EXCEPT ![c] = "open"]
    /\ UNCHANGED <<memory, disk, redemption, saveFailures, origin, revoked>>

\* the code stays open
RedeemFails(c, d) ==
    /\ SaveFails(Fresh(d))
    /\ UNCHANGED <<memory, code, redemption>>

RedeemFirst(c, d) ==
    /\ Saved(Fresh(d))
    /\ code' = [code EXCEPT ![c] = "redeemed"]
    /\ redemption' = [redemption EXCEPT ![c] = d]

\* The first exchange creates the device; a repeated one (a lost response, a reload) is
\* answered with redemption[c], which changes nothing.
Redeem(c) ==
    /\ code[c] = "open"
    /\ \E d \in NewDevices :
         /\ RedeemFirst(c, d) \/ RedeemFails(c, d)
         /\ origin' = [origin EXCEPT ![d] = {c}]
    /\ UNCHANGED revoked

\* after ten minutes: the timer of the redemption, or the check of the time
CodeExpires(c) ==
    /\ code[c] \in {"open", "redeemed"}
    /\ code' = [code EXCEPT ![c] = "gone"]
    /\ redemption' = [redemption EXCEPT ![c] = NoDevice]
    /\ UNCHANGED <<memory, disk, saveFailures, origin, revoked>>

\* mark_used, of a session request or a connection: renews the record once a day.
MarkUsed(d) ==
    /\ \/ memory[d] # "stale" /\ UNCHANGED <<memory, disk, saveFailures>>
       \/ memory[d] = "stale" /\ Saved(Fresh(d))
    /\ UNCHANGED <<code, redemption, origin, revoked>>
MarkUsedFails(d) ==
    /\ memory[d] = "stale"
    /\ SaveFails(Fresh(d))
    /\ UNCHANGED <<memory, code, redemption, origin, revoked>>

\* Seeded fault: the file is written before the record is dropped.
RevokeUnsaved(d) ==
    /\ memory[d] # "absent"
    /\ memory' = [memory EXCEPT ![d] = "absent"]
    /\ disk' = memory
    /\ revoked' = revoked \cup {d}
    /\ redemption' = [c \in Codes |-> IF redemption[c] = d THEN NoDevice ELSE redemption[c]]
    /\ UNCHANGED <<code, saveFailures, origin>>

Revoke(d) ==
    /\ memory[d] # "absent"
    /\ Saved([memory EXCEPT ![d] = "absent"])
    /\ revoked' = revoked \cup {d}
    /\ redemption' = [c \in Codes |-> IF redemption[c] = d THEN NoDevice ELSE redemption[c]]
    /\ UNCHANGED <<code, origin>>
RevokeFails(d) ==
    /\ memory[d] # "absent"
    /\ SaveFails([memory EXCEPT ![d] = "absent"])
    /\ UNCHANGED <<memory, code, redemption, origin, revoked>>

Older(copy, d) == [copy EXCEPT ![d] = CASE @ = "fresh" -> "stale" [] @ = "stale" -> "expired"
                                        [] OTHER -> @]
Day(copy, d) == [copy EXCEPT ![d] = IF @ = "fresh" THEN "stale" ELSE @]

\* a day or half a year passes without a use of the device
TimePasses(d) ==
    /\ \/ memory' = Day(memory, d) /\ disk' = Day(disk, d)
       \/ memory' = Older(memory, d) /\ disk' = Older(disk, d)
    /\ <<memory, disk>>' # <<memory, disk>>
    /\ UNCHANGED <<code, redemption, saveFailures, origin, revoked>>

\* _load of the next Gateway process
DevicesRestart ==
    /\ memory' = disk
    /\ code' = [c \in Codes |-> IF code[c] = "unused" THEN "unused" ELSE "gone"]
    /\ redemption' = [c \in Codes |-> NoDevice]
    /\ UNCHANGED <<disk, saveFailures, origin, revoked>>

-----------------------------------------------------------------------------
(* Properties *)

\* A code is worth one credential: every exchange of it is answered with the same device,
\* which exists unless it was revoked, and no failed exchange leaves another one behind
\* ("Concurrent or lost-response retries from the same Tailscale identity return the same
\* credential until the code expires", SECURITY.md:107; gateway_devices.py redeem).
OneCredentialPerCode ==
    /\ \A c \in Codes : redemption[c] # NoDevice =>
         memory[redemption[c]] # "absent" /\ origin[redemption[c]] = {c}
    /\ \A copy \in {memory, disk} : \A d, e \in Devices :
         copy[d] # "absent" /\ copy[e] # "absent" /\ origin[d] = origin[e] => d = e

\* A device whose revocation succeeded never comes back, whatever fails afterwards and
\* however often the Gateway restarts (gateway_devices.py revoke, _load).
RevokedForGood == \A d \in revoked : memory[d] = "absent" /\ disk[d] = "absent"
=============================================================================
