-------------------------- MODULE ComponentsProofs --------------------------
(***************************************************************************)
(* Proofs about the components MCComponents checks: the web gateway with   *)
(* its devices, the records of UIs, installations, plugin sources, update  *)
(* checks, the command line and the setup of an installation; for any      *)
(* number of actors, requests and failures.                                *)
(***************************************************************************)
EXTENDS MCComponents, FiniteSetTheorems, TLAPS

-----------------------------------------------------------------------------
(* The device store *)

DevicesTypeOK ==
    /\ memory \in [Devices -> Ages] /\ disk \in [Devices -> Ages]
    /\ code \in [Codes -> {"unused", "open", "redeemed", "gone"}]
    /\ redemption \in [Codes -> Devices \cup {NoDevice}]
    /\ origin \in [Devices -> SUBSET Codes]
    /\ revoked \subseteq Devices

\* A record, also one that is revoked or only in the file, was made for one code, which has
\* been shown.
MadeForOneCode ==
    /\ \A d \in Devices :
         memory[d] # "absent" \/ disk[d] # "absent" \/ d \in revoked => origin[d] # {}
    /\ \A d \in Devices : \A c \in origin[d] : origin[d] = {c} /\ code[c] # "unused"

\* While a code is open no device of it is valid: a failed exchange may have left one in the
\* file, but not in memory.
OpenIsUnspent ==
    \A c \in Codes : code[c] = "open" => \A d \in Devices : origin[d] = {c} => memory[d] = "absent"

Unique(copy) == \A d, e \in Devices :
    copy[d] # "absent" /\ copy[e] # "absent" /\ origin[d] = origin[e] => d = e

AnswersExist ==
    \A c \in Codes : redemption[c] # NoDevice =>
        memory[redemption[c]] # "absent" /\ origin[redemption[c]] = {c}

DevicesInv ==
    /\ DevicesTypeOK /\ MadeForOneCode /\ OpenIsUnspent /\ AnswersExist
    /\ Unique(memory) /\ Unique(disk)
    /\ RevokedForGood

\* The records of one copy are among those of another one.
Within(new, old) == \A d \in Devices : new[d] # "absent" => old[d] # "absent"

\* Every operation but the exchange of a code: it makes no record, and what it writes or
\* reads back is a part of a copy that was there.
LEMMA NoNewRecords ==
  ASSUME DevicesInv, DevicesTypeOK', origin' = origin,
         \/ Within(memory', memory)
         \/ Within(memory', disk) /\ \A c \in Codes : code'[c] # "open",
         Within(disk', disk) \/ Within(disk', memory),
         \A c \in Codes : code'[c] = "unused" => code[c] = "unused",
         \A c \in Codes : code'[c] = "open" => code[c] \in {"unused", "open"},
         \A c \in Codes : redemption'[c] # NoDevice =>
             redemption'[c] = redemption[c] /\ memory'[redemption[c]] # "absent",
         \A d \in revoked' : \/ d \in revoked
                             \/ memory[d] # "absent" /\ memory'[d] = "absent" /\ disk'[d] = "absent"
  PROVE  DevicesInv'
<1> USE DevicesAssumption DEF DevicesInv, DevicesTypeOK, Within
<1>1. MadeForOneCode'  BY DEF MadeForOneCode
<1>2. OpenIsUnspent'
  <2> SUFFICES ASSUME NEW c \in Codes, code'[c] = "open", NEW d \in Devices, origin[d] = {c}
               PROVE  memory'[d] = "absent"
    BY DEF OpenIsUnspent
  <2>1. code[c] = "open"  BY DEF MadeForOneCode
  <2>2. memory[d] = "absent"  BY <2>1 DEF OpenIsUnspent
  <2>3. QED  BY <2>2
<1>3. AnswersExist'  BY DEF AnswersExist
<1>4. Unique(memory)'  BY DEF Unique
<1>5. Unique(disk)'  BY DEF Unique
<1>6. RevokedForGood'
  <2> SUFFICES ASSUME NEW d \in revoked' PROVE memory'[d] = "absent" /\ disk'[d] = "absent"
    BY DEF RevokedForGood
  <2>1. CASE d \in revoked  BY <2>1 DEF RevokedForGood
  <2>2. QED  BY <2>1
<1>7. QED  BY <1>1, <1>2, <1>3, <1>4, <1>5, <1>6

\* The exchange of a code: one new record, which a failed exchange may leave in the file.
LEMMA RedeemKeepsInv ==
  ASSUME DevicesInv, NEW c \in Codes, Redeem(c)
  PROVE  DevicesInv'
<1>1. PICK d \in NewDevices :
        /\ RedeemFirst(c, d) \/ RedeemFails(c, d)
        /\ origin' = [origin EXCEPT ![d] = {c}]
  BY DEF Redeem
<1> USE DevicesAssumption DEF DevicesInv, DevicesTypeOK
<1>2. d \in Devices /\ origin[d] = {} /\ code[c] = "open" /\ revoked' = revoked
  BY <1>1 DEF NewDevices, Redeem
<1>3. memory[d] = "absent" /\ disk[d] = "absent" /\ d \notin revoked
  BY <1>2 DEF MadeForOneCode
<1>4. \A e \in Devices : e # d /\ origin[e] = {c} => memory[e] = "absent"
  BY <1>2 DEF OpenIsUnspent
<1>5. \A e \in Devices : origin'[e] = IF e = d THEN {c} ELSE origin[e]
  BY <1>1, <1>2
<1>6. Fresh(d) \in [Devices -> Ages] /\ Fresh(d)[d] = "fresh"
      /\ \A e \in Devices : e # d => Fresh(d)[e] = memory[e]
  BY <1>2 DEF Fresh, Ages
<1>7. memory' \in {memory, Fresh(d)} /\ disk' \in {disk, Fresh(d)}
  BY <1>1 DEF RedeemFirst, RedeemFails, Saved, SaveFails
<1>8. \/ code' = code /\ redemption' = redemption /\ memory' = memory
      \/ /\ code' = [code EXCEPT ![c] = "redeemed"] /\ redemption' = [redemption EXCEPT ![c] = d]
         /\ memory' = Fresh(d)
  BY <1>1 DEF RedeemFirst, RedeemFails, Saved
<1> HIDE DEF Fresh
<1>9. DevicesTypeOK'  BY <1>1, <1>2, <1>6, <1>7, <1>8
<1>10. MadeForOneCode'
  <2>1. \A e \in Devices : memory'[e] # "absent" \/ disk'[e] # "absent" \/ e \in revoked'
                             => origin'[e] # {}
    BY <1>2, <1>3, <1>5, <1>6, <1>7 DEF MadeForOneCode
  <2>2. \A e \in Devices : \A x \in origin'[e] : origin'[e] = {x} /\ code'[x] # "unused"
    BY <1>2, <1>5, <1>8 DEF MadeForOneCode
  <2>3. QED  BY <2>1, <2>2 DEF MadeForOneCode
<1>11. OpenIsUnspent'
  <2> SUFFICES ASSUME NEW x \in Codes, code'[x] = "open", NEW e \in Devices, origin'[e] = {x}
               PROVE  memory'[e] = "absent"
    BY DEF OpenIsUnspent
  <2>1. code[x] = "open"  BY <1>8, <1>2
  <2>2. CASE e = d
    <3>1. x = c  BY <2>2, <1>5
    <3>2. memory' = memory  BY <3>1, <1>8
    <3>3. QED  BY <3>2, <2>2, <1>3
  <2>3. CASE e # d
    <3>1. memory[e] = "absent"  BY <2>1, <2>3, <1>5 DEF OpenIsUnspent
    <3>2. QED  BY <3>1, <2>3, <1>6, <1>7
  <2>4. QED  BY <2>2, <2>3
<1>12. AnswersExist'
  <2> SUFFICES ASSUME NEW x \in Codes, redemption'[x] # NoDevice
               PROVE  memory'[redemption'[x]] # "absent" /\ origin'[redemption'[x]] = {x}
    BY DEF AnswersExist
  <2>1. CASE redemption'[x] = d /\ x = c /\ memory' = Fresh(d)  BY <2>1, <1>2, <1>5, <1>6
  <2>2. CASE redemption'[x] = redemption[x]
    <3>1. redemption[x] \in Devices /\ memory[redemption[x]] # "absent"
          /\ origin[redemption[x]] = {x}
      BY <2>2 DEF AnswersExist
    <3>2. redemption[x] # d  BY <3>1, <1>2
    <3>3. QED  BY <2>2, <3>1, <3>2, <1>5, <1>6, <1>7
  <2>3. QED  BY <2>1, <2>2, <1>8
<1>13. Unique(memory)'  BY <1>2, <1>3, <1>4, <1>5, <1>6, <1>7 DEF Unique
<1>14. Unique(disk)'  BY <1>2, <1>3, <1>4, <1>5, <1>6, <1>7 DEF Unique
<1>15. RevokedForGood'  BY <1>2, <1>3, <1>6, <1>7 DEF RevokedForGood
<1>16. QED  BY <1>9, <1>10, <1>11, <1>12, <1>13, <1>14, <1>15

\* The operations that neither make a record nor revoke one.
LEMMA RecordKeepsInv ==
  ASSUME DevicesInv,
         \/ \E c \in Codes : CreatePairing(c) \/ CodeExpires(c)
         \/ \E d \in Devices : MarkUsed(d) \/ MarkUsedFails(d) \/ TimePasses(d)
  PROVE  DevicesInv' /\ revoked' = revoked /\ Within(memory, memory')
<1> USE DevicesAssumption
<1>1. ASSUME NEW c \in Codes, CreatePairing(c) \/ CodeExpires(c)
      PROVE  DevicesInv' /\ revoked' = revoked /\ memory' = memory
  <2>1. UNCHANGED <<memory, disk, origin, revoked>>  BY <1>1 DEF CreatePairing, CodeExpires
  <2>2. PICK state \in {"open", "gone"} :
          /\ code' = [code EXCEPT ![c] = state]
          /\ state = "open" => code[c] = "unused" /\ redemption' = redemption
          /\ state = "gone" => redemption' = [redemption EXCEPT ![c] = NoDevice]
    BY <1>1 DEF CreatePairing, CodeExpires
  <2>3. \A x \in Codes : /\ code'[x] = "unused" => code[x] = "unused"
                         /\ code'[x] = "open" => code[x] \in {"unused", "open"}
    BY <2>2 DEF DevicesInv, DevicesTypeOK
  <2>4. redemption' \in [Codes -> Devices \cup {NoDevice}]
        /\ \A x \in Codes : redemption'[x] \in {redemption[x], NoDevice}
    BY <2>2 DEF DevicesInv, DevicesTypeOK
  <2>5. DevicesTypeOK'  BY <2>1, <2>2, <2>4 DEF DevicesInv, DevicesTypeOK
  <2>6. \A x \in Codes : redemption'[x] # NoDevice =>
          redemption'[x] = redemption[x] /\ memory'[redemption[x]] # "absent"
    BY <2>1, <2>4 DEF DevicesInv, AnswersExist
  <2>7. Within(memory', memory) /\ Within(disk', disk)  BY <2>1 DEF Within
  <2>8. origin' = origin /\ \A x \in revoked' : x \in revoked  BY <2>1
  <2>9. DevicesInv'  BY <2>3, <2>5, <2>6, <2>7, <2>8, NoNewRecords
  <2>10. QED  BY <2>1, <2>9
<1>2. ASSUME NEW d \in Devices, MarkUsed(d) \/ MarkUsedFails(d)
      PROVE  DevicesInv' /\ revoked' = revoked /\ Within(memory, memory')
  <2>1. UNCHANGED <<code, redemption, origin, revoked>>  BY <1>2 DEF MarkUsed, MarkUsedFails
  <2>2. \/ memory' = memory /\ disk' = disk
        \/ memory[d] = "stale" /\ memory' \in {memory, Fresh(d)} /\ disk' \in {disk, Fresh(d)}
    BY <1>2 DEF MarkUsed, MarkUsedFails, Saved, SaveFails
  <2>3. Fresh(d) \in [Devices -> Ages]
        /\ (memory[d] = "stale" => Within(Fresh(d), memory) /\ Within(memory, Fresh(d)))
    BY DEF Fresh, Ages, Within, DevicesInv, DevicesTypeOK
  <2> HIDE DEF Fresh
  <2>4. DevicesTypeOK'  BY <2>1, <2>2, <2>3 DEF DevicesInv, DevicesTypeOK
  <2>5. Within(memory', memory) /\ Within(memory, memory')
    BY <2>2, <2>3 DEF Within
  <2>6. Within(disk', disk) \/ Within(disk', memory)  BY <2>2, <2>3 DEF Within
  <2>7. \A x \in Codes : redemption'[x] # NoDevice =>
          redemption'[x] = redemption[x] /\ memory'[redemption[x]] # "absent"
    BY <2>1, <2>5 DEF DevicesInv, DevicesTypeOK, AnswersExist, Within
  <2>8. QED  BY <2>1, <2>4, <2>5, <2>6, <2>7, NoNewRecords
<1>3. ASSUME NEW d \in Devices, TimePasses(d)
      PROVE  DevicesInv' /\ revoked' = revoked /\ Within(memory, memory')
  <2>1. UNCHANGED <<code, redemption, origin, revoked>>  BY <1>3 DEF TimePasses
  <2>2. \A copy \in [Devices -> Ages] : \A new \in {Day(copy, d), Older(copy, d)} :
          new \in [Devices -> Ages] /\ Within(new, copy) /\ Within(copy, new)
    BY DEF Day, Older, Ages, Within
  <2>3. memory' \in {Day(memory, d), Older(memory, d)}
        /\ disk' \in {Day(disk, d), Older(disk, d)}
    BY <1>3 DEF TimePasses
  <2> HIDE DEF Day, Older
  <2>4. memory' \in [Devices -> Ages] /\ Within(memory', memory) /\ Within(memory, memory')
    BY <2>2, <2>3 DEF DevicesInv, DevicesTypeOK
  <2>5. disk' \in [Devices -> Ages] /\ Within(disk', disk)
    BY <2>2, <2>3 DEF DevicesInv, DevicesTypeOK
  <2>6. DevicesTypeOK'  BY <2>1, <2>4, <2>5 DEF DevicesInv, DevicesTypeOK
  <2>7. \A x \in Codes : redemption'[x] # NoDevice =>
          redemption'[x] = redemption[x] /\ memory'[redemption[x]] # "absent"
    BY <2>1, <2>4 DEF DevicesInv, DevicesTypeOK, AnswersExist, Within
  <2>8. QED  BY <2>1, <2>4, <2>5, <2>6, <2>7, NoNewRecords
<1>4. QED  BY <1>1, <1>2, <1>3 DEF Within

\* Revocation: the record is gone from both copies, or from neither for certain.
LEMMA RevokeKeepsInv ==
  ASSUME DevicesInv, NEW d \in Devices, Revoke(d) \/ RevokeFails(d)
  PROVE  DevicesInv'
<1> USE DevicesAssumption
<1> DEFINE without == [memory EXCEPT ![d] = "absent"]
<1>1. without \in [Devices -> Ages] /\ without[d] = "absent" /\ Within(without, memory)
      /\ \A e \in Devices : e # d => without[e] = memory[e]
  BY DEF Ages, Within, DevicesInv, DevicesTypeOK
<1>2. memory[d] # "absent" /\ UNCHANGED <<code, origin>>  BY DEF Revoke, RevokeFails
<1>3. CASE Revoke(d)
  <2>1. memory' = without /\ disk' = without /\ revoked' = revoked \cup {d}
    BY <1>3 DEF Revoke, Saved
  <2>2. redemption' \in [Codes -> Devices \cup {NoDevice}]
        /\ \A x \in Codes : redemption'[x] # NoDevice =>
             redemption'[x] = redemption[x] /\ redemption[x] # d
    <3>1. redemption' = [x \in Codes |-> IF redemption[x] = d THEN NoDevice ELSE redemption[x]]
      BY <1>3 DEF Revoke
    <3>2. QED  BY <3>1 DEF DevicesInv, DevicesTypeOK
  <2> HIDE DEF without
  <2>3. DevicesTypeOK'  BY <1>1, <1>2, <2>1, <2>2 DEF DevicesInv, DevicesTypeOK
  <2>4. \A x \in Codes : redemption'[x] # NoDevice =>
          redemption'[x] = redemption[x] /\ memory'[redemption[x]] # "absent"
    BY <1>1, <2>1, <2>2 DEF DevicesInv, DevicesTypeOK, AnswersExist
  <2>5. \A e \in revoked' : \/ e \in revoked
                            \/ memory[e] # "absent" /\ memory'[e] = "absent" /\ disk'[e] = "absent"
    <3>1. memory[d] # "absent" /\ memory'[d] = "absent" /\ disk'[d] = "absent"
      BY <1>1, <1>2, <2>1
    <3>2. \A e \in revoked' : e \in revoked \/ e = d  BY <2>1
    <3>3. QED  BY <3>1, <3>2
  <2>6. Within(memory', memory) /\ Within(disk', memory)  BY <1>1, <2>1
  <2>7. QED  BY <1>2, <2>3, <2>4, <2>5, <2>6, NoNewRecords
<1>4. CASE RevokeFails(d)
  <2>1. UNCHANGED <<memory, redemption, revoked>> /\ disk' \in {disk, without}
    BY <1>4 DEF RevokeFails, SaveFails
  <2> HIDE DEF without
  <2>2. DevicesTypeOK'  BY <1>1, <1>2, <2>1 DEF DevicesInv, DevicesTypeOK
  <2>3. Within(memory', memory) /\ (Within(disk', disk) \/ Within(disk', memory))
    BY <1>1, <2>1 DEF Within
  <2>4. \A x \in Codes : redemption'[x] # NoDevice =>
          redemption'[x] = redemption[x] /\ memory'[redemption[x]] # "absent"
    BY <2>1 DEF DevicesInv, AnswersExist
  <2>5. QED  BY <1>2, <2>1, <2>2, <2>3, <2>4, NoNewRecords
<1>5. QED  BY <1>3, <1>4

\* A new Gateway process has the records of the file and no open code.
LEMMA DevicesRestartKeepsInv ==
  ASSUME DevicesInv, DevicesRestart
  PROVE  DevicesInv'
<1> USE DevicesAssumption
<1>1. UNCHANGED <<disk, origin, revoked>> /\ memory' = disk  BY DEF DevicesRestart
<1>2. \A c \in Codes : /\ code'[c] # "open" /\ redemption'[c] = NoDevice
                       /\ code'[c] = "unused" => code[c] = "unused"
  BY DEF DevicesRestart
<1>3. DevicesTypeOK'
  <2>1. code' \in [Codes -> {"unused", "open", "redeemed", "gone"}]  BY DEF DevicesRestart
  <2>2. redemption' \in [Codes -> Devices \cup {NoDevice}]  BY DEF DevicesRestart
  <2>3. QED  BY <1>1, <2>1, <2>2 DEF DevicesInv, DevicesTypeOK
<1>4. Within(memory', disk) /\ Within(disk', disk)  BY <1>1 DEF Within
<1>5. origin' = origin /\ \A d \in revoked' : d \in revoked  BY <1>1
<1>6. \A c \in Codes : redemption'[c] # NoDevice =>
        redemption'[c] = redemption[c] /\ memory'[redemption[c]] # "absent"
  BY <1>2
<1>7. \A c \in Codes : code'[c] = "open" => code[c] \in {"unused", "open"}  BY <1>2
<1>8. QED  BY <1>2, <1>3, <1>4, <1>5, <1>6, <1>7, NoNewRecords

LEMMA DevicesInvInit == DevicesInit => DevicesInv
  BY DevicesAssumption
     DEF DevicesInit, DevicesInv, DevicesTypeOK, MadeForOneCode, OpenIsUnspent, AnswersExist,
         Unique, RevokedForGood, Ages

LEMMA InvGivesOneCredential == DevicesInv => OneCredentialPerCode
  BY DEF DevicesInv, AnswersExist, Unique, OneCredentialPerCode

LEMMA DevicesUnchanged == DevicesInv /\ UNCHANGED deviceVars => DevicesInv'
  BY DEF deviceVars, DevicesInv, DevicesTypeOK, MadeForOneCode, OpenIsUnspent, AnswersExist,
         Unique, RevokedForGood

\* No exchange takes a device away.
LEMMA RedeemKeepsDevices ==
  ASSUME DevicesInv, NEW c \in Codes, Redeem(c)
  PROVE  Within(memory, memory') /\ revoked' = revoked
<1>1. PICK d \in NewDevices : RedeemFirst(c, d) \/ RedeemFails(c, d)  BY DEF Redeem
<1>2. d \in Devices  BY DEF NewDevices
<1>3. memory' \in {memory, Fresh(d)}  BY <1>1 DEF RedeemFirst, RedeemFails, Saved
<1>4. Within(memory, Fresh(d))  BY <1>2 DEF Fresh, Within, DevicesInv, DevicesTypeOK
<1>5. QED  BY <1>3, <1>4 DEF Within, Redeem

-----------------------------------------------------------------------------
(* Sockets, their devices and transfers *)

WebTypeOK ==
    /\ conn \in [Sockets -> {"idle", "reserved", "subscribed", "marked", "open", "announcing",
                             "leaving", "left"}]
    /\ owner \in [Sockets -> Devices \cup {NoDevice}]
    /\ registered \subseteq Sockets
    /\ revoking \in [Devices -> {"idle", "pastes", "sockets"}]
    /\ captured \in [Devices -> SUBSET Sockets]
    /\ slot \in [Devices -> Sockets \cup {NoSocket}]
    /\ task \in [Sockets -> {"none", "created", "running"}]

\* A handler under way has a device; only one that got through its checks is registered.
HandlersHaveDevices ==
    /\ \A s \in Sockets : conn[s] # "idle" => owner[s] \in Devices
    /\ \A s \in registered : conn[s] \in {"open", "announcing", "leaving", "left"}

\* A slot is held by a socket of its own device, whose handler has not ended.
SlotsAreOwned ==
    \A d \in Devices : slot[d] # NoSocket =>
        owner[slot[d]] = d /\ conn[slot[d]] \in {"open", "announcing", "leaving"}

\* Transfers and sockets of a device are ended after its revocation has been saved.
RevokedFirst == \A d \in Devices : revoking[d] # "idle" => d \in revoked

WebInv == WebTypeOK /\ HandlersHaveDevices /\ SlotsAreOwned /\ RevokedFirst /\ RevokedAreClosed

\* PasteSlotFreed by the devices that were revoked instead of those that are absent.
SlotInUse ==
    \A d \in Devices : slot[d] # NoSocket =>
        \/ task[slot[d]] # "none"
        \/ conn[slot[d]] \in {"announcing", "leaving"}
        \/ d \in revoked

\* What the device store does by itself leaves sockets and transfers alone.
LEMMA DeviceRequestKeepsInv ==
  ASSUME DevicesInv, WebInv, DeviceRequest
  PROVE  DevicesInv' /\ WebInv' /\ (SlotInUse => SlotInUse')
<1>1. DevicesInv' /\ revoked' = revoked /\ Within(memory, memory')
  <2>1. CASE \E c \in Codes : Redeem(c)  BY <2>1, RedeemKeepsInv, RedeemKeepsDevices
  <2>2. CASE \E d \in Devices : RevokeFails(d)
    BY <2>2, RevokeKeepsInv DEF RevokeFails, Within
  <2>3. QED  BY <2>1, <2>2, RecordKeepsInv DEF DeviceRequest
<1>2. UNCHANGED <<connVars, revokeVars, pasteVars>>  BY DEF DeviceRequest
<1>3. RevokedAreClosed'
  BY <1>1, <1>2 DEF WebInv, WebTypeOK, HandlersHaveDevices, RevokedAreClosed, Within, connVars,
                    revokeVars
<1>4. WebInv'
  BY <1>1, <1>2, <1>3 DEF WebInv, WebTypeOK, HandlersHaveDevices, SlotsAreOwned, RevokedFirst,
                          connVars, revokeVars, pasteVars
<1>5. SlotInUse => SlotInUse'
  BY <1>1, <1>2 DEF SlotInUse, connVars, pasteVars
<1>6. QED  BY <1>1, <1>4, <1>5

LEMMA WebInitInv == WebInit => DevicesInv /\ WebInv /\ SlotInUse
  BY DevicesInvInit, WebAssumption
     DEF WebInit, WebInv, WebTypeOK, HandlersHaveDevices, SlotsAreOwned, RevokedFirst,
         RevokedAreClosed, SlotInUse, AllDevices, AllSockets

LEMMA WebRestartKeepsInv ==
  ASSUME DevicesInv, WebRestart
  PROVE  DevicesInv' /\ WebInv' /\ SlotInUse'
  BY DevicesRestartKeepsInv, WebAssumption
     DEF WebRestart, WebInv, WebTypeOK, HandlersHaveDevices, SlotsAreOwned, RevokedFirst,
         RevokedAreClosed, SlotInUse, AllDevices, AllSockets

\* The handler of a connection, up to its end.
LEMMA ConnectionKeepsInv ==
  ASSUME DevicesInv, WebInv, NEW s \in Sockets,
         \/ \E d \in Devices : Reserve(s, d)
         \/ Subscribe(s) \/ Register(s) \/ Disconnect(s) \/ Left(s)
  PROVE  WebInv' /\ UNCHANGED deviceVars /\ (SlotInUse => SlotInUse')
<1> USE DevicesAssumption, WebAssumption
        DEF DevicesInv, WebInv, WebTypeOK, HandlersHaveDevices, SlotsAreOwned, RevokedFirst,
            RevokedAreClosed, SlotInUse, Goes, Live, Release, deviceVars, revokeVars, pasteVars
<1>1. ASSUME NEW d \in Devices, Reserve(s, d)
      PROVE  WebInv' /\ UNCHANGED deviceVars /\ (SlotInUse => SlotInUse')
  BY <1>1 DEF Reserve
<1>2. CASE Subscribe(s)  BY <1>2 DEF Subscribe
<1>3. CASE Register(s)  BY <1>3 DEF Register, Valid
<1>4. CASE Disconnect(s)  BY <1>4 DEF Disconnect
<1>5. CASE Left(s)  BY <1>5 DEF Left
<1>6. QED  BY <1>1, <1>2, <1>3, <1>4, <1>5

\* The renewal of the record: the device stays, and a failure ends the handler.
LEMMA MarkKeepsInv ==
  ASSUME DevicesInv, WebInv, NEW s \in Sockets, Mark(s)
  PROVE  DevicesInv' /\ WebInv' /\ (SlotInUse => SlotInUse')
<1>1. owner[s] \in Devices /\ conn[s] = "subscribed"
  BY DEF Mark, WebInv, HandlersHaveDevices
<1>2. MarkUsed(owner[s]) \/ MarkUsedFails(owner[s])  BY DEF Mark
<1>3. DevicesInv' /\ revoked' = revoked /\ Within(memory, memory')
  BY <1>1, <1>2, RecordKeepsInv
<1>4. \/ Goes(s, "marked") /\ owner' = owner
      \/ Goes(s, "idle") /\ owner' = [owner EXCEPT ![s] = NoDevice]
  BY DEF Mark
<1>5. UNCHANGED <<registered, closed, revokeVars, pasteVars>>  BY DEF Mark
<1>6. QED
  BY <1>1, <1>3, <1>4, <1>5, DevicesAssumption, WebAssumption
     DEF WebInv, WebTypeOK, HandlersHaveDevices, SlotsAreOwned, RevokedFirst, RevokedAreClosed,
         SlotInUse, Goes, Within, revokeVars, pasteVars

\* A transfer that is taken back frees its slot, but for one whose task has not run yet.
LEMMA CancelFrees ==
  ASSUME WebInv, NEW d \in Devices, CancelPaste(d)
  PROVE  /\ slot' \in [Devices -> Sockets \cup {NoSocket}]
         /\ task' \in [Sockets -> {"none", "created", "running"}]
         /\ \A e \in Devices : slot'[e] \in {slot[e], NoSocket}
         /\ \A e \in Devices : slot'[e] # NoSocket /\ e # d => task'[slot'[e]] = task[slot[e]]
         /\ slot[d] # NoSocket /\ task[slot[d]] # "created" => slot'[d] = NoSocket
<1> USE WebAssumption DEF WebInv, WebTypeOK
<1>1. CASE slot[d] = NoSocket  BY <1>1 DEF CancelPaste, pasteVars
<1>2. CASE slot[d] # NoSocket
  <2> DEFINE s == slot[d]
  <2>1. s \in Sockets /\ task' = [task EXCEPT ![s] = "none"]  BY <1>2 DEF CancelPaste
  <2>2. \/ task[s] = "created" /\ slot' = slot
        \/ /\ task[s] # "created"
           /\ slot' = [e \in Devices |-> IF slot[e] = s THEN NoSocket ELSE slot[e]]
    BY <1>2 DEF CancelPaste, FreeSlot
  <2>3. \A e \in Devices : slot[e] # NoSocket /\ e # d => slot[e] # s
    BY <1>2 DEF SlotsAreOwned
  <2> HIDE DEF s
  <2>4. /\ slot' \in [Devices -> Sockets \cup {NoSocket}]
        /\ \A e \in Devices : slot'[e] \in {slot[e], NoSocket}
    BY <2>2
  <2>5. task' \in [Sockets -> {"none", "created", "running"}]  BY <2>1
  <2>6. \A e \in Devices : slot'[e] # NoSocket /\ e # d => task'[slot'[e]] = task[slot[e]]
    BY <2>1, <2>3, <2>4
  <2>7. task[s] # "created" => slot'[d] = NoSocket  BY <2>2 DEF s
  <2>8. QED  BY <2>4, <2>5, <2>6, <2>7 DEF s
<1>3. QED  BY <1>1, <1>2

\* The steps of a transfer and the end of a handler, which takes its transfer back.
LEMMA TransferKeepsInv ==
  ASSUME DevicesInv, WebInv, NEW s \in Sockets,
         \/ StartPaste(s) \/ Announced(s) \/ RunPaste(s) \/ EndPaste(s)
         \/ UserStopsPaste(s) \/ Leave(s)
  PROVE  WebInv' /\ UNCHANGED deviceVars
         /\ (PipelinedCancel = FALSE /\ SlotInUse => SlotInUse')
<1> USE DevicesAssumption, WebAssumption
        DEF WebInv, WebTypeOK, HandlersHaveDevices, SlotsAreOwned, RevokedFirst,
            RevokedAreClosed, SlotInUse, Goes, Live, connVars, deviceVars, revokeVars, pasteVars
<1>1. CASE StartPaste(s)  BY <1>1 DEF StartPaste
<1>2. CASE Announced(s)  BY <1>2 DEF Announced
<1>3. CASE RunPaste(s)  BY <1>3 DEF RunPaste
<1>4. CASE EndPaste(s)  BY <1>4 DEF EndPaste, FreeSlot
<1>5. CASE UserStopsPaste(s)
  <2>1. owner[s] \in Devices /\ slot[owner[s]] = s /\ conn[s] = "open" /\ CancelPaste(owner[s])
        /\ UNCHANGED <<deviceVars, connVars, revokeVars>>
    BY <1>5 DEF UserStopsPaste
  <2>2. PipelinedCancel = FALSE => slot'[owner[s]] = NoSocket
    BY <1>5, <2>1, CancelFrees DEF UserStopsPaste
  <2>3. WebInv'  BY <2>1, CancelFrees
  <2>4. QED  BY <2>1, <2>2, <2>3, CancelFrees
<1>6. CASE Leave(s)
  <2>1. conn[s] = "leaving" /\ task[s] # "created" /\ conn' = [conn EXCEPT ![s] = "left"]
        /\ UNCHANGED <<deviceVars, owner, registered, closed, revokeVars>>
        /\ owner[s] \in Devices
    BY <1>6 DEF Leave
  <2>2. CASE slot[owner[s]] = s
    <3>1. CancelPaste(owner[s])  BY <1>6, <2>2 DEF Leave
    <3>2. slot'[owner[s]] = NoSocket  BY <2>1, <2>2, <3>1, CancelFrees
    <3>3. WebInv'  BY <2>1, <3>1, <3>2, CancelFrees
    <3>4. QED  BY <2>1, <3>1, <3>2, <3>3, CancelFrees
  <2>3. CASE slot[owner[s]] # s
    <3>1. UNCHANGED pasteVars  BY <1>6, <2>3 DEF Leave
    <3>2. \A d \in Devices : slot[d] # s  BY <2>1, <2>3
    <3>3. QED  BY <2>1, <3>1, <3>2
  <2>4. QED  BY <2>2, <2>3
<1>7. QED  BY <1>1, <1>2, <1>3, <1>4, <1>5, <1>6

\* Revocation and what it does to the transfers and sockets of the device.
LEMMA RevocationKeepsInv ==
  ASSUME DevicesInv, WebInv, NEW d \in Devices,
         RevokeDevice(d) \/ RevokePastes(d) \/ RevokeSockets(d)
  PROVE  DevicesInv' /\ WebInv' /\ (SlotInUse => SlotInUse')
<1> USE DevicesAssumption, WebAssumption
        DEF WebInv, WebTypeOK, HandlersHaveDevices, SlotsAreOwned, RevokedFirst,
            RevokedAreClosed, SlotInUse, connVars, revokeVars, pasteVars
<1>1. CASE RevokeDevice(d)
  <2>1. DevicesInv'  BY <1>1, RevokeKeepsInv DEF RevokeDevice
  <2>2. revoked' = revoked \cup {d} /\ UNCHANGED <<connVars, pasteVars>>
        /\ revoking' = [revoking EXCEPT ![d] = "pastes"]
        /\ captured' = [captured EXCEPT ![d] = {s \in registered : owner[s] = d}]
    BY <1>1 DEF RevokeDevice, Revoke
  <2>3. \A e \in Devices : e # d => memory'[e] = memory[e]
    BY <1>1 DEF RevokeDevice, Revoke, Saved, DevicesInv, DevicesTypeOK
  <2>4. RevokedAreClosed'
    <3> SUFFICES ASSUME NEW s \in registered' \ closed'
                 PROVE  memory'[owner'[s]] # "absent" \/ s \in captured'[owner'[s]]
      OBVIOUS
    <3>1. s \in registered \ closed /\ owner'[s] = owner[s] /\ owner[s] \in Devices  BY <2>2
    <3>2. CASE owner[s] = d  BY <2>2, <3>1, <3>2
    <3>3. CASE owner[s] # d  BY <2>2, <2>3, <3>1, <3>3
    <3>4. QED  BY <3>2, <3>3
  <2>5. WebTypeOK' /\ HandlersHaveDevices' /\ SlotsAreOwned' /\ RevokedFirst'  BY <2>2
  <2>6. SlotInUse => SlotInUse'  BY <2>2
  <2>7. QED  BY <2>1, <2>4, <2>5, <2>6
<1>2. CASE RevokePastes(d)
  <2>1. UNCHANGED <<deviceVars, connVars, captured>> /\ CancelPaste(d) /\ d \in revoked
        /\ revoking' = [revoking EXCEPT ![d] = "sockets"]
    BY <1>2 DEF RevokePastes
  <2>2. WebInv'  BY <2>1, CancelFrees DEF deviceVars
  <2>3. SlotInUse => SlotInUse'  BY <2>1, CancelFrees DEF deviceVars
  <2>4. QED  BY <2>1, <2>2, <2>3, DevicesUnchanged
<1>3. CASE RevokeSockets(d)
  <2>1. UNCHANGED <<deviceVars, conn, owner, registered, pasteVars>>
        /\ closed' = closed \cup captured[d]
        /\ revoking' = [revoking EXCEPT ![d] = "idle"]
        /\ captured' = [captured EXCEPT ![d] = {}]
    BY <1>3 DEF RevokeSockets
  <2>2. WebInv' /\ (SlotInUse => SlotInUse')  BY <2>1 DEF deviceVars
  <2>3. QED  BY <2>1, <2>2, DevicesUnchanged
<1>4. QED  BY <1>1, <1>2, <1>3

LEMMA WebStep ==
  ASSUME DevicesInv, WebInv, [WebNext]_webVars
  PROVE  DevicesInv' /\ WebInv' /\ (PipelinedCancel = FALSE /\ SlotInUse => SlotInUse')
<1>1. CASE DeviceRequest  BY <1>1, DeviceRequestKeepsInv
<1>2. CASE WebRestart  BY <1>2, WebRestartKeepsInv
<1>3. ASSUME NEW d \in Devices, RevokeDevice(d) \/ RevokePastes(d) \/ RevokeSockets(d)
      PROVE  DevicesInv' /\ WebInv' /\ (SlotInUse => SlotInUse')
  BY <1>3, RevocationKeepsInv
<1>4. ASSUME NEW s \in Sockets,
             \/ \E d \in Devices : Reserve(s, d)
             \/ Subscribe(s) \/ Register(s) \/ Disconnect(s) \/ Left(s)
      PROVE  DevicesInv' /\ WebInv' /\ (SlotInUse => SlotInUse')
  BY <1>4, ConnectionKeepsInv, DevicesUnchanged
<1>5. ASSUME NEW s \in Sockets, Mark(s)
      PROVE  DevicesInv' /\ WebInv' /\ (SlotInUse => SlotInUse')
  BY <1>5, MarkKeepsInv
<1>6. ASSUME NEW s \in Sockets,
             \/ StartPaste(s) \/ Announced(s) \/ RunPaste(s) \/ EndPaste(s)
             \/ UserStopsPaste(s) \/ Leave(s)
      PROVE  DevicesInv' /\ WebInv' /\ (PipelinedCancel = FALSE /\ SlotInUse => SlotInUse')
  BY <1>6, TransferKeepsInv, DevicesUnchanged
<1>7. CASE UNCHANGED webVars
  BY <1>7, DevicesUnchanged
     DEF webVars, deviceVars, connVars, revokeVars, pasteVars, WebInv, WebTypeOK,
         HandlersHaveDevices, SlotsAreOwned, RevokedFirst, RevokedAreClosed, SlotInUse
<1>8. QED  BY <1>1, <1>2, <1>3, <1>4, <1>5, <1>6, <1>7 DEF WebNext

-----------------------------------------------------------------------------
(* Theorems *)

\* A code pairs one device, a revoked credential stays refused, also after failed writes and
\* restarts, and holds no socket (gateway_devices.py, gateway_web.py).
THEOREM DevicesAreSound == WebSpec => []DevicesSound
<1>1. WebInit => DevicesInv /\ WebInv  BY WebInitInv
<1>2. (DevicesInv /\ WebInv) /\ [WebNext]_webVars => (DevicesInv /\ WebInv)'
  BY WebStep
<1>3. DevicesInv /\ WebInv => DevicesSound
  BY InvGivesOneCredential DEF DevicesInv, WebInv, DevicesSound
<1>4. QED  BY <1>1, <1>2, <1>3, PTL DEF WebSpec

\* A device whose transfer is over can start another one, unless the browser stopped the
\* transfer before its task ran (gateway_web.py _start_paste, _cancel_paste).
THEOREM SlotIsFreed == ASSUME PipelinedCancel = FALSE PROVE WebSpec => []PasteSlotFreed
<1> DEFINE Inv == DevicesInv /\ WebInv /\ SlotInUse
<1>1. WebInit => Inv  BY WebInitInv
<1>2. Inv /\ [WebNext]_webVars => Inv'  BY WebStep
<1>3. Inv => PasteSlotFreed
  BY DEF DevicesInv, RevokedForGood, SlotInUse, PasteSlotFreed
<1>4. QED  BY <1>1, <1>2, <1>3, PTL DEF WebSpec

-----------------------------------------------------------------------------
(* Installations: the current and the previous release.                    *)

\* What an installer at each step has in hand.
JobTypeOK ==
    job \in [Installers -> [step : Steps, release : Releases \cup {NoRelease},
                            old : Releases \cup {NoRelease},
                            activate : BOOLEAN, candidate : BOOLEAN]]

\* The pointers name releases, a job under way has a release of its own, and only
\* an activation that had one to replace puts `previous' back.
NamesReleases ==
    /\ installed \subseteq Releases
    /\ {current, previous} \subseteq Releases \cup {NoRelease}
    /\ lock \in Installers \cup {NoInstaller}
    /\ deaths \in Nat
    /\ \A i \in Installers :
         /\ job[i].step # "idle" => job[i].release \in Releases
         /\ job[i].step = "restore" => current # NoRelease

\* Only the holder of the lock is at a step that touches the pointers.
OneActivation ==
    \A i \in Installers : job[i].step \in {"activate", "point", "restore"} <=> lock = i

\* Before the first activation there is nothing to roll back to.
NothingBefore == current = NoRelease => previous = NoRelease /\ replaced = NoRelease

\* The stages of an activation: until it points `previous' at the active release nothing has
\* changed; from then on the job keeps what `previous' was.
Staged ==
    deaths = 0 /\ current # NoRelease =>
        /\ lock = NoInstaller => previous = replaced
        /\ \A i \in Installers :
             /\ job[i].step = "activate" => previous = replaced
             /\ job[i].step = "point" => previous = current /\ job[i].old = replaced
             /\ job[i].step = "restore" => job[i].old = replaced

InstallInv == JobTypeOK /\ NamesReleases /\ OneActivation /\ NothingBefore /\ Staged

LEMMA InstallInvInit == InstInit => InstallInv
  BY InstallationAssumption
     DEF InstInit, InstallInv, JobTypeOK, NamesReleases, OneActivation, NothingBefore, Staged,
         Idle, Steps

\* A job that ends without having moved the active release, and with `previous' as it was
\* before or put back, leaves the invariant intact.
LEMMA FinishKeepsInv ==
  ASSUME InstallInv, NEW i \in Installers, Finish(i),
         installed' \subseteq Releases, previous' \in Releases \cup {NoRelease},
         current' = current, replaced' = replaced, deaths' = deaths,
         NothingBefore',
         deaths = 0 /\ current # NoRelease /\ lock \in {i, NoInstaller} => previous' = replaced,
         lock # i => previous' = previous
  PROVE  InstallInv'
<1> USE InstallationAssumption DEF InstallInv, Finish
<1>1. JobTypeOK'  BY DEF JobTypeOK, Idle, Steps
<1>2. \A j \in Installers : job'[j] = IF j = i THEN Idle ELSE job[j]  BY DEF JobTypeOK
<1>3. NamesReleases'  BY <1>2 DEF NamesReleases, Idle
<1>4. OneActivation'  BY <1>2 DEF OneActivation, NamesReleases, Idle
<1>5. Staged'  BY <1>2 DEF Staged, OneActivation, NamesReleases, Idle
<1>6. QED  BY <1>1, <1>3, <1>4, <1>5

\* A job that takes the free lock to activate an installed release.
LEMMA TakingTheLockKeepsInv ==
  ASSUME InstallInv, NEW i \in Installers, NEW r \in Releases, Locked(i),
         job[i].step \notin {"activate", "point", "restore"},
         job' = [job EXCEPT ![i] = [Idle EXCEPT !.step = "activate", !.release = r]],
         installed' \subseteq Releases, UNCHANGED <<pointers, deaths>>
  PROVE  InstallInv'
<1> USE InstallationAssumption DEF InstallInv, Locked, pointers
<1>1. JobTypeOK'  BY DEF JobTypeOK, Idle, Steps
<1>2. \A j \in Installers :
        job'[j] = IF j = i THEN [Idle EXCEPT !.step = "activate", !.release = r] ELSE job[j]
  BY DEF JobTypeOK
<1>3. job'[i].step = "activate" /\ job'[i].release = r
  <2> DEFINE new == [Idle EXCEPT !.step = "activate", !.release = r]
  <2>1. new.step = "activate" /\ new.release = r  BY DEF Idle
  <2>2. job'[i] = new  BY <1>2
  <2>3. QED  BY <2>1, <2>2
<1>4. NamesReleases'  BY <1>2, <1>3 DEF NamesReleases
<1>5. OneActivation'  BY <1>2, <1>3 DEF OneActivation, NamesReleases
<1>6. NothingBefore'  BY DEF NothingBefore
<1>7. Staged'  BY <1>2, <1>3 DEF Staged, OneActivation, NamesReleases
<1>8. QED  BY <1>1, <1>4, <1>5, <1>6, <1>7

LEMMA StartKeepsInv ==
  ASSUME InstallInv, NEW i \in Installers, NEW r \in Releases,
         NEW activate \in BOOLEAN, NEW candidate \in BOOLEAN,
         StartInstall(i, r, activate, candidate)
  PROVE  InstallInv'
<1>1. job[i].step = "idle"  BY DEF StartInstall, Idle
<1>2. CASE r \in installed
  BY <1>1, <1>2, TakingTheLockKeepsInv DEF StartInstall, InstallInv, NamesReleases
<1>3. CASE r \notin installed
  <2> DEFINE new == [step |-> "building", release |-> r, old |-> NoRelease,
                     activate |-> activate, candidate |-> candidate]
  <2> USE InstallationAssumption DEF InstallInv, pointers
  <2>1. lock' = lock /\ job' = [job EXCEPT ![i] = new]
        /\ UNCHANGED <<installed, pointers, deaths>>
    BY <1>3 DEF StartInstall
  <2>2. new.step = "building" /\ new.release = r  OBVIOUS
  <2>3. JobTypeOK'  BY <2>1 DEF JobTypeOK, Steps
  <2>4. \A j \in Installers : job'[j] = IF j = i THEN new ELSE job[j]
    BY <2>1 DEF JobTypeOK
  <2> HIDE DEF new
  <2>5. NamesReleases'  BY <2>1, <2>2, <2>4 DEF NamesReleases
  <2>6. OneActivation'  BY <1>1, <2>1, <2>2, <2>4 DEF OneActivation
  <2>7. NothingBefore'  BY <2>1 DEF NothingBefore
  <2>8. Staged'  BY <2>1, <2>2, <2>4 DEF Staged
  <2>9. QED  BY <2>3, <2>5, <2>6, <2>7, <2>8
<1>4. QED  BY <1>2, <1>3

LEMMA BuildKeepsInv ==
  ASSUME InstallInv, NEW i \in Installers,
         FinishBuild(i) \/ FailBuild(i) \/ Commit(i) \/ CommitRefused(i)
  PROVE  InstallInv'
<1> USE InstallationAssumption
<1>1. CASE FinishBuild(i)
  <2> USE DEF InstallInv, pointers
  <2>1. lock' = lock /\ UNCHANGED <<installed, pointers, deaths>>  BY <1>1 DEF FinishBuild
  <2>2. JobTypeOK'  BY <1>1 DEF FinishBuild, JobTypeOK, Steps
  <2>3. \A j \in Installers : /\ job'[j].release = job[j].release
                              /\ job'[j].old = job[j].old
                              /\ job'[j].step = IF j = i THEN "built" ELSE job[j].step
    BY <1>1 DEF FinishBuild, JobTypeOK
  <2>4. job[i].step = "building"  BY <1>1 DEF FinishBuild
  <2>5. NamesReleases'  BY <2>1, <2>3, <2>4 DEF NamesReleases
  <2>6. OneActivation'  BY <2>1, <2>3, <2>4 DEF OneActivation
  <2>7. NothingBefore'  BY <2>1 DEF NothingBefore
  <2>8. Staged'  BY <2>1, <2>3 DEF Staged
  <2>9. QED  BY <2>2, <2>5, <2>6, <2>7, <2>8
<1>2. CASE FailBuild(i)
  <2>1. lock # i  BY <1>2 DEF FailBuild, InstallInv, OneActivation
  <2>2. lock = NoInstaller /\ deaths = 0 /\ current # NoRelease => previous = replaced
    BY DEF InstallInv, Staged
  <2>3. QED
    BY <1>2, <2>1, <2>2, FinishKeepsInv
       DEF FailBuild, pointers, InstallInv, NamesReleases, NothingBefore
<1>3. CASE Commit(i)
  <2>1. job[i].step = "built" /\ lock = NoInstaller  BY <1>3 DEF Commit
  <2>2. job[i].release \in Releases  BY <2>1 DEF InstallInv, NamesReleases
  <2>3. installed' \subseteq Releases  BY <1>3, <2>2 DEF Commit, InstallInv, NamesReleases
  <2>4. deaths = 0 /\ current # NoRelease => previous = replaced
    BY <2>1 DEF InstallInv, Staged
  <2>5. CASE Finish(i)
    BY <1>3, <2>1, <2>3, <2>4, <2>5, FinishKeepsInv
       DEF Commit, pointers, InstallInv, NamesReleases, NothingBefore
  <2>6. CASE Locked(i) /\ job' = [job EXCEPT ![i] = [Idle EXCEPT !.step = "activate",
                                                                !.release = job[i].release]]
    BY <1>3, <2>1, <2>2, <2>3, <2>6, TakingTheLockKeepsInv DEF Commit
  <2>7. QED  BY <1>3, <2>5, <2>6 DEF Commit
<1>4. CASE CommitRefused(i)
  <2>1. job[i].step = "built"  BY <1>4 DEF CommitRefused
  <2>2. lock # i  BY <2>1 DEF InstallInv, OneActivation
  <2>3. lock = NoInstaller /\ deaths = 0 /\ current # NoRelease => previous = replaced
    BY DEF InstallInv, Staged
  <2>4. QED
    BY <1>4, <2>2, <2>3, FinishKeepsInv
       DEF CommitRefused, pointers, InstallInv, NamesReleases, NothingBefore
<1>5. QED  BY <1>1, <1>2, <1>3, <1>4

LEMMA ActivateKeepsInv ==
  ASSUME InstallInv, NEW i \in Installers, NEW r, Activate(i, r)
  PROVE  InstallInv'
<1>1. job[i].step = "idle" /\ r \in Releases
  BY DEF Activate, Idle, InstallInv, NamesReleases
<1>2. QED
  BY <1>1, TakingTheLockKeepsInv DEF Activate, InstallInv, NamesReleases, pointers

\* `previous' is pointed at the active release; nobody else is at a pointer.
LEMMA PointPreviousKeepsInv ==
  ASSUME InstallInv, NEW i \in Installers, PointPrevious(i)
  PROVE  InstallInv'
<1> USE InstallationAssumption
<1>1. lock = i /\ job[i].step = "activate"
  BY DEF PointPrevious, InstallInv, OneActivation
<1>2. deaths = 0 /\ current # NoRelease => previous = replaced
  BY <1>1 DEF InstallInv, Staged
<1>3. CASE current = job[i].release
  BY <1>1, <1>2, <1>3, FinishKeepsInv
     DEF PointPrevious, InstallInv, NamesReleases, NothingBefore
<1>4. CASE current # job[i].release
  <2> USE DEF InstallInv
  <2>1. /\ job' = [job EXCEPT ![i].step = "point", ![i].old = previous]
        /\ previous' = IF current = NoRelease THEN previous ELSE current
        /\ UNCHANGED <<lock, installed, current, replaced, deaths>>
    BY <1>4 DEF PointPrevious
  <2>2. JobTypeOK'
    <3> DEFINE new == [job[i] EXCEPT !.step = "point", !.old = previous]
    <3>1. new \in [step : Steps, release : Releases \cup {NoRelease},
                   old : Releases \cup {NoRelease}, activate : BOOLEAN, candidate : BOOLEAN]
      BY ZenonT(60) DEF JobTypeOK, Steps, NamesReleases
    <3>2. job' = [job EXCEPT ![i] = new]  BY <2>1
    <3> HIDE DEF new
    <3>3. QED  BY <3>1, <3>2 DEF JobTypeOK
  <2>3. \A j \in Installers : /\ job'[j].release = job[j].release
                              /\ job'[j].old = IF j = i THEN previous ELSE job[j].old
                              /\ job'[j].step = IF j = i THEN "point" ELSE job[j].step
    BY <2>1 DEF JobTypeOK
  <2>4. NamesReleases'
    <3>1. UNCHANGED <<installed, current, lock, deaths>>  BY <2>1
    <3>2. previous' \in Releases \cup {NoRelease}  BY <2>1 DEF NamesReleases
    <3>3. QED  BY <1>1, <2>3, <3>1, <3>2 DEF NamesReleases
  <2>5. OneActivation'  BY <1>1, <2>1, <2>3 DEF OneActivation
  <2>6. NothingBefore'  BY <2>1 DEF NothingBefore
  <2>7. Staged'
    <3>1. \A j \in Installers : j # i => job'[j].step \notin {"activate", "point", "restore"}
      BY <1>1, <2>3 DEF OneActivation
    <3>2. lock' # NoInstaller  BY <1>1, <2>1
    <3>3. current # NoRelease /\ deaths = 0 => previous' = current /\ job'[i].old = replaced
      BY <1>2, <2>1, <2>3
    <3>4. job'[i].step = "point" /\ UNCHANGED <<current, replaced, deaths>>  BY <2>1, <2>3
    <3>5. QED  BY <3>1, <3>2, <3>3, <3>4 DEF Staged
  <2>8. QED  BY <2>2, <2>4, <2>5, <2>6, <2>7
<1>5. QED  BY <1>3, <1>4

------------------------------------------------------------------------

\* The active release is replaced: the one before it is in `previous' already.
LEMMA PointCurrentKeepsInv ==
  ASSUME InstallInv, NEW i \in Installers, PointCurrent(i)
  PROVE  InstallInv'
<1> USE InstallationAssumption
<1>1. lock = i /\ job[i].step = "point" /\ job[i].release \in Releases
  BY DEF PointCurrent, InstallInv, OneActivation, NamesReleases
<1>2. /\ current' = job[i].release /\ replaced' = current /\ job' = [job EXCEPT ![i] = Idle]
      /\ lock' = NoInstaller /\ UNCHANGED <<installed, previous, deaths>>
  BY <1>1 DEF PointCurrent, Finish
<1>3. deaths = 0 => previous = current
  BY <1>1 DEF InstallInv, Staged, NothingBefore
<1>4. \A j \in Installers : job'[j] = IF j = i THEN Idle ELSE job[j]
  BY <1>2 DEF InstallInv, JobTypeOK
<1>5. \A j \in Installers : job'[j].step \notin {"activate", "point", "restore"}
  BY <1>1, <1>4 DEF InstallInv, OneActivation, Idle
<1>6. JobTypeOK'  BY <1>2 DEF InstallInv, JobTypeOK, Idle, Steps
<1>7. NamesReleases'
  BY <1>1, <1>2, <1>4 DEF InstallInv, NamesReleases, Idle
<1>8. OneActivation'  BY <1>2, <1>5 DEF OneActivation
<1>9. NothingBefore'  BY <1>1, <1>2 DEF NothingBefore
<1>10. Staged'  BY <1>2, <1>3, <1>5 DEF Staged
<1>11. QED  BY <1>6, <1>7, <1>8, <1>9, <1>10 DEF InstallInv

\* A failed replacement leads to the step that puts `previous' back.
LEMMA PointFailsKeepsInv ==
  ASSUME InstallInv, NEW i \in Installers, PointFails(i)
  PROVE  InstallInv'
<1> USE InstallationAssumption
<1>1. lock = i /\ job[i].step = "point"  BY DEF PointFails, InstallInv, OneActivation
<1>2. UNCHANGED <<installed, current, previous, replaced, deaths>>
  BY DEF PointFails, pointers
<1>3. CASE current = NoRelease
  BY <1>1, <1>2, <1>3, FinishKeepsInv
     DEF PointFails, InstallInv, NamesReleases, NothingBefore
<1>4. CASE current # NoRelease
  <2> USE DEF InstallInv
  <2>1. job' = [job EXCEPT ![i].step = "restore"] /\ lock' = lock
    BY <1>4 DEF PointFails
  <2>2. JobTypeOK'  BY <2>1 DEF JobTypeOK, Steps
  <2>3. \A j \in Installers : /\ job'[j].release = job[j].release
                              /\ job'[j].old = job[j].old
                              /\ job'[j].step = IF j = i THEN "restore" ELSE job[j].step
    BY <2>1 DEF JobTypeOK
  <2>4. NamesReleases'  BY <1>1, <1>2, <1>4, <2>1, <2>3 DEF NamesReleases
  <2>5. OneActivation'  BY <1>1, <2>1, <2>3 DEF OneActivation
  <2>6. NothingBefore'  BY <1>2 DEF NothingBefore
  <2>7. Staged'
    <3>1. \A j \in Installers : j # i => job'[j].step \notin {"activate", "point", "restore"}
      BY <1>1, <2>3 DEF OneActivation
    <3>2. lock' # NoInstaller  BY <1>1, <2>1
    <3>3. current # NoRelease /\ deaths = 0 => job'[i].old = replaced
      BY <1>1, <2>3 DEF Staged
    <3>4. QED  BY <1>2, <2>3, <3>1, <3>2, <3>3 DEF Staged
  <2>8. QED  BY <2>2, <2>4, <2>5, <2>6, <2>7
<1>5. QED  BY <1>3, <1>4

\* `previous' is put back; the job has kept it.
LEMMA RestoreKeepsInv ==
  ASSUME InstallInv, NEW i \in Installers, RestorePrevious(i)
  PROVE  InstallInv'
<1>1. lock = i /\ job[i].step = "restore"
  BY DEF RestorePrevious, InstallInv, OneActivation
<1>2. previous' \in Releases \cup {NoRelease} /\ current # NoRelease
  BY <1>1 DEF RestorePrevious, InstallInv, JobTypeOK, NamesReleases
<1>3. deaths = 0 => previous' = replaced
  BY <1>1, <1>2 DEF RestorePrevious, InstallInv, Staged
<1>4. QED
  BY <1>1, <1>2, <1>3, FinishKeepsInv
     DEF RestorePrevious, InstallInv, NamesReleases, NothingBefore

\* A process that dies excuses what it leaves behind.
LEMMA DieKeepsInv ==
  ASSUME InstallInv, NEW i \in Installers, Die(i)
  PROVE  InstallInv'
<1> USE InstallationAssumption DEF InstallInv, Die, Finish, pointers
<1>1. JobTypeOK'  BY DEF JobTypeOK, Idle, Steps
<1>2. \A j \in Installers : job'[j] = IF j = i THEN Idle ELSE job[j]  BY DEF JobTypeOK
<1>3. NamesReleases'  BY <1>2 DEF NamesReleases, Idle
<1>4. OneActivation'  BY <1>2 DEF OneActivation, NamesReleases, Idle
<1>5. NothingBefore'  BY DEF NothingBefore
<1>6. Staged'  BY DEF Staged, NamesReleases
<1>7. QED  BY <1>1, <1>3, <1>4, <1>5, <1>6

LEMMA InstallInvStep == InstallInv /\ [InstNext]_instVars => InstallInv'
<1> SUFFICES ASSUME InstallInv, [InstNext]_instVars PROVE InstallInv'
  OBVIOUS
<1>1. ASSUME NEW i \in Installers,
             \E r \in Releases, activate, candidate \in BOOLEAN :
               StartInstall(i, r, activate, candidate)
      PROVE  InstallInv'
  BY <1>1, StartKeepsInv
<1>2. ASSUME NEW i \in Installers,
             FinishBuild(i) \/ FailBuild(i) \/ Commit(i) \/ CommitRefused(i)
      PROVE  InstallInv'
  BY <1>2, BuildKeepsInv
<1>3. ASSUME NEW i \in Installers, (\E r \in installed : Activate(i, r)) \/ Rollback(i)
      PROVE  InstallInv'
  BY <1>3, ActivateKeepsInv DEF Rollback
<1>4. ASSUME NEW i \in Installers, PointPrevious(i) PROVE InstallInv'
  BY <1>4, PointPreviousKeepsInv
<1>5. ASSUME NEW i \in Installers, PointCurrent(i) PROVE InstallInv'
  BY <1>5, PointCurrentKeepsInv
<1>6. ASSUME NEW i \in Installers, PointFails(i) PROVE InstallInv'
  BY <1>6, PointFailsKeepsInv
<1>7. ASSUME NEW i \in Installers, RestorePrevious(i) PROVE InstallInv'
  BY <1>7, RestoreKeepsInv
<1>8. ASSUME NEW i \in Installers, Die(i) PROVE InstallInv'
  BY <1>8, DieKeepsInv
<1>9. CASE UNCHANGED instVars
  BY <1>9 DEF instVars, InstallInv, JobTypeOK, NamesReleases, OneActivation, NothingBefore,
              Staged
<1>10. QED  BY <1>1, <1>2, <1>3, <1>4, <1>5, <1>6, <1>7, <1>8, <1>9 DEF InstNext

\* Unless a process died, a rollback leads back to the release that was active before,
\* whichever activations failed and overlapped (installations.py:320-344).
THEOREM RollbackLeadsBack == InstSpec => []RollbackReady
<1>1. InstallInv => RollbackReady  BY DEF InstallInv, Staged, RollbackReady
<1>2. QED  BY InstallInvInit, InstallInvStep, <1>1, PTL DEF InstSpec

\* Whichever of two overlapping builds ends first, no installation adds a stable release
\* older than one that is there (install_checkout.py:140, 271).
THEOREM NoneIsOlder == InstSpec => NoDowngrade
<1>1. InstallInv /\ [InstNext]_instVars =>
        [\A r \in installed' \ installed, s \in installed :
           r.stable /\ s.stable => s.version <= r.version]_instVars
  <2> SUFFICES ASSUME InstallInv, [InstNext]_instVars,
                      NEW r \in installed' \ installed, NEW s \in installed,
                      r.stable, s.stable
               PROVE  s.version <= r.version
    BY DEF instVars
  <2>1. PICK i \in Installers : Commit(i)
    BY DEF InstNext, instVars, pointers, StartInstall, FinishBuild, FailBuild, CommitRefused,
           Activate, Rollback, PointPrevious, PointCurrent, PointFails, RestorePrevious, Die
  <2>2. r = job[i].release  BY <2>1 DEF Commit
  <2>3. ~(s.version > r.version)  BY <2>1, <2>2 DEF Commit, Downgrades
  <2>4. r \in Releases /\ s \in Releases
    BY <2>1, <2>2 DEF Commit, InstallInv, NamesReleases
  <2>5. QED  BY <2>3, <2>4, InstallationAssumption
<1>2. QED  BY InstallInvInit, InstallInvStep, <1>1, PTL DEF InstSpec, NoDowngrade

-----------------------------------------------------------------------------
(* Update checks: the cached manifest and its ETag.                        *)

\* What a request under way asks with is still the ETag of its process, because one process
\* has one request at a time.  Without it a 304 could confirm a manifest that is not there.
AskedIsCurrent == \A h \in Hosts : phase[h] = "asking" => asked[h] = etag[h]

CheckInv == ChecksTypeOK /\ AskedIsCurrent /\ EtagNamesManifest

LEMMA CheckInvInit == ChecksInit => CheckInv
  BY UpdateCheckAssumption
     DEF ChecksInit, CheckInv, ChecksTypeOK, AskedIsCurrent, EtagNamesManifest, Optional,
         NoCache

\* The cache file is left alone or takes the pair over that its writer has now.
LEMMA CacheStaysSound ==
  ASSUME NEW h \in Hosts, WriteCache(h), EtagNamesManifest,
         cache \in [etag : Optional, manifest : Optional], writeFaults \in 0..MaxUpdateFaults,
         etag'[h] \in Optional, etag'[h] = known'[h]
  PROVE  /\ cache' \in [etag : Optional, manifest : Optional]
         /\ cache'.etag = cache'.manifest
         /\ writeFaults' \in 0..MaxUpdateFaults
  BY UpdateCheckAssumption DEF WriteCache, EtagNamesManifest

LEMMA CheckInvStep == CheckInv /\ [ChecksNext]_checkVars => CheckInv'
<1> SUFFICES ASSUME CheckInv, [ChecksNext]_checkVars PROVE CheckInv'
  OBVIOUS
<1> USE DEF CheckInv, ChecksTypeOK, AskedIsCurrent, EtagNamesManifest
<1>1. CASE Serve  BY <1>1 DEF Serve
<1>2. ASSUME NEW h \in Hosts, AskServer(h) PROVE CheckInv'
  BY <1>2 DEF AskServer
<1>3. ASSUME NEW h \in Hosts, NotModified(h) PROVE CheckInv'
  <2>1. etag' = etag /\ known' = known /\ asked' = asked /\ served' = served
    BY <1>3 DEF NotModified
  <2>2. cache' \in [etag : Optional, manifest : Optional] /\ cache'.etag = cache'.manifest
        /\ writeFaults' \in 0..MaxUpdateFaults
    BY <1>3, <2>1, CacheStaysSound DEF NotModified
  <2>3. QED  BY <1>3, <2>1, <2>2 DEF NotModified
<1>4. ASSUME NEW h \in Hosts, Answered(h) PROVE CheckInv'
  <2>1. etag'[h] = served /\ known'[h] = served  BY <1>4 DEF Answered
  <2>2. cache' \in [etag : Optional, manifest : Optional] /\ cache'.etag = cache'.manifest
        /\ writeFaults' \in 0..MaxUpdateFaults
    BY <1>4, <2>1, CacheStaysSound DEF Answered, Optional
  <2>3. QED  BY <1>4, <2>2 DEF Answered, Optional
<1>5. ASSUME NEW h \in Hosts, CheckFails(h) PROVE CheckInv'
  BY <1>5 DEF CheckFails
<1>6. ASSUME NEW h \in Hosts, LoadCache(h) PROVE CheckInv'
  BY <1>6 DEF LoadCache
<1>7. CASE UNCHANGED checkVars  BY <1>7 DEF checkVars
<1>8. QED  BY <1>1, <1>2, <1>3, <1>4, <1>5, <1>6, <1>7 DEF ChecksNext

\* In every process and in the shared file the ETag belongs to the manifest that a 304 would
\* confirm, whatever the server publishes and whichever files cannot be written (updates.py).
THEOREM EtagIsOfManifest == ChecksSpec => []EtagNamesManifest
<1>1. CheckInv => EtagNamesManifest  BY DEF CheckInv
<1>2. QED  BY CheckInvInit, CheckInvStep, <1>1, PTL DEF ChecksSpec

-----------------------------------------------------------------------------
(* The records of UIs: GatewayUis.                                         *)

\* A copy of the records the next Gateway would load.
Loadable(n, c) ==
    /\ n \in [UiIds -> Names \cup {NoName}]
    /\ c \in [UiIds -> UiIds \cup Imported \cup {NoProfile}]
    /\ \A u, v \in UiIds :
         /\ u # v /\ n[u] # NoName => n[u] # n[v]
         /\ u # v /\ c[u] # NoProfile => c[u] # c[v]
         /\ c[u] # NoProfile => n[u] # NoName

RecordsInv == Loadable(names, claims) /\ Loadable(nameFile, claimFile)

\* The file holds at most one identity, and it is the one of every process that has one.
IdentityInv ==
    /\ started \in [Starters -> Starters \cup {"new", "missing"}]
    /\ idFile = {} \/ \E s \in Starters : idFile = {s}
    /\ OneIdentity

\* A save keeps memory and file loadable if it is given loadable records.
LEMMA StoreKeepsRecords ==
  ASSUME RecordsInv, NEW n, NEW c, Loadable(n, c), Store(n, c)
  PROVE  RecordsInv'
<1>1. /\ (names' = n /\ claims' = c) \/ (names' = names /\ claims' = claims)
      /\ (nameFile' = n /\ claimFile' = c) \/ (nameFile' = nameFile /\ claimFile' = claimFile)
  BY DEF Store
<1>2. Loadable(names', claims') /\ Loadable(nameFile', claimFile')
  BY <1>1 DEF RecordsInv
<1>3. QED  BY <1>2 DEF RecordsInv, Loadable

\* A UI gets a name no other UI has, and a forgotten one leaves no claim.
LEMMA NamingKeepsRecords ==
  ASSUME RecordsInv, NEW u \in UiIds,
         RegisterUi(u) \/ Forget(u) \/ \E n \in Names : Rename(u, n)
  PROVE  RecordsInv'
<1>1. Loadable(names, claims)  BY DEF RecordsInv
<1>2. \A n \in FreeNames : n \in Names /\ \A v \in UiIds : names[v] # n
  BY <1>1 DEF FreeNames, Range, Loadable
<1>3. ASSUME NEW n \in FreeNames  PROVE Loadable([names EXCEPT ![u] = n], claims)
  <2>1. n \in Names /\ n # NoName /\ \A v \in UiIds : names[v] # n
    BY <1>2, UisAssumption
  <2>2. QED  BY <1>1, <2>1 DEF Loadable
<1>4. Loadable([names EXCEPT ![u] = NoName], [claims EXCEPT ![u] = NoProfile])
  BY <1>1 DEF Loadable
<1>5. CASE RegisterUi(u)
  <2>1. CASE Store(names, claims)  BY <1>1, <2>1, StoreKeepsRecords
  <2>2. ASSUME NEW n \in FreeNames, Store([names EXCEPT ![u] = n], claims)
        PROVE  RecordsInv'
    BY <1>3, <2>2, StoreKeepsRecords
  <2>3. QED  BY <1>5, <2>1, <2>2 DEF RegisterUi, NewName
<1>6. CASE Forget(u)  BY <1>4, <1>6, StoreKeepsRecords DEF Forget
<1>7. CASE \E n \in Names : Rename(u, n)
  BY <1>3, <1>7, StoreKeepsRecords DEF Rename
<1>8. QED  BY <1>5, <1>6, <1>7

\* A profile goes to a known UI, and to nobody who shares it.
LEMMA ClaimingKeepsRecords ==
  ASSUME RecordsInv, NEW p \in Imported \cup UiIds,
         RemoveProfile(p) \/ \E u \in UiIds : Claim(u, p) \/ Link(u, p)
  PROVE  RecordsInv'
<1>1. Loadable(names, claims)  BY DEF RecordsInv
<1>2. ASSUME NEW u \in UiIds, u \in Known, \A other \in UiIds \ {u} : claims[other] # p
      PROVE  Loadable(names, Claimed(u, p))
  <2>1. p # NoProfile /\ names[u] # NoName  BY <1>2, UisAssumption DEF Known
  <2>2. Claimed(u, p) \in [UiIds -> UiIds \cup Imported \cup {NoProfile}]
    BY <1>1 DEF Loadable, Claimed
  <2>3. \A v \in UiIds : Claimed(u, p)[v] = IF v # u THEN claims[v]
                                            ELSE IF p = u THEN NoProfile ELSE p
    BY <1>1 DEF Loadable, Claimed
  <2>4. QED  BY <1>1, <1>2, <2>1, <2>2, <2>3 DEF Loadable
<1>3. Loadable(names, [u \in UiIds |-> IF claims[u] = p THEN NoProfile ELSE claims[u]])
  BY <1>1 DEF Loadable
<1>4. ASSUME NEW u \in UiIds, Claim(u, p)  PROVE RecordsInv'
  <2>1. \A other \in UiIds : claims[other] # p
    BY <1>1, <1>4 DEF Claim, Range, Loadable
  <2>2. QED  BY <1>2, <1>4, <2>1, StoreKeepsRecords DEF Claim
<1>5. ASSUME NEW u \in UiIds, Link(u, p)  PROVE RecordsInv'
  BY <1>2, <1>5, StoreKeepsRecords DEF Link
<1>6. CASE RemoveProfile(p)  BY <1>3, <1>6, StoreKeepsRecords DEF RemoveProfile
<1>7. QED  BY <1>4, <1>5, <1>6

\* Whoever starts first makes the identity; the others take it.
LEMMA StarterKeepsIdentity ==
  ASSUME IdentityInv, NEW s \in Starters, LookForIdentity(s) \/ CreateIdentity(s)
  PROVE  IdentityInv'
<1>1. \A t \in Starters : (CHOOSE id \in {t} : TRUE) = t  OBVIOUS
<1>2. \/ idFile = {} /\ idFile' = {} /\ started' = [started EXCEPT ![s] = "missing"]
      \/ idFile = {} /\ idFile' = {s} /\ started' = [started EXCEPT ![s] = s]
      \/ \E t \in Starters : /\ idFile = {t} /\ idFile' = {t}
                             /\ started' = [started EXCEPT ![s] = t]
  BY <1>1 DEF IdentityInv, LookForIdentity, CreateIdentity
<1>3. CASE idFile = {} /\ idFile' = {} /\ started' = [started EXCEPT ![s] = "missing"]
  BY <1>3 DEF IdentityInv, OneIdentity
<1>4. CASE idFile = {} /\ idFile' = {s} /\ started' = [started EXCEPT ![s] = s]
  BY <1>4 DEF IdentityInv, OneIdentity
<1>5. ASSUME NEW t \in Starters, idFile = {t}, idFile' = {t},
             started' = [started EXCEPT ![s] = t]
      PROVE  IdentityInv'
  BY <1>5 DEF IdentityInv, OneIdentity
<1>6. QED  BY <1>2, <1>3, <1>4, <1>5

LEMMA UisStep == RecordsInv /\ IdentityInv /\ [UisNext]_uiVars => RecordsInv' /\ IdentityInv'
<1> SUFFICES ASSUME RecordsInv, IdentityInv, [UisNext]_uiVars
             PROVE  RecordsInv' /\ IdentityInv'
  OBVIOUS
<1>1. UNCHANGED recordVars => RecordsInv'  BY DEF recordVars, RecordsInv, Loadable
<1>2. UNCHANGED identityVars => IdentityInv'  BY DEF identityVars, IdentityInv, OneIdentity
<1>3. UisRestart => RecordsInv'  BY DEF UisRestart, RecordsInv, Loadable
<1>4. \A p \in Imported : Import(p) => RecordsInv'  BY DEF Import, RecordsInv, Loadable
<1>5. CASE UNCHANGED uiVars  BY <1>1, <1>2, <1>5 DEF uiVars
<1>6. QED
  BY <1>1, <1>2, <1>3, <1>4, <1>5, NamingKeepsRecords, ClaimingKeepsRecords, StarterKeepsIdentity
     DEF UisNext

\* For any number of UIs, imports and failed writes: the next Gateway can load the file, and
\* the processes of one installation share one identity (gateway_uis.py _load, ui_identity.py).
THEOREM UiRecordsAreSound == UisSpec => []UiRecordsSound
<1>1. UisInit => RecordsInv /\ IdentityInv
  BY DEF UisInit, RecordsInv, Loadable, IdentityInv, OneIdentity
<1>2. RecordsInv /\ IdentityInv => UiRecordsSound
  BY DEF RecordsInv, Loadable, IdentityInv, UiRecordsSound, UiFileLoads
<1>3. QED  BY <1>1, <1>2, UisStep, PTL DEF UisSpec

-----------------------------------------------------------------------------
(* The setup assistant and the command line.                               *)

\* A file that is replaced is saved first, and only the user makes edits.
LEMMA SetupStepKeepsEdits ==
  ASSUME DOMAIN file = Paths, edits \in Nat, EditsSurvive, [SetupNext]_setupVars
  PROVE  DOMAIN file' = Paths /\ edits' \in Nat /\ EditsSurvive'
<1> DEFINE Mine(n) == [by |-> "user", run |-> n, words |-> <<>>]
<1>1. CASE edits' = edits /\ saved \subseteq saved'
           /\ \/ file' = file
              \/ \E path : /\ file' = [file EXCEPT ![path] = Written(path)]
                           /\ file[path] = Nothing \/ <<path, file[path]>> \in saved'
  <2>1. DOMAIN file' = Paths  BY <1>1
  <2>2. ASSUME NEW n \in 1..edits
        PROVE  \E path \in Configuration : file'[path] = Mine(n) \/ <<path, Mine(n)>> \in saved'
    <3>1. PICK path \in Configuration : file[path] = Mine(n) \/ <<path, Mine(n)>> \in saved
      BY <2>2 DEF EditsSurvive
    <3>2. Mine(n) # Nothing
      <4>1. Mine(n).by = "user" /\ Nothing.by = "nobody"  BY DEF Nothing
      <4>2. QED  BY <4>1
    <3>3. path \in DOMAIN file  BY DEF Paths, Configuration
    <3> HIDE DEF Mine
    <3>4. QED  BY <1>1, <3>1, <3>2, <3>3
  <2>3. QED  BY <1>1, <2>1, <2>2 DEF EditsSurvive
<1>2. ASSUME NEW edited \in Configuration, Edit(edited)
      PROVE  DOMAIN file' = Paths /\ edits' \in Nat /\ EditsSurvive'
  <2>1. /\ file[edited].by = "wizard" /\ edits' = edits + 1 /\ saved' = saved
        /\ file' = [file EXCEPT ![edited] = Mine(edits + 1)]
    BY <1>2 DEF Edit
  <2>2. edited \in DOMAIN file  BY DEF Paths, Configuration
  <2>3. ASSUME NEW n \in 1..edits + 1
        PROVE  \E path \in Configuration : file'[path] = Mine(n) \/ <<path, Mine(n)>> \in saved'
    <3>1. CASE n = edits + 1  BY <2>1, <2>2, <3>1
    <3>2. CASE n # edits + 1
      <4>1. n \in 1..edits  BY <3>2
      <4>2. PICK path \in Configuration : file[path] = Mine(n) \/ <<path, Mine(n)>> \in saved
        BY <4>1 DEF EditsSurvive
      <4>3. Mine(n).by = "user"  OBVIOUS
      <4>4. file[path] = Mine(n) => path # edited
        BY <2>1, <4>3
      <4> HIDE DEF Mine
      <4>5. QED  BY <2>1, <4>2, <4>4, SMTT(30)
    <3>3. QED  BY <3>1, <3>2
  <2>4. EditsSurvive'  BY <2>1, <2>3 DEF EditsSurvive
  <2>5. QED  BY <2>1, <2>4
<1>3. QED
  BY <1>1, <1>2 DEF SetupNext, StartSetup, SetupStep, SetupFails, Keep, Write, Advance, setupVars

\* However often the assistant is run and wherever it ends: every edit of the user is in its
\* file or in a backup (README.md:39, setup_assistant.py _write_file).
THEOREM UserEditsSurvive == SetupSpec => []EditsSurvive
<1> DEFINE Kept == DOMAIN file = Paths /\ edits \in Nat /\ EditsSurvive
<1>1. SetupInit => Kept  BY DEF SetupInit, EditsSurvive
<1>2. Kept /\ [SetupNext]_setupVars => Kept'  BY SetupStepKeepsEdits
<1>3. QED  BY <1>1, <1>2, PTL DEF SetupSpec

\* What any mode and set of options are taken for, of the supervisor's child or not, is handed
\* every option about the transport there is.
LEMMA OutcomeUsesTransport ==
  ASSUME NEW mode \in Modes, NEW o, NEW child \in BOOLEAN,
         Outcome(mode, o, child) # "refused"
  PROVE  o \cap (Network \cup {"socket"}) \subseteq Handed(Outcome(mode, o, child))
<1> DEFINE out == Outcome(mode, o, child)
<1>1. CASE mode = "admin"
  BY <1>1 DEF Outcome, AdminOutcome, Handed, DeviceModes
<1>2. CASE mode # "admin" /\ "rollback-plugin" \in o
  BY <1>2 DEF Outcome, RollbackOutcome, Handed, DeviceModes
<1>3. CASE mode # "admin" /\ "rollback-plugin" \notin o /\ "replay" \in o
  BY <1>3 DEF Outcome, ReplayOutcome, Handed, DeviceModes
<1>4. CASE mode \in DeviceModes /\ "rollback-plugin" \notin o /\ "replay" \notin o
  BY <1>4 DEF Outcome, DeviceOutcome, Handed, DeviceModes
<1>5. CASE mode = "doctor" /\ "rollback-plugin" \notin o /\ "replay" \notin o
  BY <1>5 DEF Outcome, Handed, DeviceModes
<1>6. CASE mode \in {"none", "ui", "gateway"} /\ "rollback-plugin" \notin o /\ "replay" \notin o
  <2>1. out = RuntimeOutcome(mode, o, child)
    BY <1>6 DEF Outcome, DeviceModes
  <2>2. CASE "check-config" \in o
    BY <2>1, <2>2 DEF RuntimeOutcome, Handed, DeviceModes
  <2>3. CASE "check-config" \notin o /\ mode = "none"
    BY <2>1, <2>3 DEF RuntimeOutcome, TransportAllowed, Handed, DeviceModes
  <2>4. CASE "check-config" \notin o /\ mode = "ui"
    BY <2>1, <2>4
       DEF RuntimeOutcome, TransportAllowed, UiTransport, Handed, DeviceModes, Network, Listening
  <2>5. CASE "check-config" \notin o /\ mode = "gateway"
    BY <2>1, <2>5
       DEF RuntimeOutcome, TransportAllowed, GatewayTransport, Handed, DeviceModes, Network,
           Connecting
  <2>6. QED  BY <1>6, <2>2, <2>3, <2>4, <2>5
<1>7. QED  BY <1>1, <1>2, <1>3, <1>4, <1>5, <1>6 DEF Modes, DeviceModes

\* For any number of options at once: none about the transport is dropped, by the first parse
\* or by that of the supervisor's child (cli.py:388-437).
THEOREM TransportIsHanded == CliSpec => []TransportIsUsed
<1> DEFINE Used == given.mode \in Modes /\ TransportIsUsed
<1>1. CliInit => Used  BY DEF CliInit, TransportIsUsed
<1>2. Used /\ [RunCli]_cliVars => Used'
  <2> SUFFICES ASSUME Used, [RunCli]_cliVars PROVE Used'
    OBVIOUS
  <2>1. CASE RunCli
    <3>1. /\ given' = given
          /\ outcome' = Outcome(given.mode, given.options, outcome = "supervisor")
      BY <2>1 DEF RunCli
    <3>2. QED  BY <3>1, OutcomeUsesTransport DEF TransportIsUsed
  <2>2. CASE UNCHANGED cliVars  BY <2>2 DEF cliVars, TransportIsUsed
  <2>3. QED  BY <2>1, <2>2
<1>3. QED  BY <1>1, <1>2, PTL DEF CliSpec

-----------------------------------------------------------------------------
(* Plugin sources, stable and pinned.                                      *)

SourceTypeOK ==
    /\ latest \in PluginVersions /\ kept \subseteq PluginVersions
    /\ active \in kept \cup {NoVersion} /\ before \in kept \cup {NoVersion}
    /\ holder \in Processes \cup {NoProcess}
    /\ proc \in [Processes ->
         [step : ProcSteps, policy : {"auto", "notify"}, seen : PluginVersions \cup {NoVersion},
          wanted : PluginVersions \cup {NoVersion}, old : kept \cup {NoVersion}, back : BOOLEAN]]
    /\ pin \in [Processes -> PinSteps]
    /\ \A p \in Processes : proc[p].step = "install" => proc[p].wanted \in PluginVersions

\* Only the holder of the lock activates, what it activates is there, and it is not older
\* than the active release unless it was asked to go back.
ActivatesNewer ==
    \A p \in Processes :
        /\ proc[p].step \in {"switch", "point"} <=> holder = p
        /\ holder = p => /\ proc[p].wanted \in kept
                         /\ ~proc[p].back /\ active # NoVersion => active <= proc[p].wanted

\* A checkout that is being made has one maker, who knows how far it is.
OneMaker ==
    /\ \A p \in Processes :
         /\ pin[p] = "cloning" => head = "empty"
         /\ pin[p] = "fetch" => head = "default"
    /\ \A p, q \in Processes :
         pin[p] \in {"cloning", "fetch"} /\ pin[q] \in {"cloning", "fetch"} => p = q

SourcesInv == SourceTypeOK /\ ActivatesNewer /\ OneMaker /\ StartsWithWhatItHad /\ PinnedExact

\* What one process has in hand, with k the releases that are kept.
Job(k) ==
    [step : ProcSteps, policy : {"auto", "notify"}, seen : PluginVersions \cup {NoVersion},
     wanted : PluginVersions \cup {NoVersion}, old : k \cup {NoVersion}, back : BOOLEAN]

\* A step of one process keeps the invariant if it keeps to the lock.
LEMMA JobStep ==
  ASSUME SourcesInv, NEW p \in Processes, UNCHANGED <<latest, pinned>>,
         kept \subseteq kept', kept' \subseteq PluginVersions,
         active' \in kept' \cup {NoVersion}, before' \in kept' \cup {NoVersion},
         NEW j \in Job(kept'), proc' = [proc EXCEPT ![p] = j],
         j.step = "failed" /\ j.seen \in Compatible => j.wanted < j.seen,
         j.step = "install" => j.wanted \in PluginVersions,
         IF j.step \in {"switch", "point"}
         THEN /\ holder' = p /\ holder \in {p, NoProcess} /\ j.wanted \in kept'
              /\ ~j.back /\ active' # NoVersion => active' <= j.wanted
         ELSE holder' = IF holder = p THEN NoProcess ELSE holder,
         active' = active \/ holder = p
  PROVE  SourcesInv'
<1>1. /\ proc \in [Processes -> Job(kept)] /\ SourceTypeOK /\ ActivatesNewer
      /\ NoProcess \notin Processes
  BY PluginSourceAssumption DEF SourcesInv, SourceTypeOK, Job
<1>2. \A q \in Processes : proc'[q] = IF q = p THEN j ELSE proc[q]  BY <1>1
<1>3. Job(kept) \subseteq Job(kept')  BY DEF Job
<1>4. SourceTypeOK'
  <2>1. proc' \in [Processes -> Job(kept')]  BY <1>1, <1>3
  <2>2. holder' \in Processes \cup {NoProcess}  BY <1>1 DEF SourceTypeOK
  <2>3. QED  BY <1>1, <1>2, <2>1, <2>2 DEF SourceTypeOK, Job, pinned
<1>5. ActivatesNewer'
  <2> SUFFICES ASSUME NEW q \in Processes
               PROVE  /\ proc'[q].step \in {"switch", "point"} <=> holder' = q
                      /\ holder' = q => /\ proc'[q].wanted \in kept'
                                        /\ ~proc'[q].back /\ active' # NoVersion =>
                                             active' <= proc'[q].wanted
    BY DEF ActivatesNewer
  <2>1. CASE q = p  BY <1>1, <1>2, <2>1
  <2>2. CASE q # p  BY <1>1, <1>2, <2>2 DEF ActivatesNewer
  <2>3. QED  BY <2>1, <2>2
<1>6. StartsWithWhatItHad'  BY <1>2 DEF SourcesInv, StartsWithWhatItHad
<1>7. OneMaker' /\ PinnedExact'  BY DEF SourcesInv, OneMaker, PinnedExact, pinned
<1>8. QED  BY <1>4, <1>5, <1>6, <1>7 DEF SourcesInv

\* Without the lock, a process changes nothing but itself.
LEMMA UnlockedKeepsSources ==
  ASSUME SourcesInv, NEW p \in Processes,
         \/ \E policy \in {"auto", "notify"} : StartSource(p, policy)
         \/ FetchFails(p) \/ Fetch(p) \/ InstallFails(p) \/ LeaveStable(p)
  PROVE  SourcesInv'
<1>1. /\ UNCHANGED <<latest, kept, active, before, holder, pinned>>
      /\ proc[p].step \notin {"switch", "point"} /\ holder # p
  BY DEF SourcesInv, ActivatesNewer, StartSource, FetchFails, Fetch, InstallFails, LeaveStable
<1>2. proc \in [Processes -> Job(kept)] /\ latest \in PluginVersions /\ proc[p] \in Job(kept)
      /\ active \in PluginVersions \cup {NoVersion}
  BY DEF SourcesInv, SourceTypeOK, Job
<1>3. \E j \in Job(kept) : /\ proc' = [proc EXCEPT ![p] = j]
                           /\ j.step \in ProcSteps \ {"switch", "point"}
                           /\ j.step = "failed" /\ j.seen \in Compatible => j.wanted < j.seen
                           /\ j.step = "install" => j.wanted \in PluginVersions
  <2>1. CASE \E policy \in {"auto", "notify"} : StartSource(p, policy)
    <3>1. PICK policy \in {"auto", "notify"} : StartSource(p, policy)  BY <2>1
    <3>2. [Resting EXCEPT !.step = "fetch", !.policy = policy, !.seen = active] \in Job(kept)
      BY <1>2 DEF Resting, Job, ProcSteps
    <3>3. [Resting EXCEPT !.step = "fetch", !.policy = policy, !.seen = active].step = "fetch"
      BY DEF Resting
    <3>4. QED  BY <3>1, <3>2, <3>3 DEF StartSource, ProcSteps
  <2>2. CASE FetchFails(p) \/ InstallFails(p) \/ (Fetch(p) /\ latest \notin Compatible)
    <3>1. Fallback(p)  BY <2>2 DEF FetchFails, InstallFails, Fetch
    <3> DEFINE j == [proc[p] EXCEPT !.step = IF proc[p].seen \in Compatible THEN "loaded" ELSE "failed"]
    <3>2. proc' = [proc EXCEPT ![p] = j]  BY <1>2, <3>1 DEF Fallback, Move
    <3>3. j \in Job(kept) /\ j.seen = proc[p].seen
          /\ j.step = IF proc[p].seen \in Compatible THEN "loaded" ELSE "failed"
      BY <1>2 DEF Job, ProcSteps
    <3> HIDE DEF j
    <3>4. QED  BY <3>2, <3>3 DEF Job, ProcSteps
  <2>3. CASE Fetch(p) /\ latest \in Compatible
    <3> DEFINE seen == proc[p].seen
               step == IF seen # NoVersion /\ (latest <= seen \/ proc[p].policy = "notify")
                       THEN IF latest >= seen /\ seen \in Compatible THEN "loaded" ELSE "failed"
                       ELSE "install"
               j == [proc[p] EXCEPT !.wanted = latest, !.step = step]
    <3>1. proc' = [proc EXCEPT ![p] = j]  BY <1>2, <2>3 DEF Fetch
    <3>2. step \in {"loaded", "failed", "install"}  OBVIOUS
    <3>3. step = "failed" /\ seen \in Compatible => latest < seen
      <4>1. SUFFICES ASSUME step = "failed", seen \in Compatible  PROVE latest < seen
        OBVIOUS
      <4>2. latest \in Nat /\ seen \in Nat  BY <1>2, <4>1, PluginSourceAssumption
      <4>3. ~(latest >= seen)  BY <4>1
      <4> HIDE DEF step, seen
      <4>4. QED  BY <4>2, <4>3
    <3> HIDE DEF step
    <3>4. j \in Job(kept) /\ j.step = step /\ j.seen = seen /\ j.wanted = latest
      BY <1>2, <3>2 DEF Job, ProcSteps
    <3> HIDE DEF j, seen
    <3>5. QED  BY <1>2, <3>1, <3>2, <3>3, <3>4 DEF Job, ProcSteps
  <2>4. CASE LeaveStable(p)
    <3>1. Resting \in Job(kept) /\ Resting.step = "idle"  BY DEF Resting, Job, ProcSteps
    <3>2. QED  BY <2>4, <3>1 DEF LeaveStable, ProcSteps
  <2>5. QED  BY <2>1, <2>2, <2>3, <2>4
<1>4. PICK j \in Job(kept) : /\ proc' = [proc EXCEPT ![p] = j]
                             /\ j.step \in ProcSteps \ {"switch", "point"}
                             /\ j.step = "failed" /\ j.seen \in Compatible => j.wanted < j.seen
                             /\ j.step = "install" => j.wanted \in PluginVersions
  BY <1>3
<1>5. /\ UNCHANGED <<kept, active, before>> /\ kept \subseteq PluginVersions
      /\ active \in kept \cup {NoVersion} /\ before \in kept \cup {NoVersion}
  BY <1>1 DEF SourcesInv, SourceTypeOK
<1>6. j \in Job(kept')  BY <1>4, <1>5
<1>7. UNCHANGED <<latest, kept, active, before, holder, pinned>> /\ holder # p  BY <1>1
<1>8. j.step \notin {"switch", "point"}  BY <1>4
<1>9. holder' = IF holder = p THEN NoProcess ELSE holder  BY <1>7
<1>10. UNCHANGED <<latest, pinned>> /\ kept \subseteq kept'  BY <1>7
<1>11. kept' \subseteq PluginVersions /\ active' = active
  BY <1>5
<1>12. active' \in kept' \cup {NoVersion} /\ before' \in kept' \cup {NoVersion}  BY <1>5
<1>13. IF j.step \in {"switch", "point"}
       THEN /\ holder' = p /\ holder \in {p, NoProcess} /\ j.wanted \in kept'
            /\ ~j.back /\ active' # NoVersion => active' <= j.wanted
       ELSE holder' = IF holder = p THEN NoProcess ELSE holder
  BY <1>8, <1>9
<1>14. QED  BY <1>4, <1>6, <1>10, <1>11, <1>12, <1>13, JobStep

\* The steps of the process that has the lock, or takes it.
LEMMA LockedKeepsSources ==
  ASSUME SourcesInv, NEW p \in Processes,
         \/ Install(p) \/ RollbackPlugin(p) \/ SwitchPrevious(p) \/ SwitchCurrent(p)
         \/ SwitchFails(p) \/ PerishStable(p)
  PROVE  SourcesInv'
<1>1. /\ proc \in [Processes -> Job(kept)] /\ proc[p] \in Job(kept) /\ ActivatesNewer
      /\ latest \in PluginVersions /\ kept \subseteq PluginVersions
      /\ active \in kept \cup {NoVersion} /\ before \in kept \cup {NoVersion}
      /\ PluginVersions \subseteq Nat /\ Compatible \subseteq PluginVersions
      /\ NoVersion \notin PluginVersions /\ NoProcess \notin Processes
  BY PluginSourceAssumption DEF SourcesInv, SourceTypeOK, Job
<1>2. CASE Install(p)
  <2> DEFINE v == proc[p].wanted
             j == [proc[p] EXCEPT !.step = "switch"]
  <2>1. v \in PluginVersions
    BY <1>2 DEF SourcesInv, SourceTypeOK, Install
  <2>2. kept' = kept \cup {v} /\ j \in Job(kept') /\ j.wanted = v /\ j.step = "switch"
    BY <1>1, <1>2 DEF Install, Job, ProcSteps
  <2>3. proc' = [proc EXCEPT ![p] = j]  BY <1>1, <1>2 DEF Install, Move
  <2>4. active' # NoVersion => active' <= v  BY <1>1, <1>2 DEF Install
  <2>5. /\ UNCHANGED <<latest, pinned, active, before>> /\ holder = NoProcess /\ holder' = p
        /\ v \in kept' /\ kept \subseteq kept' /\ kept' \subseteq PluginVersions
    BY <1>1, <1>2, <2>1 DEF Install
  <2> HIDE DEF j, v
  <2>6. QED  BY <1>1, <2>2, <2>3, <2>4, <2>5, JobStep
<1>3. CASE RollbackPlugin(p)
  <2> DEFINE j == [Resting EXCEPT !.step = "switch", !.seen = active, !.wanted = before, !.back = TRUE]
  <2>1. /\ j \in Job(kept) /\ j.step = "switch" /\ j.wanted = before /\ j.back = TRUE
    BY <1>1 DEF Resting, Job, ProcSteps
  <2>2. /\ proc' = [proc EXCEPT ![p] = j] /\ holder = NoProcess /\ holder' = p
        /\ UNCHANGED <<latest, pinned, kept, active, before>> /\ before \in kept
    BY <1>1, <1>3 DEF RollbackPlugin
  <2> HIDE DEF j
  <2>3. QED  BY <1>1, <2>1, <2>2, JobStep
<1>4. CASE SwitchPrevious(p) /\ active = proc[p].wanted
  <2> DEFINE j == [proc[p] EXCEPT !.step = "loaded", !.seen = active]
  <2>1. j \in Job(kept) /\ j.step = "loaded"  BY <1>1 DEF Job, ProcSteps
  <2>2. /\ proc' = [proc EXCEPT ![p] = j] /\ holder' = IF holder = p THEN NoProcess ELSE holder
        /\ UNCHANGED <<latest, pinned, kept, active, before>>
    BY <1>1, <1>4 DEF SwitchPrevious, Loads, Unlock
  <2> HIDE DEF j
  <2>3. QED  BY <1>1, <2>1, <2>2, JobStep
<1>5. CASE SwitchPrevious(p) /\ active # proc[p].wanted
  <2> DEFINE j == [proc[p] EXCEPT !.step = "point", !.old = before]
  <2>1. /\ j \in Job(kept) /\ j.step = "point" /\ j.wanted = proc[p].wanted
        /\ j.back = proc[p].back
    BY <1>1 DEF Job, ProcSteps
  <2>2. /\ proc' = [proc EXCEPT ![p] = j] /\ holder = p /\ holder' = holder
        /\ UNCHANGED <<latest, pinned, kept, active>> /\ before' \in {before, active}
    BY <1>1, <1>5 DEF SwitchPrevious, ActivatesNewer
  <2>3. proc[p].wanted \in kept /\ (~proc[p].back /\ active # NoVersion => active <= proc[p].wanted)
    BY <1>1, <2>2 DEF ActivatesNewer
  <2> HIDE DEF j
  <2>4. QED  BY <1>1, <2>1, <2>2, <2>3, JobStep
<1>6. CASE SwitchCurrent(p)
  <2> DEFINE j == [proc[p] EXCEPT !.step = "loaded", !.seen = proc[p].wanted]
  <2>1. j \in Job(kept) /\ j.step = "loaded"  BY <1>1 DEF Job, ProcSteps
  <2>2. /\ proc' = [proc EXCEPT ![p] = j] /\ holder = p /\ holder' = NoProcess
        /\ UNCHANGED <<latest, pinned, kept, before>> /\ active' = proc[p].wanted
    BY <1>1, <1>6 DEF SwitchCurrent, Loads, Unlock, ActivatesNewer
  <2>3. proc[p].wanted \in kept  BY <1>1, <2>2 DEF ActivatesNewer
  <2> HIDE DEF j
  <2>4. QED  BY <1>1, <2>1, <2>2, <2>3, JobStep
<1>7. CASE SwitchFails(p)
  <2> DEFINE j == [proc[p] EXCEPT !.step = IF proc[p].seen \in Compatible THEN "loaded" ELSE "failed"]
  <2>1. /\ j \in Job(kept) /\ j.seen = proc[p].seen
        /\ j.step = IF proc[p].seen \in Compatible THEN "loaded" ELSE "failed"
    BY <1>1 DEF Job, ProcSteps
  <2>2. /\ proc' = [proc EXCEPT ![p] = j] /\ holder' = IF holder = p THEN NoProcess ELSE holder
        /\ UNCHANGED <<latest, pinned, kept, active>> /\ before' \in {before, proc[p].old}
        /\ proc[p].old \in kept \cup {NoVersion}
    BY <1>1, <1>7 DEF SwitchFails, Fallback, Move, Unlock, Job
  <2> HIDE DEF j
  <2>3. QED  BY <1>1, <2>1, <2>2, JobStep
<1>8. CASE PerishStable(p)
  <2>1. Resting \in Job(kept) /\ Resting.step = "idle"  BY DEF Resting, Job, ProcSteps
  <2>2. QED  BY <1>1, <1>8, <2>1, JobStep DEF PerishStable, Unlock
<1>9. QED  BY <1>2, <1>3, <1>4, <1>5, <1>6, <1>7, <1>8

\* The steps of a pinned checkout.
LEMMA PinnedKeepsSources ==
  ASSUME SourcesInv, PinnedNext
  PROVE  SourcesInv'
<1>1. PICK p \in Processes :
        Look(p) \/ StartClone(p) \/ EndClone(p) \/ FetchCommit(p) \/ LeavePinned(p)
        \/ PerishPinned(p)
  BY DEF PinnedNext
<1>2. UNCHANGED stable
  BY <1>1 DEF Look, StartClone, EndClone, FetchCommit, LeavePinned, PerishPinned
<1>3. ActivatesNewer' /\ StartsWithWhatItHad'
  BY <1>2 DEF stable, SourcesInv, ActivatesNewer, StartsWithWhatItHad
<1>4. pin \in [Processes -> PinSteps]  BY DEF SourcesInv, SourceTypeOK
<1>5. pin' \in [Processes -> PinSteps] /\ OneMaker' /\ PinnedExact'
  <2> USE <1>4 DEF SourcesInv, OneMaker, PinnedExact, PinSteps
  <2>1. CASE Look(p)  BY <2>1 DEF Look
  <2>2. CASE StartClone(p)  BY <2>2 DEF StartClone
  <2>3. CASE EndClone(p)  BY <2>3 DEF EndClone
  <2>4. CASE FetchCommit(p)  BY <2>4 DEF FetchCommit
  <2>5. CASE LeavePinned(p)  BY <2>5 DEF LeavePinned
  <2>6. CASE PerishPinned(p)  BY <2>6 DEF PerishPinned
  <2>7. QED  BY <1>1, <2>1, <2>2, <2>3, <2>4, <2>5, <2>6
<1>6. SourceTypeOK'  BY <1>2, <1>5 DEF stable, SourcesInv, SourceTypeOK
<1>7. QED  BY <1>3, <1>5, <1>6 DEF SourcesInv

LEMMA SourcesStep == SourcesInv /\ [PluginsNext]_pluginVars => SourcesInv'
<1> SUFFICES ASSUME SourcesInv, [PluginsNext]_pluginVars PROVE SourcesInv'
  OBVIOUS
<1>1. CASE Publish
  <2>1. /\ latest' \in PluginVersions
        /\ UNCHANGED <<kept, active, before, holder, proc, pinned>>
    BY <1>1 DEF Publish
  <2>2. QED
    BY <2>1 DEF SourcesInv, SourceTypeOK, ActivatesNewer, OneMaker, StartsWithWhatItHad,
                PinnedExact, pinned
<1>2. CASE UNCHANGED pluginVars
  BY <1>2 DEF pluginVars, stable, SourcesInv, SourceTypeOK, ActivatesNewer, OneMaker,
              StartsWithWhatItHad, PinnedExact, pinned
<1>3. QED
  BY <1>1, <1>2, UnlockedKeepsSources, LockedKeepsSources, PinnedKeepsSources
     DEF PluginsNext, StableNext

LEMMA SourcesInit == PluginsInit => SourcesInv
<1> SUFFICES ASSUME PluginsInit PROVE SourcesInv
  OBVIOUS
<1>1. Resting \in Job({}) /\ Resting.step = "idle"  BY DEF Resting, Job, ProcSteps
<1>2. SourceTypeOK
  BY <1>1 DEF PluginsInit, SourceTypeOK, Job, PinSteps
<1>3. QED
  BY <1>1, <1>2, PluginSourceAssumption
     DEF PluginsInit, SourcesInv, ActivatesNewer, OneMaker, StartsWithWhatItHad, PinnedExact

\* For any number of processes, versions and failures: who had a compatible plugin keeps one,
\* and pinned code runs at its commit (plugin_sources.py:204-306).
THEOREM SourcesAreSound == PluginsSpec => []SourcesSound
<1>1. SourcesInv => SourcesSound  BY DEF SourcesInv, SourcesSound
<1>2. QED  BY <1>1, SourcesInit, SourcesStep, PTL DEF PluginsSpec

\* The active release of a plugin goes back only when somebody asked for that
\* (plugin_releases.py:790).
THEOREM PluginsNeverOlder == PluginsSpec => NeverOlder
<1> DEFINE Back == active # NoVersion /\ active' < active =>
                     \E p \in Processes : holder = p /\ proc[p].back
<1>1. SourcesInv /\ [PluginsNext]_pluginVars => [Back]_pluginVars
  <2> SUFFICES ASSUME SourcesInv, PluginsNext, active # NoVersion, active' < active
               PROVE  \E p \in Processes : holder = p /\ proc[p].back
    OBVIOUS
  <2>1. active \in Nat
    BY PluginSourceAssumption DEF SourcesInv, SourceTypeOK
  <2>2. active' # active  BY <2>1
  <2>3. PICK p \in Processes : SwitchCurrent(p)
    BY <2>2 DEF PluginsNext, StableNext, PinnedNext, Publish, StartSource, FetchFails, Fetch,
         Install, InstallFails, RollbackPlugin, SwitchPrevious, SwitchFails, LeaveStable,
         PerishStable, Look, StartClone, EndClone, FetchCommit, LeavePinned, PerishPinned, stable
  <2>4. /\ holder = p /\ active' = proc[p].wanted /\ proc[p].wanted \in kept
        /\ ~proc[p].back => active <= proc[p].wanted
    BY <2>3 DEF SourcesInv, ActivatesNewer, SwitchCurrent
  <2>5. active' \in Nat
    BY <2>4, PluginSourceAssumption DEF SourcesInv, SourceTypeOK
  <2>6. QED  BY <2>1, <2>4, <2>5
<1>2. QED  BY <1>1, SourcesInit, SourcesStep, PTL DEF PluginsSpec, NeverOlder
-----------------------------------------------------------------------------
(* The composition of MCComponents.                                        *)

\* Side by side, the components still follow their own specifications.
LEMMA PartsFollowTheirSpecs ==
  ComponentsSpec => WebSpec /\ UisSpec /\ InstSpec /\ PluginsSpec /\ ChecksSpec /\ SetupSpec
<1>1. ComponentsInit => /\ WebInit /\ UisInit /\ InstInit /\ PluginsInit
                        /\ ChecksInit /\ SetupInit
  BY DEF ComponentsInit
<1>2. [ComponentsNext]_componentVars =>
        /\ [WebNext]_webVars /\ [UisNext]_uiVars /\ [InstNext]_instVars
        /\ [PluginsNext]_pluginVars /\ [ChecksNext]_checkVars /\ [SetupNext]_setupVars
  BY DEF ComponentsNext, componentVars, PluginsNext, restOfWeb, restOfUis, restOfInstallations,
         restOfSources, restOfChecks, restOfCommandLine, restOfSetup
<1>3. QED
  BY <1>1, <1>2, PTL
     DEF ComponentsSpec, WebSpec, UisSpec, InstSpec, PluginsSpec, ChecksSpec, SetupSpec

\* Neither TFR nor a plugin goes back to an older version, except by a rollback
\* (installer.py, plugin_releases.py).
THEOREM NothingIsDowngraded == ComponentsSpec => VersionsOnlyGrow
  BY PartsFollowTheirSpecs, NoneIsOlder, PluginsNeverOlder, PTL DEF VersionsOnlyGrow
=============================================================================
