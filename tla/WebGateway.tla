----------------------------- MODULE WebGateway -----------------------------
(***************************************************************************)
(* WebGatewayServer: the WebSocket connections of paired browsers, their   *)
(* limits, revocation while connections come and go, and the transfer of a *)
(* pasted text, one per device, by a task of its own.  A handler is cut    *)
(* into steps where it awaits; _session_lock is held within a step only.   *)
(***************************************************************************)
EXTENDS GatewayDevices

CONSTANTS Sockets,         \* bound: connections at a time
          NoSocket,
          MaxClients,      \* MAX_WEB_CLIENTS
          MaxPerDevice,    \* MAX_WEB_CLIENTS_PER_DEVICE
          PipelinedCancel  \* the browser stops a transfer right after starting it, so that
                           \* both requests are read before the transfer's task has run

ASSUME WebAssumption ==
    IsFiniteSet(Sockets) /\ NoSocket \notin Sockets
    /\ MaxClients \in Nat /\ MaxPerDevice \in Nat /\ PipelinedCancel \in BOOLEAN

VARIABLES
    conn,        \* per socket, the handler: "idle", "reserved", "subscribed", "marked", "open",
                 \* "announcing" (it tells of a transfer), "leaving", "left"
    owner,       \* the device of its session
    counts,      \* _connection_counts
    registered,  \* sockets in _active_sockets
    closed,      \* sockets that are closed
    revoking,    \* per device: revoke_device is idle, at its "pastes" or its "sockets"
    captured,    \* the sockets revoke_device found
    slot,        \* _paste_transfers: the socket of a device's transfer
    task         \* per socket, the task of its transfer: "none", "created" or "running"

connVars == <<conn, owner, counts, registered, closed>>
revokeVars == <<revoking, captured>>
pasteVars == <<slot, task>>
webVars == <<deviceVars, connVars, revokeVars, pasteVars>>

AllDevices(value) == [d \in Devices |-> value]
AllSockets(value) == [s \in Sockets |-> value]

WebInit ==
    /\ DevicesInit
    /\ conn = AllSockets("idle") /\ owner = AllSockets(NoDevice)
    /\ counts = AllDevices(0) /\ registered = {} /\ closed = {}
    /\ revoking = AllDevices("idle") /\ captured = AllDevices({})
    /\ slot = AllDevices(NoSocket) /\ task = AllSockets("none")

Goes(s, state) == conn' = [conn EXCEPT ![s] = state]
Total == LET sum[S \in SUBSET Devices] ==
               IF S = {} THEN 0 ELSE LET d == CHOOSE x \in S : TRUE IN counts[d] + sum[S \ {d}]
         IN sum[Devices]

-----------------------------------------------------------------------------
(* A connection *)

\* the session is authenticated again under the lock, then the limits are checked
Reserve(s, d) ==
    /\ conn[s] = "idle" /\ Valid(d)
    /\ Total < MaxClients /\ counts[d] < MaxPerDevice
    /\ Goes(s, "reserved")
    /\ owner' = [owner EXCEPT ![s] = d]
    /\ counts' = [counts EXCEPT ![d] = @ + 1]
    /\ closed' = closed \ {s}
    /\ UNCHANGED <<deviceVars, registered, revokeVars, pasteVars>>

Release(s) ==
    /\ Goes(s, "idle")
    /\ owner' = [owner EXCEPT ![s] = NoDevice]
    /\ counts' = [counts EXCEPT ![owner[s]] = IF @ > 0 THEN @ - 1 ELSE 0]

\* the history refuses a cursor it does not know
Subscribe(s) ==
    /\ conn[s] = "reserved"
    /\ \/ Goes(s, "subscribed") /\ UNCHANGED <<owner, counts>>
       \/ Release(s)
    /\ UNCHANGED <<deviceVars, registered, closed, revokeVars, pasteVars>>

\* The record is renewed outside of the try statement: when that fails neither the
\* subscription nor the reservation is given back.
Mark(s) ==
    /\ conn[s] = "subscribed"
    /\ \/ MarkUsed(owner[s]) /\ Goes(s, "marked") /\ UNCHANGED owner
       \/ MarkUsedFails(owner[s]) /\ Goes(s, "idle") /\ owner' = [owner EXCEPT ![s] = NoDevice]
    /\ UNCHANGED <<counts, registered, closed, revokeVars, pasteVars>>

\* socket.prepare, which may fail, and the registration
Register(s) ==
    /\ conn[s] = "marked"
    /\ \/ /\ Valid(owner[s])
          /\ Goes(s, "open") /\ registered' = registered \cup {s}
          /\ UNCHANGED closed
       \/ /\ Goes(s, "leaving") /\ closed' = closed \cup {s}
          /\ UNCHANGED registered
    /\ UNCHANGED <<deviceVars, owner, counts, revokeVars, pasteVars>>

Live(s) == conn[s] \in {"open", "announcing"}

\* The browser goes away, is too slow, or its socket was closed; or the next message to it
\* or from it finds its session over (_send_if_active, _receive_requests).
Disconnect(s) ==
    /\ Live(s)
    /\ Goes(s, "leaving") /\ closed' = closed \cup {s}
    /\ UNCHANGED <<deviceVars, owner, counts, registered, revokeVars, pasteVars>>

-----------------------------------------------------------------------------
(* Transfers *)

StartPaste(s) ==
    /\ conn[s] = "open" /\ s \notin closed
    /\ Valid(owner[s]) /\ slot[owner[s]] = NoSocket
    /\ slot' = [slot EXCEPT ![owner[s]] = s]
    /\ Goes(s, "announcing")
    /\ UNCHANGED <<deviceVars, owner, counts, registered, closed, revokeVars, task>>

\* paste_started was written and the task is created, also when somebody has taken the
\* transfer back meanwhile
Announced(s) ==
    /\ conn[s] = "announcing"
    /\ Goes(s, "open")
    /\ task' = [task EXCEPT ![s] = "created"]
    /\ UNCHANGED <<deviceVars, owner, counts, registered, closed, revokeVars, slot>>

RunPaste(s) ==
    /\ task[s] = "created"
    /\ task' = [task EXCEPT ![s] = "running"]
    /\ UNCHANGED <<deviceVars, connVars, revokeVars, slot>>

FreeSlot(s) == slot' = [d \in Devices |-> IF slot[d] = s THEN NoSocket ELSE slot[d]]

\* The last line was sent, or a line was not accepted, or _paste_status has a reason to stop.
EndPaste(s) ==
    /\ task[s] = "running"
    /\ task' = [task EXCEPT ![s] = "none"]
    /\ FreeSlot(s)
    /\ UNCHANGED <<deviceVars, connVars, revokeVars>>

\* _cancel_paste of the transfer of device d.  A task that is cancelled before its first
\* step never reaches the statement that frees the slot.
CancelPaste(d) ==
    LET s == slot[d] IN
    IF s = NoSocket THEN UNCHANGED pasteVars
    ELSE /\ task' = [task EXCEPT ![s] = "none"]
         /\ IF task[s] = "created" THEN UNCHANGED slot ELSE FreeSlot(s)

UserStopsPaste(s) ==
    /\ conn[s] = "open" /\ s \notin closed /\ slot[owner[s]] = s
    /\ task[s] = "created" => PipelinedCancel
    /\ CancelPaste(owner[s])
    /\ UNCHANGED <<deviceVars, connVars, revokeVars>>

\* Seeded fault: only a transfer with a task is cancelled when its connection ends.
LeaveAnnounced(s) ==
    /\ conn[s] = "leaving" /\ task[s] # "created"
    /\ Goes(s, "left")
    /\ IF slot[owner[s]] = s /\ task[s] # "none" THEN CancelPaste(owner[s]) ELSE UNCHANGED pasteVars
    /\ UNCHANGED <<deviceVars, owner, counts, registered, closed, revokeVars>>

\* The end of the handler, in two steps.  Its wait for the two tasks lets a task that was
\* created before run first.
Leave(s) ==
    /\ conn[s] = "leaving" /\ task[s] # "created"
    /\ Goes(s, "left")
    /\ IF slot[owner[s]] = s THEN CancelPaste(owner[s]) ELSE UNCHANGED pasteVars
    /\ UNCHANGED <<deviceVars, owner, counts, registered, closed, revokeVars>>
Left(s) ==
    /\ conn[s] = "left"
    /\ registered' = registered \ {s}
    /\ Release(s)
    /\ UNCHANGED <<deviceVars, closed, revokeVars, pasteVars>>

-----------------------------------------------------------------------------
(* Revocation, restart, and the requests without a socket *)

RevokeDevice(d) ==
    /\ revoking[d] = "idle"
    /\ Revoke(d)
    /\ revoking' = [revoking EXCEPT ![d] = "pastes"]
    /\ captured' = [captured EXCEPT ![d] = {s \in registered : owner[s] = d}]
    /\ UNCHANGED <<connVars, pasteVars>>
RevokePastes(d) ==
    /\ revoking[d] = "pastes"
    /\ revoking' = [revoking EXCEPT ![d] = "sockets"]
    /\ CancelPaste(d)
    /\ UNCHANGED <<deviceVars, connVars, captured>>
RevokeSockets(d) ==
    /\ revoking[d] = "sockets"
    /\ closed' = closed \cup captured[d]
    /\ revoking' = [revoking EXCEPT ![d] = "idle"]
    /\ captured' = [captured EXCEPT ![d] = {}]
    /\ UNCHANGED <<deviceVars, conn, owner, counts, registered, pasteVars>>

WebRestart ==
    /\ DevicesRestart
    /\ conn' = AllSockets("idle") /\ owner' = AllSockets(NoDevice)
    /\ counts' = AllDevices(0) /\ registered' = {} /\ closed' = {}
    /\ revoking' = AllDevices("idle") /\ captured' = AllDevices({})
    /\ slot' = AllDevices(NoSocket) /\ task' = AllSockets("none")

DeviceRequest ==
    /\ \/ \E c \in Codes : CreatePairing(c) \/ Redeem(c) \/ CodeExpires(c)
       \/ \E d \in Devices :
            RevokeFails(d) \/ TimePasses(d)
            \/ (Valid(d) /\ (MarkUsed(d) \/ MarkUsedFails(d)))
    /\ UNCHANGED <<connVars, revokeVars, pasteVars>>

WebNext ==
    \/ DeviceRequest \/ WebRestart
    \/ \E d \in Devices :
         \/ RevokeDevice(d) \/ RevokePastes(d) \/ RevokeSockets(d)
         \/ \E s \in Sockets : Reserve(s, d)
    \/ \E s \in Sockets :
         \/ Subscribe(s) \/ Mark(s) \/ Register(s) \/ Disconnect(s) \/ Leave(s) \/ Left(s)
         \/ StartPaste(s) \/ Announced(s) \/ RunPaste(s) \/ EndPaste(s) \/ UserStopsPaste(s)

WebSpec == WebInit /\ [][WebNext]_webVars

-----------------------------------------------------------------------------
(* Properties *)

\* A connection that came up while its device was being revoked does not outlive the
\* revocation: it is closed, or about to be ("Revocation invalidates the credential and
\* closes any active PWA socket", README.md:635; gateway_web.py _websocket, revoke_device).
RevokedAreClosed ==
    \A s \in registered \ closed : memory[owner[s]] # "absent" \/ s \in captured[owner[s]]

\* A device whose transfer is over can start another one: the slot is taken only while the
\* transfer is announced or its task runs ("The progress sheet can stop an active
\* transfer", README.md:658; gateway_web.py _start_paste, _cancel_paste).
PasteSlotFreed ==
    \A d \in Devices : slot[d] # NoSocket /\ memory[d] # "absent" =>
        task[slot[d]] # "none" \/ conn[slot[d]] \in {"announcing", "leaving"}

\* The paired devices as a whole (pairing, revocation and the live sockets together): a
\* code pairs one device, a revoked credential stays refused, also after failed saves, and
\* holds no socket.
DevicesSound == OneCredentialPerCode /\ RevokedForGood /\ RevokedAreClosed
=============================================================================
