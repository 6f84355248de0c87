---------------------------- MODULE CommandLine ----------------------------
(* The command line of tfr: which program a mode and a set of options start, *)
(* or that they are refused.  An option is present or absent; its value      *)
(* matters to the program only.                                              *)
EXTENDS Naturals, FiniteSetsExt

CONSTANT MaxOptions     \* bound: options given at once

Modes == {"none", "ui", "gateway", "doctor", "admin", "pair", "devices", "revoke-device"}
Listening == {"listen-host", "listen-port", "tls-cert", "tls-key"}
Connecting == {"gateway-host", "gateway-port", "tls-ca", "tls-server-name"}
Network == Listening \cup Connecting \cup {"token-file"}
Options == Network \cup {"restart-gateway", "check-config", "replay", "socket", "device-name",
                         "device-id", "gateway", "rollback-plugin", "profile"}

\* Administration of a running Gateway: "admin restart-gateway".
AdminOutcome(o) ==
    IF "restart-gateway" \in o /\ o \cap (Network \cup {"check-config", "replay"}) = {}
    THEN "restart-gateway" ELSE "refused"

RollbackOutcome(mode, o) ==
    IF mode = "none" /\ o \cap (Network \cup {"check-config", "replay", "socket",
                                              "device-name", "device-id"}) = {}
    THEN "rollback" ELSE "refused"

ReplayOutcome(mode, o) ==
    IF mode = "none" /\ o \cap (Network \cup {"check-config", "socket",
                                              "device-name", "device-id"}) = {}
    THEN "replay" ELSE "refused"

DeviceModes == {"pair", "devices", "revoke-device"}
DeviceOutcome(mode, o) ==
    IF /\ o \cap (Network \cup {"check-config"}) = {}
       /\ "device-name" \in o <=> mode = "pair"
       /\ "device-id" \in o <=> mode = "revoke-device"
       /\ "gateway" \in o => mode = "pair"
    THEN mode ELSE "refused"

\* The transport options a UI, a Gateway or a standalone client may be given.
UiTransport(o) ==
    /\ o \cap Listening = {}
    /\ IF "gateway-host" \in o THEN "socket" \notin o /\ "token-file" \in o
       ELSE o \cap (Connecting \cup {"token-file"}) = {}

\* Seeded fault: the options of the network listener are not refused alone.
GatewayTransportLoose(o) ==
    /\ o \cap Connecting = {}
    /\ "listen-host" \in o => {"token-file", "tls-cert", "tls-key"} \subseteq o

GatewayTransport(o) ==
    /\ o \cap Connecting = {}
    /\ IF "listen-host" \in o THEN {"token-file", "tls-cert", "tls-key"} \subseteq o
       ELSE o \cap (Listening \cup {"token-file"}) = {}

TransportAllowed(mode, o) ==
    /\ mode = "ui" => UiTransport(o)
    /\ mode = "gateway" => GatewayTransport(o)
    /\ mode = "none" => o \cap Network = {}

\* A UI, the Gateway's supervisor, the Gateway (its child) or the standalone
\* client, once no administrative mode applied.
RuntimeOutcome(mode, o, child) ==
    IF "check-config" \in o
    THEN IF o \cap (Network \cup {"socket"}) = {} THEN "check" ELSE "refused"
    ELSE IF ~TransportAllowed(mode, o) \/ (mode = "none" /\ "socket" \in o) THEN "refused"
    ELSE IF mode = "none" THEN "standalone"
    ELSE IF mode = "ui" THEN IF "gateway-host" \in o THEN "remote-ui" ELSE "local-ui"
    ELSE IF ~child THEN "supervisor"
    ELSE IF "listen-host" \in o THEN "network-gateway" ELSE "gateway"

\* The checks in their order: what a mixture of options is taken for.
Outcome(mode, o, child) ==
    IF "profile" \in o /\ mode # "doctor" THEN "refused"
    ELSE IF mode = "admin" THEN AdminOutcome(o)
    ELSE IF "restart-gateway" \in o THEN "refused"
    ELSE IF "rollback-plugin" \in o THEN RollbackOutcome(mode, o)
    ELSE IF "replay" \in o THEN ReplayOutcome(mode, o)
    ELSE IF mode \in DeviceModes THEN DeviceOutcome(mode, o)
    ELSE IF {"device-name", "device-id"} \cap o # {} THEN "refused"
    ELSE IF mode = "doctor" THEN IF "profile" \in o THEN "doctor" ELSE "refused"
    ELSE RuntimeOutcome(mode, o, child)

\* The transport options the started program is handed.
Handed(outcome) ==
    CASE outcome \in {"doctor", "supervisor"} -> Network \cup {"socket"}
      [] outcome = "remote-ui" -> Connecting \cup {"token-file"}
      [] outcome = "network-gateway" -> Listening \cup {"token-file", "socket"}
      [] outcome \in DeviceModes \cup {"restart-gateway", "local-ui", "gateway"} -> {"socket"}
      [] OTHER -> {}

-----------------------------------------------------------------------------
(* One command line is parsed and run; the supervisor starts its child with *)
(* the same words.                                                          *)
VARIABLES given, outcome
cliVars == <<given, outcome>>

CliInit ==
    /\ given \in [mode : Modes, options : UNION {kSubset(n, Options) : n \in 0..MaxOptions}]
    /\ outcome = "none"
RunCli ==
    /\ outcome \in {"none", "supervisor"}
    /\ outcome' = Outcome(given.mode, given.options, outcome = "supervisor")
    /\ UNCHANGED given
CliSpec == CliInit /\ [][RunCli]_cliVars

\* No program is started on another transport than the command line asks for:
\* an option for a listener, a remote Gateway or a socket is handed over or
\* the command line is refused (cli.py:388-437).
TransportIsUsed ==
    outcome \notin {"none", "refused"} =>
        given.options \cap (Network \cup {"socket"}) \subseteq Handed(outcome)
=============================================================================
