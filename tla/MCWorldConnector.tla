-------------------------- MODULE MCWorldConnector --------------------------
(* Instances of WorldConnector for TLC: two worlds whose frames have size 1 *)
(* or 2, so that a frame can fill its world's share (2) and two worlds     *)
(* compete for the global limit (3), and two connections, so that a        *)
(* restarted Gateway meets the task of its predecessor's connection.       *)
EXTENDS WorldConnector

CONSTANTS lobby, garden, c1, c2

MCWorlds == {lobby, garden}
MCConnections == {c1, c2}
=============================================================================
