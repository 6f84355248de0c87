--------------------------- MODULE MCWorldCommands ---------------------------
(* Instances of WorldCommands for TLC.                                     *)
EXTENDS WorldCommands
=============================================================================
