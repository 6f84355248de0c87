------------------------------ MODULE EventFeed ------------------------------
(***************************************************************************)
(* What the Gateway promises to a UI, without connections, queues and      *)
(* snapshots: the UI displays the numbered events of one Gateway process   *)
(* in order and once each, and an event it does not display is one it      *)
(* reported as missing.  A UI that turns to another Gateway process starts *)
(* over.                                                                   *)
(***************************************************************************)
EXTENDS Integers, Sequences, SequencesExt

VARIABLES
  published,   (* the newest cursor of the process the UI is attached to     *)
  displayed,   (* the cursors displayed, oldest first                        *)
  reported     (* the cursors reported as missing                            *)

feed == <<published, displayed, reported>>

Init == published = 0 /\ displayed = <<>> /\ reported = {}

Publish == published' = published + 1 /\ UNCHANGED <<displayed, reported>>

(* Everything before a displayed event was displayed or reported.          *)
Display(c) ==
  /\ \A d \in ToSet(displayed) : d < c
  /\ (1 .. c - 1) \subseteq ToSet(displayed) \cup reported
  /\ displayed' = Append(displayed, c)
  /\ UNCHANGED <<published, reported>>

Report(missing) ==
  /\ missing \cap ToSet(displayed) = {}
  /\ reported' = reported \cup missing
  /\ UNCHANGED <<published, displayed>>

(* The process is gone, with the events it had not delivered yet.          *)
GatewayGone == published' \in 0 .. published /\ UNCHANGED <<displayed, reported>>

(* The UI turns to a process it knows nothing of: what it is shown begins  *)
(* with the history that process still has.                                *)
StartOver ==
  /\ published' \in Nat
  /\ displayed' = <<>>
  /\ reported' \subseteq 1 .. published'

Next ==
  \/ Publish
  \/ \E c \in 1 .. published : Display(c)
  \/ \E missing \in SUBSET (1 .. published) : Report(missing)
  \/ GatewayGone
  \/ StartOver

Spec == Init /\ [][Next]_feed
=============================================================================
