--------------------------- MODULE MCEventHistory ---------------------------
(* An instance of EventHistory for TLC: two worlds with different          *)
(* retention, three classes of which two cost two bytes, a native UI (all  *)
(* history), an administrative client (none) and browsers (capped by world,*)
(* total and bytes).  A behaviour belongs to one of two parts, chosen at   *)
(* the start: in "feed" a UI subscribes while the gag policy changes for   *)
(* one class, in "snapshot" more events of several generations are         *)
(* retained and dropped.  Every resume of every request is evaluated in    *)
(* every state of both, so "snapshot" needs no subscribers.                *)
EXTENDS EventHistory

CONSTANTS lobby, garden, line, notice, chatter

VARIABLE part

MCWorlds == {lobby, garden}
MCClasses == {line, notice, chatter}
FeedClasses == {line, chatter}
MCLimit == [w \in MCWorlds |-> IF w = lobby THEN 1 ELSE 2]
MCSourceBytes == [k \in Classes |-> IF k = line THEN 1 ELSE 2]

NativeUi == [worlds |-> MCWorlds, classes |-> Classes, includeHistory |-> TRUE,
             maximum |-> None, perWorld |-> None, bytes |-> None]
AdminClient == [NativeUi EXCEPT !.includeHistory = FALSE]
Browser == [worlds |-> {garden}, classes |-> {line}, includeHistory |-> TRUE,
            maximum |-> 2, perWorld |-> 2, bytes |-> 2]
SmallBrowser == [NativeUi EXCEPT !.maximum = 2, !.perWorld = 1, !.bytes = 2]

FeedRequests == {NativeUi, Browser}
MCRequests == {NativeUi, AdminClient, Browser, SmallBrowser}
MCGags == {{}, {chatter}}
-----------------------------------------------------------------------------
MaxFeedEvents == 3

FeedNext ==
  /\ part = "feed"
  /\ \/ /\ Len(log) + Len(ingress) < MaxFeedEvents
        /\ \E w \in Worlds, k \in FeedClasses :
             Publish([world |-> w, generation |-> 0, class |-> k])
     \/ Pump
     \/ \E s \in Subscribers, r \in FeedRequests, after \in (0 .. Cursor) \cup {None} :
          Subscribe(s, r, after)
     \/ \E s \in Subscribers : Take(s) \/ Unsubscribe(s)
     \/ \E hidden \in GagSettings : ManageGag(hidden)
     \/ StopJoin
     \/ StopClose

SnapshotNext ==
  /\ part = "snapshot"
  /\ (\E e \in Event : Publish(e)) \/ Pump

MCInit ==
  /\ Init
  /\ part \in {"feed", "snapshot"}
  /\ part = "snapshot" => gag = {chatter}

MCNext == (FeedNext \/ SnapshotNext) /\ UNCHANGED part

MCSpec ==
  /\ MCInit
  /\ [][MCNext]_<<vars, part>>
  /\ WF_<<vars, part>>(Pump /\ UNCHANGED part)
  /\ \A s \in Subscribers : WF_<<vars, part>>(Take(s) /\ UNCHANGED part)
=============================================================================
