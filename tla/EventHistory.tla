---------------------------- MODULE EventHistory ----------------------------
(***************************************************************************)
(* The Gateway's event history (class EventHistory of gateway.py).  World  *)
(* sessions publish events on the Gateway's EventBus.  A bounded ingress   *)
(* queue hands them to one pump task, which numbers each event with a      *)
(* cursor, keeps the newest events of every world, and copies the event to *)
(* the queue of every subscribed UI.  A subscription is a snapshot of the  *)
(* retained history and a queue of the events after it.                    *)
(*                                                                         *)
(* An item (cursor, event) is represented by its cursor, which is an index *)
(* of the history variable `log'.  Event text is abstracted to the event's *)
(* class, the (kind, actor type) pair that the gag policy and the          *)
(* subscribers' filters can tell apart.  The body of the pump and of       *)
(* subscribe run under the history's lock without an await, so each is one *)
(* step.                                                                   *)
(***************************************************************************)
EXTENDS Integers, Sequences, FiniteSets, FiniteSetsExt, SequencesExt

CONSTANTS
  Worlds,               (* the configured worlds                             *)
  Classes,              (* the event classes                                 *)
  Generations,          (* connection generations, 0 before the first one    *)
  Subscribers,          (* identities of subscriptions                       *)
  Requests,             (* the arguments with which UIs subscribe            *)
  Limit,                (* retained events of each world                     *)
  IngressQueueSize,
  SubscriberQueueSize,
  SourceBytes,          (* estimated snapshot bytes of an event of a class   *)
  None,                 (* Python's None                                     *)
  GagSettings,          (* the sets of classes an administrator may hide     *)
  MaxEvents             (* bound: events published in a behaviour            *)

Event == [world : Worlds, generation : Generations, class : Classes]

(* The keyword arguments of subscribe, except for the resume cursor.        *)
Request == [worlds : SUBSET Worlds, classes : SUBSET Classes,
            includeHistory : BOOLEAN, maximum : Nat \cup {None},
            perWorld : Nat \cup {None}, bytes : Nat \cup {None}]

ASSUME HistoryAssumption ==
  /\ Generations \subseteq Nat
  /\ Limit \in [Worlds -> Nat \ {0}]
  /\ IngressQueueSize \in Nat \ {0}
  /\ SubscriberQueueSize \in Nat \ {0}
  /\ SourceBytes \in [Classes -> Nat]
  /\ None \notin Int
  /\ Requests \subseteq Request
  /\ GagSettings \subseteq SUBSET Classes
  /\ MaxEvents \in Nat

VARIABLES
  ingress,           (* the queue between the bus and the pump               *)
  log,               (* every event the pump numbered: log[c] has cursor c   *)
  shown,             (* cursors of the events not gagged when pumped         *)
  history,           (* per world, the cursors still retained, oldest first  *)
  counts,            (* per world, its newest generation and class counts    *)
  droppedThrough,    (* newest cursor dropped from any world                 *)
  genDropped,        (* per world, newest generation dropped from, with the  *)
                     (* newest cursor dropped of each class                  *)
  gag,               (* the classes the gag policy hides                     *)
  sub,               (* the request and snapshot of each subscription        *)
  status,            (* "open" subscriptions are those in _subscribers       *)
  queue,             (* the queue of each subscription                       *)
  received,          (* what each subscriber took from its queue             *)
  phase              (* running, draining in stop(), stopped                 *)

retention == <<history, counts, droppedThrough, genDropped>>
feeds == <<sub, status, queue, received>>
vars == <<ingress, log, shown, retention, gag, feeds, phase>>

Cursor == Len(log)
Retained(w) == ToSet(history[w])
Visible(c) == log[c].class \notin gag
Key(c) == <<log[c].world, log[c].generation>>
-----------------------------------------------------------------------------
(* Snapshots.                                                              *)

Within(n, bound) == bound = None \/ n <= bound
After(c, after) == after = None \/ c > after

(* The retained events a request selects from.                             *)
Candidates(r, after) ==
  {c \in UNION {Retained(w) : w \in r.worlds} :
     Visible(c) /\ log[c].class \in r.classes /\ After(c, after)}

(* The sum of n over S.                                                    *)
Sum(n, S) == Cardinality(UNION {{x} \X (1 .. n[x]) : x \in S})

Bytes(S) == Sum([c \in S |-> SourceBytes[log[c].class]], S)

(* The newest candidates of each world up to its cap and, walking back     *)
(* from the newest, as many of these as the total and the bytes allow.     *)
Selected(r, after) ==
  LET S == Candidates(r, after)
      Newer(c, T) == {d \in T : d >= c}
      SameWorld(c) == {d \in S : log[d].world = log[c].world}
      capped == {c \in S : Within(Cardinality(Newer(c, SameWorld(c))), r.perWorld)}
  IN  {c \in capped :
         /\ r.includeHistory
         /\ Within(Cardinality(Newer(c, capped)), r.maximum)
         /\ r.perWorld # None => Within(Bytes(Newer(c, capped)), r.bytes)}

(* The worlds and generations of which a resumed UI misses an event.       *)
AfterCursorGaps(r, after) ==
  IF after = None THEN {}
  ELSE {Key(c) : c \in Candidates(r, after) \ Selected(r, after)} \cup
       {<<w, genDropped[w].generation>> :
          w \in {v \in r.worlds : \E k \in r.classes : genDropped[v].cursor[k] > after}}

Truncated(r, after) ==
  /\ r.includeHistory
  /\ \/ Candidates(r, after) # Selected(r, after)
     \/ after # None /\ after < droppedThrough

AvailableCount(r, w) == Sum(counts[w].n, r.classes)

(* Seeded fault: the live feed starts at the newest event of the snapshot. *)
SubscribedFromSnapshot(r, after) ==
  [request |-> r, after |-> after, events |-> Selected(r, after),
   cursor |-> IF Selected(r, after) = {} THEN 0 ELSE Max(Selected(r, after))]

Subscribed(r, after) ==
  [request |-> r, after |-> after, cursor |-> Cursor, events |-> Selected(r, after)]
-----------------------------------------------------------------------------
(* The pump.                                                               *)

(* A newer generation of the world starts new counts; an event of an older *)
(* one is not counted.                                                     *)
Count(e, projected) ==
  LET fresh == e.generation > counts[e.world].generation
      base == IF fresh THEN [k \in Classes |-> 0] ELSE counts[e.world].n
      newest == IF fresh THEN e.generation ELSE counts[e.world].generation
  IN  counts' = [counts EXCEPT ![e.world] =
        [generation |-> newest,
         n |-> IF projected /\ e.generation = newest
               THEN [base EXCEPT ![e.class] = @ + 1] ELSE base]]

(* Seeded fault: the drop marks stay with the generation that came first.  *)
DropFirstGeneration(c) ==
  LET w == log[c].world
      g == log[c].generation
  IN  /\ droppedThrough' = c
      /\ genDropped' =
           IF genDropped[w].generation \notin {-1, g} THEN genDropped
           ELSE [genDropped EXCEPT ![w].generation = g, ![w].cursor[log[c].class] = c]

(* Dropping a visible event moves the drop marks past it; dropping one of  *)
(* a newer generation forgets the marks of the older one.                  *)
Drop(c) ==
  LET w == log[c].world
      g == log[c].generation
      fresh == g > genDropped[w].generation
      base == IF fresh THEN [k \in Classes |-> 0] ELSE genDropped[w].cursor
  IN  IF Visible(c)
      THEN /\ droppedThrough' = IF c > droppedThrough THEN c ELSE droppedThrough
           /\ genDropped' =
                IF g < genDropped[w].generation THEN genDropped
                ELSE [genDropped EXCEPT ![w] =
                        [generation |-> g, cursor |-> [base EXCEPT ![log[c].class] = c]]]
      ELSE UNCHANGED <<droppedThrough, genDropped>>

Retain(e) ==
  LET w == e.world
      full == Len(history[w]) = Limit[w]
      kept == IF full THEN Tail(history[w]) ELSE history[w]
  IN  /\ history' = [history EXCEPT ![w] = Append(kept, Cursor + 1)]
      /\ IF full THEN Drop(Head(history[w])) ELSE UNCHANGED <<droppedThrough, genDropped>>

Matches(s, e) == e.world \in sub[s].request.worlds /\ e.class \in sub[s].request.classes

(* Seeded fault: a closed subscription is emptied but not told.            *)
DeliverUntold(e) ==
  LET due == {s \in Subscribers : status[s] = "open" /\ Matches(s, e)}
      slow == {s \in due : Len(queue[s]) = SubscriberQueueSize}
  IN  /\ queue' = [s \in Subscribers |->
                     CASE s \in slow -> <<>>
                       [] s \in due \ slow -> Append(queue[s], Cursor + 1)
                       [] OTHER -> queue[s]]
      /\ status' = [s \in Subscribers |-> IF s \in slow THEN "closed" ELSE status[s]]

(* Subscribers whose queue is full are closed: their queue is replaced by  *)
(* the None that tells the sender to disconnect the UI.                    *)
Deliver(e) ==
  LET due == {s \in Subscribers : status[s] = "open" /\ Matches(s, e)}
      slow == {s \in due : Len(queue[s]) = SubscriberQueueSize}
  IN  /\ queue' = [s \in Subscribers |->
                     CASE s \in slow -> <<None>>
                       [] s \in due \ slow -> Append(queue[s], Cursor + 1)
                       [] OTHER -> queue[s]]
      /\ status' = [s \in Subscribers |-> IF s \in slow THEN "closed" ELSE status[s]]

Pump ==
  /\ phase # "stopped"
  /\ ingress # <<>>
  /\ LET e == Head(ingress)
         projected == e.class \notin gag
     IN  /\ ingress' = Tail(ingress)
         /\ log' = Append(log, e)
         /\ Count(e, projected)
         /\ Retain(e)
         /\ IF projected
            THEN shown' = shown \cup {Cursor + 1} /\ Deliver(e)
            ELSE UNCHANGED <<shown, queue, status>>
  /\ UNCHANGED <<gag, sub, received, phase>>
-----------------------------------------------------------------------------
(* EventBus.publish: with the backpressure of the history's queue, the     *)
(* publisher waits while the queue is full.                                *)
Publish(e) ==
  /\ phase # "stopped"
  /\ Len(ingress) < IngressQueueSize
  /\ Len(log) + Len(ingress) < MaxEvents
  /\ ingress' = Append(ingress, e)
  /\ UNCHANGED <<log, shown, retention, gag, feeds, phase>>

(* A cursor outside 0 .. Cursor is refused.                                *)
Subscribe(s, r, after) ==
  /\ status[s] = "unused"
  /\ after # None => after \in 0 .. Cursor
  /\ sub' = [sub EXCEPT ![s] = Subscribed(r, after)]
  /\ status' = [status EXCEPT ![s] = "open"]
  /\ UNCHANGED <<ingress, log, shown, retention, gag, queue, received, phase>>

(* The sender task of a UI takes an item; None ends the connection.        *)
Take(s) ==
  /\ status[s] \in {"open", "closed"}
  /\ queue[s] # <<>>
  /\ queue' = [queue EXCEPT ![s] = Tail(@)]
  /\ IF Head(queue[s]) = None
     THEN status' = [status EXCEPT ![s] = "told"] /\ UNCHANGED received
     ELSE received' = [received EXCEPT ![s] = Append(@, Head(queue[s]))] /\ UNCHANGED status
  /\ UNCHANGED <<ingress, log, shown, retention, gag, sub, phase>>

(* The connection of a UI ends for another reason.                         *)
Unsubscribe(s) ==
  /\ status[s] \in {"open", "closed"}
  /\ status' = [status EXCEPT ![s] = "gone"]
  /\ UNCHANGED <<ingress, log, shown, retention, gag, sub, queue, received, phase>>

(* An administrator replaces the gag patterns of the running Gateway.      *)
ManageGag(hidden) ==
  /\ gag # hidden
  /\ gag' = hidden
  /\ UNCHANGED <<ingress, log, shown, retention, feeds, phase>>

(* stop() waits until the pump is done with the ingress queue ...          *)
StopJoin ==
  /\ phase = "running"
  /\ ingress = <<>>
  /\ phase' = "draining"
  /\ UNCHANGED <<ingress, log, shown, retention, gag, feeds>>

(* ... and then cancels the pump and closes every subscription; what was   *)
(* published in between is lost with the queue.                            *)
StopClose ==
  /\ phase = "draining"
  /\ phase' = "stopped"
  /\ ingress' = <<>>
  /\ queue' = [s \in Subscribers |-> IF status[s] = "open" THEN <<None>> ELSE queue[s]]
  /\ status' = [s \in Subscribers |-> IF status[s] = "open" THEN "closed" ELSE status[s]]
  /\ UNCHANGED <<log, shown, retention, gag, sub, received>>
-----------------------------------------------------------------------------
Unmarked == [generation |-> -1, cursor |-> [k \in Classes |-> 0]]
NoSnapshot == [request |-> None, after |-> None, cursor |-> 0, events |-> {}]

Init ==
  /\ ingress = <<>>
  /\ log = <<>>
  /\ shown = {}
  /\ history = [w \in Worlds |-> <<>>]
  /\ counts = [w \in Worlds |-> [generation |-> -1, n |-> [k \in Classes |-> 0]]]
  /\ droppedThrough = 0
  /\ genDropped = [w \in Worlds |-> Unmarked]
  /\ gag \in GagSettings
  /\ sub = [s \in Subscribers |-> NoSnapshot]
  /\ status = [s \in Subscribers |-> "unused"]
  /\ queue = [s \in Subscribers |-> <<>>]
  /\ received = [s \in Subscribers |-> <<>>]
  /\ phase = "running"

Next ==
  \/ \E e \in Event : Publish(e)
  \/ Pump
  \/ \E s \in Subscribers, r \in Requests, after \in (0 .. Cursor) \cup {None} :
       Subscribe(s, r, after)
  \/ \E s \in Subscribers : Take(s) \/ Unsubscribe(s)
  \/ \E hidden \in GagSettings : ManageGag(hidden)
  \/ StopJoin
  \/ StopClose

(* The event loop runs the pump task and every sender task whose queue has *)
(* an item.                                                                *)
Fairness == WF_vars(Pump) /\ \A s \in Subscribers : WF_vars(Take(s))

Spec == Init /\ [][Next]_vars /\ Fairness
-----------------------------------------------------------------------------
TypeOK ==
  /\ ingress \in Seq(Event)
  /\ log \in Seq(Event)
  /\ shown \subseteq 1 .. Cursor
  /\ history \in [Worlds -> Seq(1 .. Cursor)]
  /\ counts \in [Worlds -> [generation : Generations \cup {-1}, n : [Classes -> Nat]]]
  /\ droppedThrough \in 0 .. Cursor
  /\ genDropped \in
       [Worlds -> [generation : Generations \cup {-1}, cursor : [Classes -> 0 .. Cursor]]]
  /\ gag \in GagSettings
  /\ sub \in [Subscribers -> [request : Requests \cup {None}, after : Nat \cup {None},
                              cursor : 0 .. Cursor, events : SUBSET (1 .. Cursor)]]
  /\ status \in [Subscribers -> {"unused", "open", "closed", "told", "gone"}]
  /\ queue \in [Subscribers -> Seq((1 .. Cursor) \cup {None})]
  /\ received \in [Subscribers -> Seq(1 .. Cursor)]
  /\ phase \in {"running", "draining", "stopped"}

(* What a subscription promises after its snapshot: every event that was   *)
(* not gagged when pumped, of the requested worlds and classes.            *)
Feed(s) == {c \in shown : c > sub[s].cursor /\ Matches(s, log[c])}

Ascending(q) == \A i, j \in DOMAIN q : i < j => q[i] < q[j]

(* While a subscription is open, what its UI took and what waits in its    *)
(* queue are exactly the events of the feed, once each and in cursor order *)
(* (the pump, subscribe and the overflow path together): no event falls    *)
(* between the snapshot and the live queue or is queued twice.             *)
FeedExact ==
  \A s \in Subscribers : status[s] = "open" =>
    LET stream == received[s] \o queue[s]
    IN  Ascending(stream) /\ ToSet(stream) = Feed(s)

(* Whatever happens to a subscription (overflow, stop, disconnection), its *)
(* UI was given a prefix of the feed: it can resume from its last cursor   *)
(* without having missed an earlier event.                                 *)
FeedPrefix ==
  \A s \in Subscribers :
    /\ Ascending(received[s])
    /\ \A i \in DOMAIN received[s] :
         /\ received[s][i] \in Feed(s)
         /\ \A c \in Feed(s) : c < received[s][i] =>
              \E j \in DOMAIN received[s] : received[s][j] = c

(* A subscription taken off the pump's list is never left hanging: the     *)
(* None that disconnects its UI is the only item of its queue, and an open *)
(* one holds no None.                                                      *)
ClosedIsTold ==
  \A s \in Subscribers :
    /\ status[s] = "closed" => queue[s] = <<None>>
    /\ status[s] = "open" => \A i \in DOMAIN queue[s] : queue[s][i] # None

(* The classes that no change of the gag policy hides or shows again: all  *)
(* classes where there is one policy.                                      *)
Steady == {k \in Classes : \A g, h \in GagSettings : k \in g <=> k \in h}

Wanted(r, after) ==
  {c \in shown : /\ After(c, after) /\ Visible(c) /\ log[c].class \in Steady
                 /\ log[c].world \in r.worlds /\ log[c].class \in r.classes}

(* The snapshot of a resumed UI that is not flagged as truncated holds     *)
(* every event after its cursor that it may see (the drop marks of the     *)
(* pump and the truncation flag of subscribe agree).                       *)
TruncationReported ==
  \A r \in Requests, after \in 0 .. Cursor :
    r.includeHistory /\ ~Truncated(r, after) => Wanted(r, after) \subseteq Selected(r, after)

(* A resumed UI that misses an event of the newest generation of a world   *)
(* finds the pair in after_cursor_gaps, even when the newest event was     *)
(* dropped, when generations alternate, and for any class filter.          *)
GapsReported ==
  \A r \in Requests, after \in 0 .. Cursor :
    \A c \in Wanted(r, after) \ Selected(r, after) :
      log[c].generation = counts[log[c].world].generation
        => Key(c) \in AfterCursorGaps(r, after)

(* The available count shown beside a snapshot is the number of ungagged   *)
(* events of the world's newest generation since the Gateway started,      *)
(* whatever was dropped and in whatever order generations arrived.         *)
CountsExact ==
  \A r \in Requests : \A w \in r.worlds :
    AvailableCount(r, w) =
      Cardinality({c \in shown : /\ log[c].world = w /\ log[c].class \in r.classes
                                 /\ \A d \in 1 .. Cursor : log[d].world = w =>
                                      log[d].generation <= log[c].generation})

(* The byte budget, the total and the per-world cap cut a snapshot from    *)
(* its old end only: with an event, a snapshot holds every newer candidate *)
(* of the event's world.                                                   *)
SnapshotIsSuffix ==
  \A r \in Requests, after \in (0 .. Cursor) \cup {None} :
    \A c \in Selected(r, after), d \in Candidates(r, after) :
      d > c /\ log[d].world = log[c].world => d \in Selected(r, after)

(* A snapshot says what it is: one that is not flagged as truncated is     *)
(* complete, a missing event of the newest generation is in                *)
(* after_cursor_gaps, both for classes that the gag policy treats alike    *)
(* throughout; the available counts are exact, and the caps cut a snapshot *)
(* from its old end only.                                                  *)
SnapshotReports == TruncationReported /\ GapsReported /\ CountsExact /\ SnapshotIsSuffix

(* Every event of the feed of an open subscription reaches its UI, or the  *)
(* UI is told that its stream ended.                                       *)
FeedReachesUi ==
  \A s \in Subscribers, c \in 1 .. MaxEvents :
    (status[s] = "open" /\ c \in Feed(s))
      ~> (c \in ToSet(received[s]) \/ status[s] \in {"told", "gone"})
=============
