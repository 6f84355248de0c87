------------------------- MODULE EventHistoryProofs -------------------------
(***************************************************************************)
(* Type correctness of EventHistory, the exactness of its feeds and what a *)
(* resumed UI is told of the events it misses, for every choice of the     *)
(* constants.                                                              *)
(***************************************************************************)
EXTENDS EventHistory, FiniteSetTheorems, SequenceTheorems, TLAPS

USE HistoryAssumption

(* A queue of the feeds widens its type when the log grows.                *)
LEMMA SeqWidens ==
  ASSUME NEW S, NEW T, S \subseteq T, NEW q \in Seq(S)
  PROVE  q \in Seq(T)
  BY SeqMonotonic

LEMMA InitTypeOK == Init => TypeOK
  <1> SUFFICES ASSUME Init PROVE TypeOK
    OBVIOUS
  <1>1. Cursor = 0 /\ 0 .. Cursor = {0} /\ droppedThrough = 0 /\ shown = {}
    BY DEF Init, Cursor
  <1>2. ingress \in Seq(Event) /\ log \in Seq(Event)
    BY EmptySeq DEF Init
  <1>3. history \in [Worlds -> Seq(1 .. Cursor)] /\ received \in [Subscribers -> Seq(1 .. Cursor)]
    BY EmptySeq DEF Init
  <1>4. queue \in [Subscribers -> Seq((1 .. Cursor) \cup {None})]
    BY EmptySeq DEF Init
  <1>5. counts \in [Worlds -> [generation : Generations \cup {-1}, n : [Classes -> Nat]]]
    BY DEF Init
  <1>6. genDropped \in
          [Worlds -> [generation : Generations \cup {-1}, cursor : [Classes -> 0 .. Cursor]]]
    BY <1>1 DEF Init, Unmarked
  <1>7. sub \in [Subscribers -> [request : Requests \cup {None}, after : Nat \cup {None},
                                cursor : 0 .. Cursor, events : SUBSET (1 .. Cursor)]]
    BY <1>1 DEF Init, NoSnapshot
  <1>8. /\ gag \in GagSettings /\ phase \in {"running", "draining", "stopped"}
        /\ status \in [Subscribers -> {"unused", "open", "closed", "told", "gone"}]
    BY DEF Init
  <1> QED
    BY <1>1, <1>2, <1>3, <1>4, <1>5, <1>6, <1>7, <1>8 DEF TypeOK

(* The parts of the pump, each from the type invariant.                    *)
LEMMA CountType ==
  ASSUME TypeOK, NEW e \in Event, NEW projected \in BOOLEAN, Count(e, projected)
  PROVE  counts' \in [Worlds -> [generation : Generations \cup {-1}, n : [Classes -> Nat]]]
  <1> DEFINE w == e.world
             fresh == e.generation > counts[w].generation
             base == IF fresh THEN [k \in Classes |-> 0] ELSE counts[w].n
             newest == IF fresh THEN e.generation ELSE counts[w].generation
             n == IF projected /\ e.generation = newest
                  THEN [base EXCEPT ![e.class] = @ + 1] ELSE base
  <1>1. /\ counts \in [Worlds -> [generation : Generations \cup {-1}, n : [Classes -> Nat]]]
        /\ w \in Worlds /\ e.class \in Classes /\ e.generation \in Generations
    BY DEF TypeOK, Event
  <1>2. base \in [Classes -> Nat] /\ newest \in Generations \cup {-1}
    BY <1>1
  <1>3. n \in [Classes -> Nat]
    BY <1>1, <1>2
  <1>4. counts' = [counts EXCEPT ![w] = [generation |-> newest, n |-> n]]
    BY DEF Count
  <1> HIDE DEF w, n, newest
  <1> QED
    BY <1>1, <1>2, <1>3, <1>4

LEMMA RetainType ==
  ASSUME TypeOK, NEW e \in Event, log' = Append(log, e), Retain(e)
  PROVE  /\ history' \in [Worlds -> Seq(1 .. Cursor')]
         /\ droppedThrough' \in 0 .. Cursor'
         /\ genDropped' \in
              [Worlds -> [generation : Generations \cup {-1}, cursor : [Classes -> 0 .. Cursor']]]
  <1>1. Cursor' = Cursor + 1 /\ Cursor \in Nat
    BY AppendProperties DEF TypeOK, Cursor
  <1> DEFINE w == e.world
             kept == IF Len(history[w]) = Limit[w] THEN Tail(history[w]) ELSE history[w]
  <1>2. history[w] \in Seq(1 .. Cursor) /\ w \in Worlds /\ Limit[w] # 0
    BY DEF TypeOK, Event
  <1>3. Len(history[w]) = Limit[w] => history[w] # <<>> /\ Head(history[w]) \in 1 .. Cursor
    BY <1>2, EmptySeq, HeadTailProperties
  <1>4. kept \in Seq(1 .. Cursor)
    BY <1>2, <1>3, HeadTailProperties
  <1>5. Append(kept, Cursor + 1) \in Seq(1 .. Cursor')
    BY <1>1, <1>4, AppendProperties, SeqWidens, 1 .. Cursor \subseteq 1 .. Cursor'
  <1>6. \A v \in Worlds : history[v] \in Seq(1 .. Cursor')
    BY <1>1, SeqWidens, 1 .. Cursor \subseteq 1 .. Cursor' DEF TypeOK
  <1>7. history' \in [Worlds -> Seq(1 .. Cursor')]
    BY <1>5, <1>6 DEF TypeOK, Retain
  <1>8. ASSUME NEW c \in 1 .. Cursor, Drop(c)
        PROVE  /\ droppedThrough' \in 0 .. Cursor
               /\ genDropped' \in
                    [Worlds -> [generation : Generations \cup {-1}, cursor : [Classes -> 0 .. Cursor]]]
    <2>1. log[c] \in Event
      BY <1>8, ElementOfSeq DEF TypeOK, Cursor
    <2> DEFINE v == log[c].world
               g == log[c].generation
               k == log[c].class
               Marks == [generation : Generations \cup {-1}, cursor : [Classes -> 0 .. Cursor]]
               zero == [j \in Classes |-> 0]
               base == IF g > genDropped[v].generation THEN zero ELSE genDropped[v].cursor
               mark == [generation |-> g, cursor |-> [base EXCEPT ![k] = c]]
    <2>2. v \in Worlds /\ g \in Generations /\ k \in Classes
      BY <2>1 DEF Event
    <2>3. genDropped \in [Worlds -> Marks] /\ droppedThrough \in 0 .. Cursor
      BY DEF TypeOK
    <2>4. genDropped' = genDropped \/ genDropped' = [genDropped EXCEPT ![v] = mark]
      BY <1>8 DEF Drop
    <2>5. mark \in Marks
      <3>1. zero \in [Classes -> 0 .. Cursor]
        BY <1>1
      <3>2. genDropped[v].cursor \in [Classes -> 0 .. Cursor]
        BY <2>2, <2>3
      <3> HIDE DEF v, g, k, zero
      <3>3. base \in [Classes -> 0 .. Cursor]
        BY <3>1, <3>2
      <3> HIDE DEF base
      <3>4. [base EXCEPT ![k] = c] \in [Classes -> 0 .. Cursor]
        BY <2>2, <3>3, <1>1
      <3> QED
        BY <2>2, <3>4
    <2>6. genDropped' \in [Worlds -> Marks]
      <3> HIDE DEF mark, Marks, v
      <3> QED
        BY <2>2, <2>3, <2>4, <2>5
    <2>7. droppedThrough' \in 0 .. Cursor
      BY <1>8, <1>1, <2>3 DEF Drop
    <2> QED
      BY <2>6, <2>7
  <1>9. /\ droppedThrough' \in 0 .. Cursor
        /\ genDropped' \in
             [Worlds -> [generation : Generations \cup {-1}, cursor : [Classes -> 0 .. Cursor]]]
    BY <1>3, <1>8 DEF TypeOK, Retain
  <1> QED
    BY <1>1, <1>7, <1>9

LEMMA DeliverType ==
  ASSUME TypeOK, NEW e \in Event, log' = Append(log, e), Deliver(e)
  PROVE  /\ status' \in [Subscribers -> {"unused", "open", "closed", "told", "gone"}]
         /\ queue' \in [Subscribers -> Seq((1 .. Cursor') \cup {None})]
  <1>1. Cursor' = Cursor + 1 /\ Cursor \in Nat
    BY AppendProperties DEF TypeOK, Cursor
  <1>2. status' \in [Subscribers -> {"unused", "open", "closed", "told", "gone"}]
    BY DEF TypeOK, Deliver
  <1> DEFINE Item == (1 .. Cursor') \cup {None}
  <1>3. \A s \in Subscribers : queue[s] \in Seq(Item)
    BY <1>1, SeqWidens, (1 .. Cursor) \cup {None} \subseteq Item DEF TypeOK
  <1>4. <<None>> \in Seq(Item)
    OBVIOUS
  <1>5. \A s \in Subscribers : Append(queue[s], Cursor + 1) \in Seq(Item)
    BY <1>1, <1>3, AppendProperties
  <1>6. /\ \A s \in Subscribers : queue'[s] \in {<<None>>, Append(queue[s], Cursor + 1), queue[s]}
        /\ queue' = [s \in Subscribers |-> queue'[s]]
    BY DEF Deliver
  <1>7. queue' \in [Subscribers -> Seq(Item)]
    <2> HIDE DEF Item
    <2> QED
      BY <1>3, <1>4, <1>5, <1>6
  <1> QED
    BY <1>2, <1>7

LEMMA SelectedRetained ==
  ASSUME TypeOK, NEW r \in Requests, NEW after \in (0 .. Cursor) \cup {None}
  PROVE  Selected(r, after) \subseteq 1 .. Cursor
  <1>1. Selected(r, after) \subseteq Candidates(r, after)
    BY DEF Selected
  <1>2. r.worlds \subseteq Worlds
    BY DEF Request
  <1>3. \A w \in Worlds : Retained(w) \subseteq 1 .. Cursor
    <2>1. \A w \in Worlds : history[w] \in Seq(1 .. Cursor)
      BY DEF TypeOK
    <2>2. ASSUME NEW w \in Worlds, NEW i \in DOMAIN history[w]
          PROVE  history[w][i] \in 1 .. Cursor
      <3> DEFINE q == history[w]
      <3>1. q \in Seq(1 .. Cursor)
        BY <2>1
      <3> HIDE DEF q
      <3>2. DOMAIN q = 1 .. Len(q)
        BY <3>1, LenProperties
      <3> QED
        BY <2>2, <3>1, <3>2, ElementOfSeq DEF q
    <2> QED
      BY <2>2 DEF Retained, ToSet
  <1> QED
    BY <1>1, <1>2, <1>3 DEF Candidates

(* Every action preserves the types.                                       *)
LEMMA StepTypeOK == TypeOK /\ [Next]_vars => TypeOK'
  <1> SUFFICES ASSUME TypeOK, [Next]_vars PROVE TypeOK'
    OBVIOUS
  <1>0. Cursor \in Nat
    BY DEF TypeOK, Cursor
  <1>1. ASSUME NEW e \in Event, Publish(e) PROVE TypeOK'
    <2>1. Append(ingress, e) \in Seq(Event)
      BY AppendProperties DEF TypeOK
    <2> QED
      BY <1>1, <2>1 DEF TypeOK, Publish, Cursor, retention, feeds
  <1>2. CASE Pump
    <2> DEFINE e == Head(ingress)
               projected == e.class \notin gag
    <2>0. ingress \in Seq(Event) /\ ingress # <<>> /\ log \in Seq(Event)
      BY <1>2 DEF TypeOK, Pump
    <2>1. e \in Event /\ Tail(ingress) \in Seq(Event)
      BY <2>0, HeadTailProperties
    <2>2. log' = Append(log, e) /\ log' \in Seq(Event) /\ Cursor' = Cursor + 1
      <3>1. log' = Append(log, e)
        BY <1>2 DEF Pump
      <3> QED
        BY <2>0, <2>1, <3>1, AppendProperties DEF Cursor
    <2>3. Count(e, projected) /\ Retain(e) /\ ingress' = Tail(ingress)
      BY <1>2 DEF Pump
    <2>4. counts' \in [Worlds -> [generation : Generations \cup {-1}, n : [Classes -> Nat]]]
      BY <2>1, <2>3, CountType
    <2>5. /\ history' \in [Worlds -> Seq(1 .. Cursor')]
          /\ droppedThrough' \in 0 .. Cursor'
          /\ genDropped' \in
               [Worlds -> [generation : Generations \cup {-1}, cursor : [Classes -> 0 .. Cursor']]]
      BY <2>1, <2>2, <2>3, RetainType
    <2>6. \A s \in Subscribers : /\ queue[s] \in Seq((1 .. Cursor') \cup {None})
                                 /\ received[s] \in Seq(1 .. Cursor')
      BY <1>0, <2>2, SeqWidens, (1 .. Cursor) \cup {None} \subseteq (1 .. Cursor') \cup {None},
         1 .. Cursor \subseteq 1 .. Cursor' DEF TypeOK
    <2>7. /\ status' \in [Subscribers -> {"unused", "open", "closed", "told", "gone"}]
          /\ queue' \in [Subscribers -> Seq((1 .. Cursor') \cup {None})]
          /\ shown' \subseteq 1 .. Cursor'
      <3>1. CASE projected
        <4>1. Deliver(e) /\ shown' = shown \cup {Cursor + 1}
          BY <1>2, <3>1 DEF Pump
        <4> QED
          BY <1>0, <2>1, <2>2, <4>1, DeliverType DEF TypeOK
      <3>2. CASE ~projected
        <4>1. UNCHANGED <<shown, queue, status>>
          BY <1>2, <3>2 DEF Pump
        <4> QED
          BY <1>0, <2>2, <2>6, <4>1 DEF TypeOK
      <3> QED
        BY <3>1, <3>2
    <2>8. /\ received' \in [Subscribers -> Seq(1 .. Cursor')]
          /\ gag' \in GagSettings /\ phase' \in {"running", "draining", "stopped"}
      <3>1. UNCHANGED <<received, gag, phase>>
        BY <1>2 DEF Pump
      <3> QED
        BY <2>6, <3>1 DEF TypeOK
    <2>9. sub' \in [Subscribers -> [request : Requests \cup {None}, after : Nat \cup {None},
                                   cursor : 0 .. Cursor', events : SUBSET (1 .. Cursor')]]
      <3>1. sub' = sub
        BY <1>2 DEF Pump
      <3> QED
        BY <1>0, <2>2, <3>1 DEF TypeOK
    <2> QED
      BY <2>1, <2>2, <2>3, <2>4, <2>5, <2>7, <2>8, <2>9 DEF TypeOK
  <1>3. ASSUME NEW s \in Subscribers, NEW r \in Requests,
               NEW after \in (0 .. Cursor) \cup {None}, Subscribe(s, r, after)
        PROVE  TypeOK'
    <2>1. Subscribed(r, after) \in [request : Requests \cup {None}, after : Nat \cup {None},
                                   cursor : 0 .. Cursor, events : SUBSET (1 .. Cursor)]
      BY <1>0, SelectedRetained DEF Subscribed
    <2> QED
      BY <1>3, <2>1 DEF TypeOK, Subscribe, Cursor, retention
  <1>4. ASSUME NEW s \in Subscribers, Take(s) PROVE TypeOK'
    <2>1. /\ Head(queue[s]) \in (1 .. Cursor) \cup {None}
          /\ Tail(queue[s]) \in Seq((1 .. Cursor) \cup {None})
      BY <1>4, HeadTailProperties DEF TypeOK, Take
    <2>2. Head(queue[s]) # None => Append(received[s], Head(queue[s])) \in Seq(1 .. Cursor)
      BY <2>1, AppendProperties DEF TypeOK
    <2>3. UNCHANGED <<ingress, log, shown, history, counts, droppedThrough, genDropped, gag, sub,
                      phase>>
      BY <1>4 DEF Take, retention
    <2>4. queue' \in [Subscribers -> Seq((1 .. Cursor) \cup {None})]
      <3>1. queue' = [queue EXCEPT ![s] = Tail(queue[s])]
        BY <1>4 DEF Take
      <3>2. queue \in [Subscribers -> Seq((1 .. Cursor) \cup {None})]
        BY DEF TypeOK
      <3> QED
        BY <2>1, <3>1, <3>2
    <2>5. received' \in [Subscribers -> Seq(1 .. Cursor)]
      <3>1. received \in [Subscribers -> Seq(1 .. Cursor)]
        BY DEF TypeOK
      <3>2. \/ received' = received
            \/ /\ Head(queue[s]) # None
               /\ received' = [received EXCEPT ![s] = Append(received[s], Head(queue[s]))]
        BY <1>4 DEF Take
      <3> QED
        BY <2>2, <3>1, <3>2
    <2>6. status' \in [Subscribers -> {"unused", "open", "closed", "told", "gone"}]
      <3>1. status \in [Subscribers -> {"unused", "open", "closed", "told", "gone"}]
        BY DEF TypeOK
      <3>2. status' = status \/ status' = [status EXCEPT ![s] = "told"]
        BY <1>4 DEF Take
      <3> QED
        BY <3>1, <3>2
    <2> QED
      BY <2>3, <2>4, <2>5, <2>6 DEF TypeOK, Cursor
  <1>5. ASSUME NEW s \in Subscribers, Unsubscribe(s) PROVE TypeOK'
    BY <1>5 DEF TypeOK, Unsubscribe, Cursor, retention
  <1>6. ASSUME NEW hidden \in GagSettings, ManageGag(hidden) PROVE TypeOK'
    BY <1>6 DEF TypeOK, ManageGag, Cursor, retention, feeds
  <1>7. CASE StopJoin
    BY <1>7 DEF TypeOK, StopJoin, Cursor, retention, feeds
  <1>8. CASE StopClose
    <2>1. <<None>> \in Seq((1 .. Cursor) \cup {None}) /\ <<>> \in Seq(Event)
      OBVIOUS
    <2> QED
      BY <1>8, <2>1 DEF TypeOK, StopClose, Cursor, retention
  <1>9. CASE UNCHANGED vars
    BY <1>9 DEF TypeOK, vars, Cursor, retention, feeds
  <1> QED
    BY <1>1, <1>2, <1>3, <1>4, <1>5, <1>6, <1>7, <1>8, <1>9 DEF Next

(* The history's variables keep their types: cursors stay within the log,  *)
(* whatever UIs subscribe, lag, leave or are closed.                       *)
THEOREM TypeCorrect == Spec => []TypeOK
  BY InitTypeOK, StepTypeOK, PTL DEF Spec
-----------------------------------------------------------------------------
(* The inductive invariant of the feeds.  FeedExact and FeedPrefix need    *)
(* each other (a taken item was the head of an exact stream), and both     *)
(* need that an unused subscription starts empty.                          *)
Items == (1 .. Cursor) \cup {None}
Stream(s) == received[s] \o queue[s]

Exact(s) == Ascending(Stream(s)) /\ ToSet(Stream(s)) = Feed(s)

Prefix(s) ==
  /\ Ascending(received[s])
  /\ \A i \in DOMAIN received[s] :
       /\ received[s][i] \in Feed(s)
       /\ \A c \in Feed(s) : c < received[s][i] => \E j \in DOMAIN received[s] : received[s][j] = c

Fed(s) ==
  /\ status[s] = "unused" => queue[s] = <<>> /\ received[s] = <<>>
  /\ status[s] = "closed" => queue[s] = <<None>>
  /\ status[s] = "open" => (\A i \in DOMAIN queue[s] : queue[s][i] # None) /\ Exact(s)
  /\ Prefix(s)

FeedInv == TypeOK /\ \A s \in Subscribers : Fed(s)

LEMMA FeedInvImplies == FeedInv => FeedExact /\ FeedPrefix /\ ClosedIsTold
  BY DEF FeedInv, Fed, Exact, Prefix, Stream, FeedExact, FeedPrefix, ClosedIsTold

LEMMA InitFeedInv == Init => FeedInv
  <1> SUFFICES ASSUME Init, NEW s \in Subscribers PROVE Fed(s)
    BY InitTypeOK DEF FeedInv
  <1>1. status[s] = "unused" /\ queue[s] = <<>> /\ received[s] = <<>>
    BY DEF Init
  <1> QED
    BY <1>1 DEF Fed, Prefix, Ascending

(* What the proofs need to know of one subscription's sequences.           *)
LEMMA StreamTypes ==
  ASSUME TypeOK, NEW s \in Subscribers
  PROVE  /\ received[s] \in Seq(Items) /\ queue[s] \in Seq(Items) /\ Stream(s) \in Seq(Items)
         /\ received[s] \in Seq(1 .. Cursor)
  <1>1. received[s] \in Seq(1 .. Cursor) /\ queue[s] \in Seq(Items)
    BY DEF TypeOK, Items
  <1>2. received[s] \in Seq(Items)
    <2>1. 1 .. Cursor \subseteq Items
      BY DEF Items
    <2> QED
      BY <1>1, <2>1, SeqWidens
  <1> QED
    BY <1>1, <1>2, ConcatProperties DEF Stream

LEMMA FedFrame ==
  ASSUME NEW s \in Subscribers, Fed(s),
         UNCHANGED <<log, shown, sub[s], status[s], queue[s], received[s]>>
  PROVE  Fed(s)'
  <1>1. Feed(s)' = Feed(s)
    BY DEF Feed, Matches
  <1>2. Stream(s)' = Stream(s)
    BY DEF Stream
  <1> QED
    BY <1>1, <1>2 DEF Fed, Exact, Prefix

(* Taking the head of a queue does not change the stream.                  *)
LEMMA TakeStream ==
  ASSUME NEW S, NEW r \in Seq(S), NEW q \in Seq(S), q # <<>>
  PROVE  Append(r, Head(q)) \o Tail(q) = r \o q
  <1> DEFINE a == Append(r, Head(q))
             left == a \o Tail(q)
             right == r \o q
  <1>1. Head(q) \in S /\ Head(q) = q[1] /\ Tail(q) \in Seq(S) /\ Len(Tail(q)) = Len(q) - 1
        /\ \A i \in 1 .. Len(Tail(q)) : Tail(q)[i] = q[i + 1]
    BY HeadTailProperties
  <1>2. a \in Seq(S) /\ Len(a) = Len(r) + 1 /\ a[Len(r) + 1] = q[1]
        /\ \A i \in 1 .. Len(r) : a[i] = r[i]
    BY <1>1, AppendProperties
  <1>3. Len(r) \in Nat /\ Len(q) \in Nat
    BY LenProperties
  <1> HIDE DEF a
  <1>4. left \in Seq(S) /\ Len(left) = Len(r) + Len(q)
        /\ \A i \in 1 .. Len(r) + Len(q) :
             left[i] = IF i <= Len(r) + 1 THEN a[i] ELSE Tail(q)[i - (Len(r) + 1)]
    <2> DEFINE t == Tail(q)
    <2>1. t \in Seq(S) /\ Len(t) = Len(q) - 1
      BY <1>1
    <2> HIDE DEF t
    <2>2. /\ a \o t \in Seq(S) /\ Len(a \o t) = Len(a) + Len(t)
          /\ \A i \in 1 .. Len(a) + Len(t) :
               (a \o t)[i] = IF i <= Len(a) THEN a[i] ELSE t[i - Len(a)]
      <3>1. a \in Seq(S) /\ t \in Seq(S)
        BY <1>2, <2>1
      <3> QED
        BY <3>1, ConcatProperties, ZenonT(40)
    <2>4. Len(a) + Len(t) = Len(r) + Len(q)
      BY <1>2, <1>3, <2>1
    <2>5. left = a \o t /\ t = Tail(q)
      BY DEF t
    <2>6. \A i \in 1 .. Len(r) + Len(q) :
            left[i] = IF i <= Len(r) + 1 THEN a[i] ELSE t[i - (Len(r) + 1)]
      BY <1>2, <2>2, <2>4, <2>5
    <2>7. left \in Seq(S) /\ Len(left) = Len(r) + Len(q)
      BY <2>2, <2>4, <2>5
    <2> HIDE DEF left
    <2> QED
      BY <2>5, <2>6, <2>7
  <1>5. right \in Seq(S) /\ Len(right) = Len(r) + Len(q)
        /\ \A i \in 1 .. Len(r) + Len(q) :
             right[i] = IF i <= Len(r) THEN r[i] ELSE q[i - Len(r)]
    <2>1. r \o q \in Seq(S) /\ Len(r \o q) = Len(r) + Len(q)
      BY ConcatProperties, Zenon
    <2>2. \A i \in 1 .. Len(r) + Len(q) :
            (r \o q)[i] = IF i <= Len(r) THEN r[i] ELSE q[i - Len(r)]
      BY ConcatProperties, Zenon
    <2> QED
      BY <2>1, <2>2
  <1> HIDE DEF left, right
  <1>6. ASSUME NEW i \in 1 .. Len(left) PROVE left[i] = right[i]
    <2>1. CASE i <= Len(r)
      BY <1>2, <1>3, <1>4, <1>5, <2>1
    <2>2. CASE i = Len(r) + 1
      <3>1. i - Len(r) = 1 /\ i \in 1 .. Len(r) + Len(q) /\ ~(i <= Len(r)) /\ i <= Len(r) + 1
        BY <1>3, <1>4, <2>2
      <3> QED
        BY <1>2, <1>4, <1>5, <2>2, <3>1
    <2>3. CASE i > Len(r) + 1
      <3>1. i - (Len(r) + 1) \in 1 .. Len(Tail(q)) /\ (i - (Len(r) + 1)) + 1 = i - Len(r)
        BY <1>1, <1>3, <1>4, <2>3
      <3> QED
        BY <1>1, <1>3, <1>4, <1>5, <2>3, <3>1
    <2>4. i \in Int /\ Len(r) \in Int
      BY <1>4, LenProperties
    <2>5. i <= Len(r) \/ i = Len(r) + 1 \/ i > Len(r) + 1
      BY ONLY <2>4
    <2> QED
      BY <2>1, <2>2, <2>3, <2>5
  <1>7. left = right
    BY <1>4, <1>5, <1>6, SeqEqual
  <1> QED
    BY <1>7 DEF left, right, a

(* Queueing an item extends the stream at its end.                         *)
LEMMA QueueStream ==
  ASSUME NEW S, NEW r \in Seq(S), NEW q \in Seq(S), NEW x \in S
  PROVE  r \o Append(q, x) = Append(r \o q, x)
  <1>1. Append(q, x) = q \o <<x>> /\ Append(r \o q, x) = (r \o q) \o <<x>>
    BY AppendIsConcat, ConcatProperties
  <1>2. <<x>> \in Seq(S)
    OBVIOUS
  <1> QED
    BY <1>1, <1>2, ConcatAssociative

(* An ascending stream whose items are all below x stays ascending with x  *)
(* at its end, and gains just x.                                           *)
LEMMA AppendAscending ==
  ASSUME NEW S, NEW q \in Seq(S), NEW x \in S, x \in Int, Ascending(q),
         \A i \in DOMAIN q : q[i] \in Int /\ q[i] < x
  PROVE  /\ Ascending(Append(q, x))
         /\ ToSet(Append(q, x)) = ToSet(q) \cup {x}
  <1> DEFINE a == Append(q, x)
  <1>1. Len(q) \in Nat /\ DOMAIN q = 1 .. Len(q)
    BY LenProperties
  <1>2. /\ a \in Seq(S) /\ Len(a) = Len(q) + 1 /\ a[Len(q) + 1] = x
        /\ \A i \in 1 .. Len(q) : a[i] = q[i]
    BY AppendProperties
  <1>3. DOMAIN a = 1 .. Len(q) + 1
    BY <1>1, <1>2, LenProperties
  <1> HIDE DEF a
  <1>4. Ascending(a)
    <2> SUFFICES ASSUME NEW i \in DOMAIN a, NEW j \in DOMAIN a, i < j PROVE a[i] < a[j]
      BY DEF Ascending
    <2>1. CASE j = Len(q) + 1
      BY <1>1, <1>2, <1>3, <2>1
    <2>2. CASE j # Len(q) + 1
      <3>1. i \in DOMAIN q /\ j \in DOMAIN q
        BY <1>1, <1>3, <2>2
      <3> QED
        BY <1>1, <1>2, <3>1 DEF Ascending
    <2> QED
      BY <2>1, <2>2
  <1>5. ToSet(a) = ToSet(q) \cup {x}
    <2>1. \A i \in DOMAIN a : i \in DOMAIN q \/ i = Len(q) + 1
      BY <1>1, <1>3
    <2>2. \A i \in DOMAIN q : i \in DOMAIN a /\ a[i] = q[i]
      BY <1>1, <1>2, <1>3
    <2>3. Len(q) + 1 \in DOMAIN a
      BY <1>1, <1>3
    <2> QED
      BY <1>2, <2>1, <2>2, <2>3 DEF ToSet
  <1> QED
    BY <1>4, <1>5 DEF a

(* The feed after a pump step: the new event, if it is due, and the old.   *)
LEMMA PumpFeed ==
  ASSUME TypeOK, NEW s \in Subscribers, NEW e \in Event, log' = Append(log, e),
         sub' = sub, shown' = shown \/ shown' = shown \cup {Cursor + 1}
  PROVE  /\ Matches(s, e)' = Matches(s, e)
         /\ Feed(s)' = IF Cursor + 1 \in shown' /\ Matches(s, e)
                       THEN Feed(s) \cup {Cursor + 1} ELSE Feed(s)
         /\ Feed(s) \subseteq 1 .. Cursor
  <1>1. Cursor \in Nat /\ shown \subseteq 1 .. Cursor /\ sub[s].cursor \in 0 .. Cursor
    BY DEF TypeOK, Cursor
  <1>2. log'[Cursor + 1] = e /\ \A c \in 1 .. Cursor : log'[c] = log[c]
    BY AppendProperties DEF TypeOK, Cursor
  <1>3. \A x : Matches(s, x)' <=> Matches(s, x)
    BY DEF Matches
  <1>4. Feed(s)' = {c \in shown' : c > sub[s].cursor /\ Matches(s, log'[c])}
    BY DEF Feed, Matches
  <1>5. Cursor + 1 > sub[s].cursor /\ Cursor + 1 \notin shown
    BY <1>1
  <1>6. Feed(s) = {c \in shown : c > sub[s].cursor /\ Matches(s, log[c])}
        /\ Feed(s) \subseteq 1 .. Cursor
    BY <1>1 DEF Feed
  <1>7. \A c \in shown : log'[c] = log[c]
    BY <1>1, <1>2
  <1>8. Feed(s)' = IF Cursor + 1 \in shown' /\ Matches(s, e)
                   THEN Feed(s) \cup {Cursor + 1} ELSE Feed(s)
    <2>1. CASE shown' = shown
      BY <1>4, <1>5, <1>6, <1>7, <2>1
    <2>2. CASE shown' = shown \cup {Cursor + 1}
      <3>1. \A c \in shown' :
              (c > sub[s].cursor /\ Matches(s, log'[c]))
                <=> c \in Feed(s) \/ (c = Cursor + 1 /\ Matches(s, e))
        BY <1>2, <1>5, <1>6, <1>7, <2>2
      <3> QED
        BY <1>4, <1>6, <2>2, <3>1
    <2> QED
      BY <2>1, <2>2
  <1>9. Matches(s, e)' = Matches(s, e)
    BY DEF Matches
  <1> QED
    BY <1>6, <1>8, <1>9

(* A prefix stays one when only newer events join the feed.                *)
LEMMA PrefixGrows ==
  ASSUME TypeOK, NEW s \in Subscribers, Prefix(s), received'[s] = received[s],
         Feed(s) \subseteq Feed(s)', Feed(s)' \subseteq Feed(s) \cup {Cursor + 1}
  PROVE  Prefix(s)'
  <1>1. Cursor \in Nat /\ \A i \in DOMAIN received[s] : received[s][i] \in 1 .. Cursor
    BY ElementOfSeq, LenProperties DEF TypeOK, Cursor
  <1> QED
    BY <1>1 DEF Prefix, Ascending

(* The three things the pump does to one subscription.                     *)
LEMMA PumpFed ==
  ASSUME FeedInv, Pump, NEW s \in Subscribers
  PROVE  Fed(s)'
  <1>1. TypeOK /\ Fed(s)
    BY DEF FeedInv
  <1>2. sub' = sub /\ received' = received
    BY DEF Pump
  <1>3. PICK e \in Event :
          /\ log' = Append(log, e)
          /\ \/ UNCHANGED <<shown, queue, status>>
             \/ shown' = shown \cup {Cursor + 1} /\ Deliver(e)
    <2>1. ingress \in Seq(Event) /\ ingress # <<>>
      BY <1>1 DEF Pump, TypeOK
    <2>2. Head(ingress) \in Event
      BY <2>1, HeadTailProperties
    <2> QED
      BY <2>2 DEF Pump
  <1> DEFINE n == Cursor + 1
             due == status[s] = "open" /\ Matches(s, e)
             slow == Len(queue[s]) = SubscriberQueueSize
  <1>4. Cursor \in Nat
    BY <1>1 DEF TypeOK, Cursor
  <1>5. shown' = shown \/ shown' = shown \cup {Cursor + 1}
    BY <1>3
  <1>6. /\ Matches(s, e)' = Matches(s, e)
        /\ Feed(s)' = IF n \in shown' /\ Matches(s, e) THEN Feed(s) \cup {n} ELSE Feed(s)
        /\ Feed(s) \subseteq 1 .. Cursor
    BY <1>1, <1>2, <1>3, <1>5, PumpFeed
  <1>7. Prefix(s)'
    BY <1>1, <1>2, <1>6, PrefixGrows DEF Fed
  <1>8. CASE UNCHANGED <<shown, queue, status>>
    <2>1. n \notin shown
      BY <1>1, <1>4 DEF TypeOK
    <2>2. Feed(s)' = Feed(s) /\ Stream(s)' = Stream(s)
      BY <1>2, <1>6, <1>8, <2>1 DEF Stream
    <2> QED
      BY <1>1, <1>2, <1>7, <1>8, <2>2 DEF Fed, Exact
  <1>9. CASE shown' = shown \cup {n} /\ Deliver(e)
    <2>1. queue'[s] = IF due /\ slow THEN <<None>>
                      ELSE IF due THEN Append(queue[s], n) ELSE queue[s]
      BY <1>9 DEF Deliver
    <2>2. status'[s] = IF due /\ slow THEN "closed" ELSE status[s]
      BY <1>9 DEF Deliver
    <2>3. CASE due /\ slow
      BY <1>7, <2>1, <2>2, <2>3 DEF Fed
    <2>4. CASE due /\ ~slow
      <3>1. Exact(s) /\ (\A i \in DOMAIN queue[s] : queue[s][i] # None)
        BY <1>1, <2>4 DEF Fed
      <3> DEFINE S == Items \cup {n}
      <3>2. /\ received[s] \in Seq(S) /\ queue[s] \in Seq(S) /\ Stream(s) \in Seq(S) /\ n \in S
        BY <1>1, StreamTypes, SeqWidens, Items \subseteq S
      <3> HIDE DEF S
      <3>3. Stream(s)' = Append(Stream(s), n)
        <4>1. received'[s] = received[s] /\ queue'[s] = Append(queue[s], n)
          BY <1>2, <2>1, <2>4
        <4>2. received[s] \o Append(queue[s], n) = Append(received[s] \o queue[s], n)
          <5> DEFINE r == received[s]
                     q == queue[s]
          <5>1. r \in Seq(S) /\ q \in Seq(S) /\ n \in S
            BY <3>2
          <5> HIDE DEF n, r, q
          <5>2. r \o Append(q, n) = Append(r \o q, n)
            BY <5>1, QueueStream
          <5> QED
            BY <5>2 DEF r, q
        <4> QED
          BY <4>1, <4>2 DEF Stream
      <3>4. \A i \in DOMAIN Stream(s) : Stream(s)[i] \in Int /\ Stream(s)[i] < n
        BY <1>4, <1>6, <3>1 DEF Exact, ToSet
      <3>5. /\ Ascending(Append(Stream(s), n))
            /\ ToSet(Append(Stream(s), n)) = Feed(s) \cup {n}
        <4> DEFINE q == Stream(s)
        <4>1. q \in Seq(S) /\ n \in S /\ n \in Int /\ Ascending(q)
              /\ ToSet(q) = Feed(s) /\ \A i \in DOMAIN q : q[i] \in Int /\ q[i] < n
          BY <1>4, <3>1, <3>2, <3>4 DEF Exact
        <4> HIDE DEF q, n
        <4>2. Ascending(Append(q, n))
          BY <4>1, AppendAscending
        <4>3. ToSet(Append(q, n)) = ToSet(q) \cup {n}
          BY <4>1, AppendAscending
        <4> QED
          BY <4>1, <4>2, <4>3 DEF q
      <3>6. Feed(s)' = Feed(s) \cup {n}
        BY <1>6, <1>9, <2>4
      <3>7. Exact(s)'
        BY <3>3, <3>5, <3>6 DEF Exact, Ascending
      <3>8. \A i \in DOMAIN queue'[s] : queue'[s][i] # None
        <4>1. queue'[s] = Append(queue[s], n)
          BY <2>1, <2>4
        <4>2. n # None
          BY <1>4
        <4> QED
          BY <3>1, <3>2, <4>1, <4>2, AppendProperties, LenProperties
      <3> QED
        BY <1>7, <2>2, <2>4, <3>7, <3>8 DEF Fed
    <2>5. CASE ~due
      <3>1. status[s] = "open" => Feed(s)' = Feed(s)
        BY <1>6, <2>5
      <3>2. /\ queue'[s] = queue[s] /\ received'[s] = received[s] /\ status'[s] = status[s]
            /\ Stream(s)' = Stream(s)
        BY <1>2, <2>1, <2>2, <2>5 DEF Stream
      <3>3. status[s] = "open" => (Exact(s) => Exact(s)')
        BY <3>1, <3>2 DEF Exact
      <3> QED
        BY <1>1, <1>7, <3>2, <3>3 DEF Fed
    <2> QED
      BY <2>3, <2>4, <2>5
  <1> QED
    BY <1>3, <1>8, <1>9

(* A new subscription starts with an empty queue at the current cursor,    *)
(* which no event shown so far lies behind.                                *)
LEMMA SubscribeFed ==
  ASSUME FeedInv, NEW s \in Subscribers, NEW r \in Requests,
         NEW after \in (0 .. Cursor) \cup {None}, Subscribe(s, r, after)
  PROVE  Fed(s)'
  <1>1. TypeOK /\ queue[s] = <<>> /\ received[s] = <<>>
    BY DEF FeedInv, Fed, Subscribe
  <1>2. queue'[s] = <<>> /\ received'[s] = <<>> /\ status'[s] = "open" /\ sub'[s].cursor = Cursor
    BY <1>1 DEF TypeOK, Subscribe, Subscribed
  <1>3. Feed(s)' = {}
    <2>1. shown' = shown /\ Cursor \in Nat /\ shown \subseteq 1 .. Cursor
      BY <1>1 DEF TypeOK, Subscribe, Cursor
    <2> QED
      BY <1>2, <2>1 DEF Feed
  <1>4. Stream(s)' = <<>>
    BY <1>2, EmptySeq, ConcatEmptySeq DEF Stream
  <1> QED
    BY <1>2, <1>3, <1>4 DEF Fed, Exact, Prefix, Ascending, ToSet

(* A taken item was the next one of the feed; None ends the connection.    *)
LEMMA TakeFed ==
  ASSUME FeedInv, NEW s \in Subscribers, Take(s)
  PROVE  Fed(s)'
  <1> DEFINE r == received[s]
             q == queue[s]
  <1>1. TypeOK /\ Fed(s) /\ status[s] \in {"open", "closed"} /\ q # <<>>
    BY DEF FeedInv, Take
  <1>2. r \in Seq(Items) /\ q \in Seq(Items) /\ r \o q \in Seq(Items)
    BY <1>1, StreamTypes DEF Stream
  <1>3. Feed(s)' = Feed(s)
    BY DEF Take, Feed, Matches
  <1>4. Head(q) = q[1] /\ 1 \in DOMAIN q
    BY <1>1, <1>2, LenProperties, EmptySeq
  <1>5. CASE Head(q) = None
    <2>1. status'[s] = "told" /\ received'[s] = r
      BY <1>1, <1>5 DEF Take, TypeOK
    <2> QED
      BY <1>1, <1>3, <2>1 DEF Fed, Prefix
  <1>6. CASE Head(q) # None
    <2>1. /\ status[s] = "open" /\ status'[s] = "open"
          /\ received'[s] = Append(r, Head(q)) /\ queue'[s] = Tail(q)
      <3>1. status[s] # "closed"
        BY <1>1, <1>6 DEF Fed
      <3> QED
        BY <1>1, <1>6, <3>1 DEF Take, TypeOK
    <2>2. Exact(s) /\ \A i \in DOMAIN q : q[i] # None
      BY <1>1, <2>1 DEF Fed
    <2>3. Stream(s)' = Stream(s)
      <3>1. Append(r, Head(q)) \o Tail(q) = r \o q
        <4> HIDE DEF r, q
        <4> QED
          BY <1>1, <1>2, TakeStream
      <3> QED
        BY <2>1, <3>1 DEF Stream
    <2>4. Exact(s)'
      BY <1>3, <2>2, <2>3 DEF Exact
    <2>5. \A i \in DOMAIN Tail(q) : Tail(q)[i] # None
      <3> HIDE DEF q
      <3>1. /\ Tail(q) \in Seq(Items) /\ Len(Tail(q)) = Len(q) - 1
            /\ \A i \in 1 .. Len(Tail(q)) : Tail(q)[i] = q[i + 1]
        BY <1>1, <1>2, HeadTailProperties
      <3>2. DOMAIN q = 1 .. Len(q) /\ DOMAIN Tail(q) = 1 .. Len(Tail(q)) /\ Len(q) \in Nat
        BY <1>2, <3>1, LenProperties
      <3> QED
        BY <2>2, <3>1, <3>2
    <2>6. Prefix(s)'
      <3> DEFINE a == Append(r, Head(q))
                 t == Tail(q)
                 z == a \o t
      <3>1. a \in Seq(Items) /\ t \in Seq(Items)
        <4> HIDE DEF r, q
        <4> QED
          BY <1>1, <1>2, HeadTailProperties, AppendProperties
      <3>2. Ascending(z) /\ ToSet(z) = Feed(s)'
        BY <2>1, <2>4 DEF Exact, Stream
      <3> HIDE DEF a, t
      <3>3. /\ Len(a) \in Nat /\ DOMAIN a = 1 .. Len(a) /\ Len(t) \in Nat
            /\ z \in Seq(Items) /\ Len(z) = Len(a) + Len(t)
            /\ \A i \in 1 .. Len(a) : z[i] = a[i]
        <4>1. Len(a) \in Nat /\ DOMAIN a = 1 .. Len(a) /\ Len(t) \in Nat
          BY <3>1, LenProperties
        <4>2. z \in Seq(Items) /\ Len(z) = Len(a) + Len(t)
          BY <3>1, ConcatProperties
        <4>3. \A i \in 1 .. Len(a) + Len(t) : z[i] = IF i <= Len(a) THEN a[i] ELSE t[i - Len(a)]
          BY <3>1, ConcatProperties
        <4> QED
          BY <4>1, <4>2, <4>3
      <3> HIDE DEF z
      <3>4. DOMAIN z = 1 .. Len(z)
        BY <3>3, LenProperties
      <3>5. Ascending(a)
        BY <3>2, <3>3, <3>4 DEF Ascending
      <3>6. \A i \in DOMAIN a : a[i] \in Feed(s)'
        BY <3>2, <3>3, <3>4 DEF ToSet
      <3>7. ASSUME NEW i \in DOMAIN a, NEW c \in Feed(s)', c < a[i]
            PROVE  \E j \in DOMAIN a : a[j] = c
        <4>1. PICK k \in DOMAIN z : z[k] = c
          BY <3>2 DEF ToSet
        <4>2. k < i
          <5>1. i \in DOMAIN z /\ z[i] = a[i] /\ k \in Int /\ i \in Int
            BY <3>3, <3>4
          <5>2. c \in Int /\ a[i] \in Int
            <6>1. Cursor \in Nat /\ shown \subseteq 1 .. Cursor
              BY <1>1 DEF TypeOK, Cursor
            <6>2. Feed(s)' \subseteq 1 .. Cursor
              BY <1>3, <6>1 DEF Feed
            <6> QED
              BY <3>6, <6>1, <6>2
          <5>3. i < k => z[i] < z[k]
            BY <3>2, <5>1 DEF Ascending
          <5> QED
            BY <3>7, <4>1, <5>1, <5>2, <5>3
        <4> QED
          BY <3>3, <3>4, <4>1, <4>2
      <3>8. received'[s] = a
        BY <2>1 DEF a
      <3> QED
        BY <3>5, <3>6, <3>7, <3>8 DEF Prefix, Ascending
    <2> QED
      BY <2>1, <2>4, <2>5, <2>6 DEF Fed
  <1> QED
    BY <1>5, <1>6

LEMMA StepFeedInv == FeedInv /\ [Next]_vars => FeedInv'
  <1> SUFFICES ASSUME FeedInv, [Next]_vars, NEW s \in Subscribers PROVE Fed(s)'
    BY StepTypeOK DEF FeedInv
  <1>0. TypeOK /\ Fed(s)
    BY DEF FeedInv
  <1>1. ASSUME NEW e \in Event, Publish(e) PROVE Fed(s)'
    BY <1>0, <1>1, FedFrame DEF Publish, feeds
  <1>2. CASE Pump
    BY <1>2, PumpFed
  <1>3. ASSUME NEW u \in Subscribers, NEW r \in Requests,
               NEW after \in (0 .. Cursor) \cup {None}, Subscribe(u, r, after)
        PROVE  Fed(s)'
    <2>1. CASE u = s
      BY <1>3, <2>1, SubscribeFed
    <2>2. CASE u # s
      BY <1>0, <1>3, <2>2, FedFrame DEF Subscribe, TypeOK
    <2> QED
      BY <2>1, <2>2
  <1>4. ASSUME NEW u \in Subscribers, Take(u) PROVE Fed(s)'
    <2>1. CASE u = s
      BY <1>4, <2>1, TakeFed
    <2>2. CASE u # s
      BY <1>0, <1>4, <2>2, FedFrame DEF Take, TypeOK
    <2> QED
      BY <2>1, <2>2
  <1>5. ASSUME NEW u \in Subscribers, Unsubscribe(u) PROVE Fed(s)'
    <2>1. CASE u = s
      <3>1. status'[s] = "gone" /\ UNCHANGED <<log, shown, sub, received>>
        BY <1>0, <1>5, <2>1 DEF Unsubscribe, TypeOK
      <3> QED
        BY <1>0, <3>1 DEF Fed, Prefix, Feed, Matches
    <2>2. CASE u # s
      BY <1>0, <1>5, <2>2, FedFrame DEF Unsubscribe, TypeOK
    <2> QED
      BY <2>1, <2>2
  <1>6. ASSUME NEW hidden \in GagSettings, ManageGag(hidden) PROVE Fed(s)'
    BY <1>0, <1>6, FedFrame DEF ManageGag, feeds
  <1>7. CASE StopJoin
    BY <1>0, <1>7, FedFrame DEF StopJoin, feeds
  <1>8. CASE StopClose
    <2>1. CASE status[s] = "open"
      <3>1. status'[s] = "closed" /\ queue'[s] = <<None>> /\ UNCHANGED <<log, shown, sub, received>>
        BY <1>8, <2>1 DEF StopClose
      <3> QED
        BY <1>0, <3>1 DEF Fed, Prefix, Feed, Matches
    <2>2. CASE status[s] # "open"
      BY <1>0, <1>8, <2>2, FedFrame DEF StopClose
    <2> QED
      BY <2>1, <2>2
  <1>9. CASE UNCHANGED vars
    BY <1>0, <1>9, FedFrame DEF vars, feeds
  <1> QED
    BY <1>1, <1>2, <1>3, <1>4, <1>5, <1>6, <1>7, <1>8, <1>9 DEF Next

LEMMA FeedInvariant == Spec => []FeedInv
  BY InitFeedInv, StepFeedInv, PTL DEF Spec

(* The switch from the snapshot to the live feed is exact, for every       *)
(* number of UIs, queue size, retention and gag change.                    *)
THEOREM FeedIsExact == Spec => []FeedExact
  BY FeedInvariant, FeedInvImplies, PTL

(* However a connection ends, its UI has seen a prefix of its feed.        *)
THEOREM FeedIsPrefix == Spec => []FeedPrefix
  BY FeedInvariant, FeedInvImplies, PTL

(* A subscription the pump or stop() closed holds the notice to leave.     *)
THEOREM ClosedAreTold == Spec => []ClosedIsTold
  BY FeedInvariant, FeedInvImplies, PTL

-----------------------------------------------------------------------------
(* What a resumed UI misses.                                               *)

(* The retained events of a world ascend, and those that were dropped      *)
(* came before them.                                                       *)
Dropped(c) == c \in 1 .. Cursor /\ c \notin Retained(log[c].world)
NewestRetained ==
  /\ \A w \in Worlds : Ascending(history[w]) /\ \A c \in Retained(w) : log[c].world = w
  /\ \A c \in 1 .. Cursor : Dropped(c) => \A d \in Retained(log[c].world) : c < d

(* An event that was dropped is not past the marks.                        *)
Marked(c) ==
  LET mark == genDropped[log[c].world]
  IN  /\ c <= droppedThrough
      /\ log[c].generation <= mark.generation
      /\ log[c].generation = mark.generation => c <= mark.cursor[log[c].class]
SteadilyVisible(c) == Visible(c) /\ log[c].class \in Steady
DropsMarked ==
  /\ \A c \in 1 .. Cursor : Dropped(c) /\ SteadilyVisible(c) => Marked(c)
  /\ \A c \in 1 .. Cursor : log[c].generation <= counts[log[c].world].generation
  /\ \A w \in Worlds : genDropped[w].generation <= counts[w].generation

RetentionInv == TypeOK /\ NewestRetained /\ DropsMarked

(* A world's queue loses its oldest event and gets a newer one.            *)
LEMMA OldestOut ==
  ASSUME NEW n \in Nat, NEW q \in Seq(1 .. n), Ascending(q), q # <<>>
  PROVE  /\ Ascending(Tail(q))
         /\ \A c : c \in ToSet(Tail(q)) <=> c \in ToSet(q) /\ c # Head(q)
         /\ Head(q) \in ToSet(q) /\ \A c \in ToSet(q) : Head(q) <= c
<1>1. Len(q) \in Nat /\ DOMAIN q = 1 .. Len(q) /\ \A i \in DOMAIN q : q[i] \in 1 .. n
  BY LenProperties, ElementOfSeq
<1>2. /\ Len(q) >= 1 /\ Head(q) = q[1]
      /\ Tail(q) \in Seq(1 .. n) /\ Len(Tail(q)) = Len(q) - 1
      /\ \A i \in 1 .. Len(q) - 1 : Tail(q)[i] = q[i + 1]
  BY <1>1, EmptySeq, HeadTailProperties
<1>3. DOMAIN Tail(q) = 1 .. Len(q) - 1
  BY <1>2, LenProperties
<1>4. \A i \in 1 .. Len(q) - 1 : i + 1 \in DOMAIN q /\ Tail(q)[i] = q[i + 1]
  BY <1>1, <1>2
<1>5. Ascending(Tail(q))
  <2> SUFFICES ASSUME NEW i \in 1 .. Len(q) - 1, NEW j \in 1 .. Len(q) - 1, i < j
               PROVE  Tail(q)[i] < Tail(q)[j]
    BY <1>3 DEF Ascending
  <2>1. i + 1 < j + 1
    BY <1>1
  <2> QED
    BY <1>4, <2>1 DEF Ascending
<1>6. ASSUME NEW c, c \in ToSet(Tail(q)) PROVE c \in ToSet(q) /\ c # Head(q)
  <2>1. PICK i \in 1 .. Len(q) - 1 : c = Tail(q)[i]
    BY <1>3, <1>6 DEF ToSet
  <2>2. i + 1 \in DOMAIN q /\ c = q[i + 1] /\ 1 \in DOMAIN q /\ 1 < i + 1
    BY <1>1, <1>4, <2>1
  <2>3. q[1] < q[i + 1] /\ q[1] \in Int
    BY <1>1, <2>2 DEF Ascending
  <2> QED
    BY <1>2, <2>2, <2>3 DEF ToSet
<1>7. ASSUME NEW c, c \in ToSet(q), c # Head(q) PROVE c \in ToSet(Tail(q))
  <2>1. PICK i \in DOMAIN q : c = q[i]
    BY <1>7 DEF ToSet
  <2>2. i # 1
    BY <1>2, <1>7, <2>1
  <2>3. i - 1 \in 1 .. Len(q) - 1 /\ i - 1 + 1 = i
    BY <1>1, <2>2
  <2> QED
    BY <1>3, <1>4, <2>1, <2>3 DEF ToSet
<1>8. Head(q) \in ToSet(q) /\ \A c \in ToSet(q) : Head(q) <= c
  <2>1. 1 \in DOMAIN q /\ Head(q) = q[1]
    BY <1>1, <1>2
  <2>2. ASSUME NEW i \in DOMAIN q PROVE q[1] <= q[i]
    <3>1. q[1] \in Int /\ q[i] \in Int /\ (i = 1 \/ 1 < i)
      BY <1>1, <2>1
    <3>2. 1 < i => q[1] < q[i]
      BY <2>1 DEF Ascending
    <3> QED
      BY <3>1, <3>2
  <2> QED
    BY <2>1, <2>2 DEF ToSet
<1> QED
  BY <1>5, <1>6, <1>7, <1>8

LEMMA NewestIn ==
  ASSUME NEW n \in Nat, NEW q \in Seq(1 .. n), Ascending(q)
  PROVE  Ascending(Append(q, n + 1)) /\ ToSet(Append(q, n + 1)) = ToSet(q) \cup {n + 1}
<1>1. q \in Seq(Int) /\ n + 1 \in Int
  BY SeqMonotonic, 1 .. n \subseteq Int
<1>2. \A i \in DOMAIN q : q[i] \in Int /\ q[i] < n + 1
  BY LenProperties, ElementOfSeq
<1>3. Ascending(Append(q, n + 1))
  BY <1>1, <1>2, AppendAscending
<1>4. ToSet(Append(q, n + 1)) = ToSet(q) \cup {n + 1}
  BY <1>1, <1>2, AppendAscending
<1> QED
  BY <1>3, <1>4

(* What one step of the pump does to the history: at most one event, the   *)
(* oldest of its world, goes out.                                          *)
Pumped(e, out) ==
  /\ log' = Append(log, e) /\ gag' = gag /\ Cursor' = Cursor + 1
  /\ log'[Cursor + 1] = e /\ \A c \in 1 .. Cursor : log'[c] = log[c]
  /\ Count(e, e.class \notin gag)
  /\ shown' = IF e.class \notin gag THEN shown \cup {Cursor + 1} ELSE shown
  /\ \A v \in Worlds : v # e.world => history'[v] = history[v]
  /\ Ascending(history'[e.world])
  /\ ToSet(history'[e.world]) = (ToSet(history[e.world]) \ out) \cup {Cursor + 1}
  /\ \A h \in out : /\ h \in ToSet(history[e.world]) /\ Drop(h)
                    /\ \A c \in ToSet(history[e.world]) : h <= c
  /\ out = {} => UNCHANGED <<droppedThrough, genDropped>>

LEMMA PumpRetains ==
  ASSUME TypeOK, NewestRetained, Pump
  PROVE  \E e \in Event, out \in SUBSET (1 .. Cursor) : Pumped(e, out)
<1>1. PICK e \in Event : /\ log' = Append(log, e) /\ gag' = gag /\ Retain(e)
                         /\ Count(e, e.class \notin gag)
                         /\ shown' = IF e.class \notin gag THEN shown \cup {Cursor + 1} ELSE shown
  <2>1. Head(ingress) \in Event
    BY HeadTailProperties DEF Pump, TypeOK
  <2> QED
    BY <2>1 DEF Pump
<1>2. /\ Cursor \in Nat /\ Cursor' = Cursor + 1
      /\ log'[Cursor + 1] = e /\ \A c \in 1 .. Cursor : log'[c] = log[c]
  <2>1. log \in Seq(Event)
    BY DEF TypeOK
  <2>2. /\ Len(log) \in Nat /\ Len(log') = Len(log) + 1 /\ log'[Len(log) + 1] = e
        /\ \A c \in 1 .. Len(log) : log'[c] = log[c]
    BY <1>1, <2>1, AppendProperties, LenProperties
  <2> QED
    BY <2>2 DEF Cursor
<1>3. PICK w \in Worlds : w = e.world
  BY DEF Event
<1>4. PICK n \in Nat : n = Cursor
  BY <1>2
<1>5. PICK q \in Seq(1 .. n) : q = history[w]
  BY <1>4 DEF TypeOK
<1>6. Ascending(q)
  BY <1>5 DEF NewestRetained
<1>7. \A v \in Worlds : v # w => history'[v] = history[v]
  BY <1>1, <1>3 DEF Retain, TypeOK
<1>8. CASE Len(q) = Limit[w]
  <2>1. q # <<>>
    BY <1>5, <1>8, EmptySeq, HistoryAssumption
  <2>2. PICK t \in Seq(1 .. n) : t = Tail(q)
    BY <2>1, HeadTailProperties
  <2>3. PICK h \in 1 .. n : h = Head(q)
    BY <2>1, HeadTailProperties
  <2>4. history'[w] = Append(t, n + 1) /\ Drop(h)
    BY <1>1, <1>3, <1>4, <1>5, <1>8, <2>2, <2>3 DEF Retain, TypeOK
  <2>5. /\ Ascending(t) /\ \A c : c \in ToSet(t) <=> c \in ToSet(q) /\ c # h
        /\ h \in ToSet(q) /\ \A c \in ToSet(q) : h <= c
    BY <1>6, <2>1, <2>2, <2>3, OldestOut
  <2>10. Ascending(Append(t, n + 1)) /\ ToSet(Append(t, n + 1)) = ToSet(t) \cup {n + 1}
    BY <2>5, NewestIn
  <2>6. ToSet(history'[w]) = (ToSet(q) \ {h}) \cup {n + 1}
    BY <2>4, <2>5, <2>10
  <2>7. \A x \in {h} : x \in ToSet(q) /\ Drop(x) /\ \A c \in ToSet(q) : x <= c
    BY <2>4, <2>5
  <2>8. {h} \in SUBSET (1 .. Cursor) /\ {h} # {}
    BY <1>4
  <2>9. Ascending(history'[w])
    BY <2>4, <2>10
  <2>11. Pumped(e, {h})
    BY <1>1, <1>2, <1>3, <1>4, <1>5, <1>7, <2>6, <2>7, <2>8, <2>9 DEF Pumped
  <2> QED
    BY <2>8, <2>11
<1>9. CASE Len(q) # Limit[w]
  <2>1. history'[w] = Append(q, n + 1) /\ UNCHANGED <<droppedThrough, genDropped>>
    BY <1>1, <1>3, <1>4, <1>5, <1>9 DEF Retain, TypeOK
  <2>2. Ascending(Append(q, n + 1)) /\ ToSet(Append(q, n + 1)) = ToSet(q) \cup {n + 1}
    BY <1>6, NewestIn
  <2>3. ToSet(history'[w]) = (ToSet(q) \ {}) \cup {n + 1}
    BY <2>1, <2>2
  <2>4. Ascending(history'[w])
    BY <2>1, <2>2
  <2>5. Pumped(e, {})
    BY <1>1, <1>2, <1>3, <1>4, <1>5, <1>7, <2>1, <2>3, <2>4 DEF Pumped
  <2> QED
    BY <2>5
<1> QED
  BY <1>8, <1>9

(* The marks after a drop.                                                 *)
LEMMA DropMarks ==
  ASSUME TypeOK, NEW h \in 1 .. Cursor, NEW w \in Worlds, log[h].world = w, Drop(h), Visible(h),
         log[h] \in Event, Cursor \in Nat
  PROVE  /\ droppedThrough' >= h /\ droppedThrough' >= droppedThrough
         /\ \A v \in Worlds : v # w => genDropped'[v] = genDropped[v]
         /\ \/ log[h].generation < genDropped[w].generation /\ genDropped'[w] = genDropped[w]
            \/ /\ log[h].generation >= genDropped[w].generation
               /\ genDropped'[w].generation = log[h].generation
               /\ genDropped'[w].cursor[log[h].class] = h
               /\ log[h].generation = genDropped[w].generation =>
                    \A j \in Classes : j # log[h].class =>
                      genDropped'[w].cursor[j] = genDropped[w].cursor[j]
<1>1. PICK g \in Generations, k \in Classes : g = log[h].generation /\ k = log[h].class
  BY DEF Event
<1>2. PICK old \in [generation : Generations \cup {-1}, cursor : [Classes -> 0 .. Cursor]] :
        old = genDropped[w]
  BY DEF TypeOK
<1>3. PICK zero \in [Classes -> 0 .. Cursor] : zero = [j \in Classes |-> 0]
  <2>1. 0 \in 0 .. Cursor
    OBVIOUS
  <2>2. [j \in Classes |-> 0] \in [Classes -> 0 .. Cursor]
    BY <2>1
  <2> QED
    BY <2>2
<1>4. Generations \cup {-1} \subseteq Int
  BY HistoryAssumption
<1>5. g \in Int /\ old.generation \in Int /\ droppedThrough \in Int /\ h \in Int
  <2>1. droppedThrough \in 0 .. Cursor
    BY DEF TypeOK
  <2>2. g \in Int /\ old.generation \in Int
    BY <1>4
  <2> QED
    BY <2>1, <2>2
<1>6. PICK base \in [Classes -> 0 .. Cursor] :
        base = IF g > old.generation THEN zero ELSE old.cursor
  OBVIOUS
<1>7. /\ droppedThrough' = IF h > droppedThrough THEN h ELSE droppedThrough
      /\ genDropped' = IF g < old.generation THEN genDropped
                       ELSE [genDropped EXCEPT ![w] =
                               [generation |-> g, cursor |-> [base EXCEPT ![k] = h]]]
  BY <1>1, <1>2, <1>3, <1>6 DEF Drop
<1>8. droppedThrough' >= h /\ droppedThrough' >= droppedThrough
  BY <1>5, <1>7
<1>9. DOMAIN genDropped = Worlds
  BY DEF TypeOK
<1>10. \A v \in Worlds : v # w => genDropped'[v] = genDropped[v]
  BY <1>7, <1>9
<1>11. CASE g < old.generation
  BY <1>1, <1>2, <1>7, <1>8, <1>10, <1>11
<1>12. CASE ~(g < old.generation)
  <2>1. genDropped'[w] = [generation |-> g, cursor |-> [base EXCEPT ![k] = h]]
    BY <1>7, <1>9, <1>12
  <2>2. /\ genDropped'[w].generation = g /\ genDropped'[w].cursor[k] = h
        /\ \A j \in Classes : j # k => genDropped'[w].cursor[j] = base[j]
    BY <2>1
  <2>3. g >= old.generation /\ (g = old.generation => base = old.cursor)
    BY <1>5, <1>6, <1>12
  <2> QED
    BY <1>1, <1>2, <1>8, <1>10, <2>2, <2>3
<1> QED
  BY <1>11, <1>12

LEMMA LogTypes ==
  ASSUME TypeOK
  PROVE  /\ Cursor \in Nat /\ \A c \in 1 .. Cursor : log[c] \in Event
         /\ \A w \in Worlds : Retained(w) \subseteq 1 .. Cursor
         /\ \A w \in Worlds : counts[w].generation \in Int /\ genDropped[w].generation \in Int
         /\ \A w \in Worlds, k \in Classes : genDropped[w].cursor[k] \in Int
         /\ droppedThrough \in Int
<1>1. Cursor \in Nat /\ \A c \in 1 .. Cursor : log[c] \in Event
  <2>1. log \in Seq(Event)
    BY DEF TypeOK
  <2> QED
    BY <2>1, LenProperties, ElementOfSeq DEF Cursor
<1>2. ASSUME NEW w \in Worlds PROVE Retained(w) \subseteq 1 .. Cursor
  <2>1. PICK q \in Seq(1 .. Cursor) : q = history[w]
    BY DEF TypeOK
  <2>2. DOMAIN q = 1 .. Len(q) /\ \A i \in 1 .. Len(q) : q[i] \in 1 .. Cursor
    BY LenProperties, ElementOfSeq
  <2> QED
    BY <2>1, <2>2 DEF Retained, ToSet
<1>3. Generations \cup {-1} \subseteq Int
  BY HistoryAssumption
<1>4. ASSUME NEW w \in Worlds
      PROVE  /\ counts[w].generation \in Int /\ genDropped[w].generation \in Int
             /\ \A k \in Classes : genDropped[w].cursor[k] \in Int
  <2>1. counts[w] \in [generation : Generations \cup {-1}, n : [Classes -> Nat]]
    BY DEF TypeOK
  <2>2. PICK m \in [generation : Generations \cup {-1}, cursor : [Classes -> 0 .. Cursor]] :
          m = genDropped[w]
    BY DEF TypeOK
  <2>3. counts[w].generation \in Int
    BY <1>3, <2>1
  <2>4. m.generation \in Int
    BY <1>3
  <2>5. \A k \in Classes : m.cursor[k] \in 0 .. Cursor
    OBVIOUS
  <2> QED
    BY <1>1, <2>2, <2>3, <2>4, <2>5
<1>5. droppedThrough \in Int
  <2>1. droppedThrough \in 0 .. Cursor
    BY DEF TypeOK
  <2> QED
    BY <2>1
<1> QED
  BY <1>1, <1>2, <1>4, <1>5

(* After a step of the pump an event is dropped if it was before, or is the*)
(* one that went out.                                                      *)
LEMMA DroppedAfter ==
  ASSUME TypeOK, NewestRetained, NEW e \in Event, NEW out \in SUBSET (1 .. Cursor),
         Pumped(e, out)
  PROVE  /\ \A c \in 1 .. Cursor + 1 :
              Dropped(c)' <=> c # Cursor + 1 /\ (Dropped(c) \/ c \in out)
         /\ \A h \in out : log[h].world = e.world
<1>1. PICK n \in Nat : n = Cursor + 1
  BY LogTypes
<1>2. /\ Cursor \in Nat /\ Cursor' = n /\ 1 .. Cursor' = 1 .. Cursor \cup {n}
      /\ log'[n] = e /\ \A c \in 1 .. Cursor : log'[c] = log[c] /\ log[c] \in Event
  <2>1. Cursor \in Nat /\ \A c \in 1 .. Cursor : log[c] \in Event
    BY LogTypes
  <2>2. Cursor' = n /\ log'[n] = e /\ \A c \in 1 .. Cursor : log'[c] = log[c]
    BY <1>1 DEF Pumped
  <2>3. 1 .. n = 1 .. Cursor \cup {n}
    BY <1>1, <2>1
  <2> QED
    BY <2>1, <2>2, <2>3
<1>3. PICK w \in Worlds : w = e.world
  BY DEF Event
<1>4. PICK old \in [Worlds -> SUBSET (1 .. Cursor)] : \A v \in Worlds : old[v] = Retained(v)
  <2>1. [v \in Worlds |-> Retained(v)] \in [Worlds -> SUBSET (1 .. Cursor)]
    BY LogTypes
  <2> QED
    BY <2>1
<1>5. /\ \A v \in Worlds : v # w => ToSet(history'[v]) = old[v]
      /\ ToSet(history'[w]) = (old[w] \ out) \cup {n}
      /\ out \subseteq old[w]
  BY <1>1, <1>3, <1>4 DEF Pumped, Retained
<1>6. \A c \in 1 .. n : Dropped(c)' <=> c \notin ToSet(history'[log'[c].world])
  BY <1>2 DEF Dropped, Retained
<1>7. \A c \in 1 .. Cursor : Dropped(c) <=> c \notin old[log[c].world]
  BY <1>2, <1>4 DEF Dropped, Event
<1>8. \A h \in out : log[h].world = w
  BY <1>4, <1>5 DEF NewestRetained
<1>9. ~Dropped(n)'
  BY <1>2, <1>3, <1>5 DEF Dropped, Retained
<1>10. ASSUME NEW c \in 1 .. Cursor
       PROVE  Dropped(c)' <=> Dropped(c) \/ c \in out
  <2>1. /\ c \in 1 .. n /\ c # n /\ log'[c].world = log[c].world /\ log[c].world \in Worlds
    BY <1>1, <1>2 DEF Event
  <2>2. Dropped(c)' <=> c \notin ToSet(history'[log[c].world])
    BY <1>6, <2>1
  <2>3. Dropped(c) <=> c \notin old[log[c].world]
    BY <1>7
  <2>4. CASE log[c].world = w
    BY <1>5, <2>1, <2>2, <2>3, <2>4
  <2>5. CASE log[c].world # w
    BY <1>5, <1>8, <2>1, <2>2, <2>3, <2>5
  <2> QED
    BY <2>4, <2>5
<1>11. ASSUME NEW c \in 1 .. n
       PROVE  Dropped(c)' <=> c # n /\ (Dropped(c) \/ c \in out)
  <2>1. Cursor \in Nat
    BY <1>2
  <2>2. c = n \/ (c \in 1 .. Cursor /\ c # n)
    BY <1>1, <2>1
  <2> QED
    BY <1>9, <1>10, <2>2
<1> QED
  BY <1>1, <1>3, <1>8, <1>11

LEMMA PumpKeepsNewest ==
  ASSUME TypeOK, NewestRetained, Pump
  PROVE  NewestRetained'
<1>1. PICK e \in Event, out \in SUBSET (1 .. Cursor) : Pumped(e, out)
  BY PumpRetains
<1>2. PICK n \in Nat : n = Cursor + 1
  BY LogTypes
<1>3. /\ Cursor \in Nat /\ Cursor' = n /\ 1 .. Cursor' = 1 .. Cursor \cup {n}
      /\ log'[n] = e /\ \A c \in 1 .. Cursor : log'[c] = log[c] /\ log[c].world \in Worlds
  <2>1. Cursor \in Nat /\ \A c \in 1 .. Cursor : log[c].world \in Worlds
    BY LogTypes DEF Event
  <2>2. Cursor' = n /\ log'[n] = e /\ \A c \in 1 .. Cursor : log'[c] = log[c]
    BY <1>1, <1>2 DEF Pumped
  <2>3. 1 .. n = 1 .. Cursor \cup {n}
    BY <1>2, <2>1
  <2> QED
    BY <2>1, <2>2, <2>3
<1>4. PICK w \in Worlds : w = e.world
  BY DEF Event
<1>5. PICK old \in [Worlds -> SUBSET (1 .. Cursor)] : \A v \in Worlds : old[v] = Retained(v)
  <2>1. [v \in Worlds |-> Retained(v)] \in [Worlds -> SUBSET (1 .. Cursor)]
    BY LogTypes
  <2> QED
    BY <2>1
<1>6. /\ \A v \in Worlds : v # w => ToSet(history'[v]) = old[v]
      /\ ToSet(history'[w]) = (old[w] \ out) \cup {n}
      /\ \A h \in out : h \in old[w] /\ \A c \in old[w] : h <= c
  BY <1>1, <1>2, <1>4, <1>5 DEF Pumped, Retained
<1>7. \A v \in Worlds : Ascending(history'[v])
  BY <1>1, <1>4 DEF Pumped, NewestRetained
<1>8. ASSUME NEW v \in Worlds, NEW c \in ToSet(history'[v])
      PROVE  log'[c].world = v
  <2>1. CASE c = n /\ v = w
    BY <1>3, <1>4, <2>1
  <2>2. CASE c \in old[v]
    BY <1>3, <1>5, <2>2 DEF NewestRetained
  <2> QED
    BY <1>6, <1>8, <2>1, <2>2
<1>9. ASSUME NEW c \in 1 .. n, Dropped(c)', NEW d \in ToSet(history'[log'[c].world])
      PROVE  c < d
  <2>1. /\ c # n /\ c \in 1 .. Cursor /\ (Dropped(c) \/ c \in out)
        /\ \A h \in out : log[h].world = w
    <3>1. /\ \A b \in 1 .. n : Dropped(b)' <=> b # n /\ (Dropped(b) \/ b \in out)
          /\ \A h \in out : log[h].world = e.world
      BY <1>1, <1>2, DroppedAfter
    <3>2. c # n /\ (Dropped(c) \/ c \in out)
      BY <1>9, <3>1
    <3> QED
      BY <1>2, <1>3, <1>4, <3>1, <3>2
  <2>2. PICK v \in Worlds : v = log[c].world
    BY <1>3, <2>1
  <2>3. d \in ToSet(history'[v])
    BY <1>3, <1>9, <2>1, <2>2
  <2>4. CASE d = n
    BY <1>2, <1>3, <2>1, <2>4
  <2>5. CASE d # n
    <3>1. d \in old[v] /\ (v = w => d \notin out)
      BY <1>6, <2>3, <2>5
    <3>2. CASE Dropped(c)
      BY <1>5, <2>1, <2>2, <3>1, <3>2 DEF NewestRetained
    <3>3. CASE c \in out
      <4>1. v = w /\ c <= d /\ d # c
        BY <1>6, <2>1, <2>2, <3>1, <3>3
      <4>2. c \in Int /\ d \in Int
        BY <1>3, <1>5, <2>1, <3>1
      <4> QED
        BY <4>1, <4>2
    <3> QED
      BY <2>1, <3>2, <3>3
  <2> QED
    BY <2>4, <2>5
<1> QED
  BY <1>3, <1>7, <1>8, <1>9 DEF NewestRetained, Retained

LEMMA CountsGrow ==
  ASSUME TypeOK, TypeOK', NEW e \in Event, NEW projected \in BOOLEAN, Count(e, projected)
  PROVE  /\ \A w \in Worlds : counts[w].generation <= counts'[w].generation
         /\ e.generation <= counts'[e.world].generation
<1>1. PICK w \in Worlds, g \in Generations : w = e.world /\ g = e.generation
  BY DEF Event
<1>2. g \in Int /\ \A v \in Worlds : counts[v].generation \in Int
  BY LogTypes, HistoryAssumption
<1>3. DOMAIN counts = Worlds
  BY DEF TypeOK
<1>4. counts'[w].generation = IF g > counts[w].generation THEN g ELSE counts[w].generation
  BY <1>1, <1>3 DEF Count
<1>5. \A v \in Worlds : v # w => counts'[v] = counts[v]
  BY <1>1, <1>3 DEF Count
<1> QED
  BY <1>1, <1>2, <1>4, <1>5

LEMMA PumpKeepsMarks ==
  ASSUME RetentionInv, TypeOK', Pump
  PROVE  DropsMarked'
<1>1. TypeOK /\ NewestRetained /\ DropsMarked
  BY DEF RetentionInv
<1>2. PICK e \in Event, out \in SUBSET (1 .. Cursor) : Pumped(e, out)
  BY <1>1, PumpRetains
<1>3. PICK n \in Nat : n = Cursor + 1
  BY <1>1, LogTypes
<1>4. /\ Cursor \in Nat /\ Cursor' = n /\ 1 .. Cursor' = 1 .. Cursor \cup {n}
      /\ log'[n] = e /\ \A c \in 1 .. Cursor : log'[c] = log[c] /\ log[c] \in Event
  <2>1. Cursor \in Nat /\ \A c \in 1 .. Cursor : log[c] \in Event
    BY <1>1, LogTypes
  <2>2. Cursor' = n /\ log'[n] = e /\ \A c \in 1 .. Cursor : log'[c] = log[c]
    BY <1>2, <1>3 DEF Pumped
  <2>3. 1 .. n = 1 .. Cursor \cup {n}
    BY <1>3, <2>1
  <2> QED
    BY <2>1, <2>2, <2>3
<1>5. /\ gag' = gag /\ Count(e, e.class \notin gag)
      /\ shown' = IF e.class \notin gag THEN shown \cup {n} ELSE shown
  BY <1>2, <1>3 DEF Pumped
<1>6. PICK w \in Worlds, g \in Generations : w = e.world /\ g = e.generation
  BY DEF Event
<1>7. /\ \A c \in 1 .. n : Dropped(c)' <=> c # n /\ (Dropped(c) \/ c \in out)
      /\ \A h \in out : log[h].world = w
  BY <1>1, <1>2, <1>3, <1>6, DroppedAfter
<1>8. Generations \subseteq Int
  BY HistoryAssumption
<1>9. /\ \A v \in Worlds : /\ counts[v].generation \in Int /\ counts'[v].generation \in Int
                           /\ genDropped[v].generation \in Int
                           /\ \A k \in Classes : genDropped[v].cursor[k] \in Int
      /\ droppedThrough \in Int /\ droppedThrough' \in Int
  <2>1. /\ \A v \in Worlds : counts'[v].generation \in Int
        /\ droppedThrough' \in Int
    <3>1. \A v \in Worlds : counts'[v].generation \in Generations \cup {-1}
      BY DEF TypeOK
    <3>2. droppedThrough' \in 0 .. Cursor'
      BY DEF TypeOK
    <3>3. Generations \cup {-1} \subseteq Int
      BY <1>8
    <3>4. droppedThrough' \in Int
      BY <1>4, <3>2
    <3> QED
      BY <3>1, <3>3, <3>4
  <2> QED
    BY <1>1, <2>1, LogTypes
<1>10. /\ \A v \in Worlds : counts[v].generation <= counts'[v].generation
       /\ g <= counts'[w].generation
  BY <1>1, <1>5, <1>6, CountsGrow
<1>11. \A c \in 1 .. n : log'[c].generation <= counts'[log'[c].world].generation
  <2>1. SUFFICES ASSUME NEW c \in 1 .. n
                 PROVE  log'[c].generation <= counts'[log'[c].world].generation
    OBVIOUS
  <2>2. CASE c = n
    BY <1>4, <1>6, <1>10, <2>2
  <2>3. CASE c # n
    <3>1. c \in 1 .. Cursor /\ log'[c] = log[c] /\ log[c] \in Event
      BY <1>4, <2>3
    <3>2. log[c].generation \in Int /\ log[c].world \in Worlds
      BY <1>8, <3>1 DEF Event
    <3>3. log[c].generation <= counts[log[c].world].generation
      BY <1>1, <3>1 DEF DropsMarked
    <3> QED
      BY <1>9, <1>10, <3>1, <3>2, <3>3
  <2> QED
    BY <2>2, <2>3
<1>12. \A c \in 1 .. Cursor : /\ Visible(c)' <=> Visible(c)
                              /\ SteadilyVisible(c)' <=> SteadilyVisible(c)
  BY <1>4, <1>5 DEF Visible, SteadilyVisible
(* Nothing visible goes out. *)
<1>13. CASE \A h \in out : ~Visible(h)
  <2>1. UNCHANGED <<droppedThrough, genDropped>>
    <3>1. out = {} \/ \E h \in out : Drop(h) /\ ~Visible(h)
      BY <1>2, <1>13 DEF Pumped
    <3> QED
      BY <1>2, <3>1 DEF Pumped, Drop
  <2>2. ASSUME NEW c \in 1 .. n, Dropped(c)', SteadilyVisible(c)'
        PROVE  Marked(c)'
    <3>1. c \in 1 .. Cursor /\ (Dropped(c) \/ c \in out)
      BY <1>4, <1>7, <2>2
    <3>2. Visible(c) /\ SteadilyVisible(c) /\ log'[c] = log[c]
      BY <1>4, <1>12, <2>2, <3>1 DEF SteadilyVisible
    <3>3. Marked(c)
      BY <1>1, <1>13, <3>1, <3>2 DEF DropsMarked
    <3> QED
      BY <2>1, <3>2, <3>3 DEF Marked
  <2>3. \A v \in Worlds : genDropped'[v].generation <= counts'[v].generation
    BY <1>1, <1>9, <1>10, <2>1 DEF DropsMarked
  <2> QED
    BY <1>4, <1>11, <2>2, <2>3 DEF DropsMarked
(* A visible event goes out: the marks move past it. *)
<1>14. ASSUME NEW h \in out, Visible(h)
       PROVE  DropsMarked'
  <2>1. h \in 1 .. Cursor /\ log[h].world = w /\ log[h] \in Event /\ Drop(h)
    BY <1>2, <1>4, <1>7 DEF Pumped
  <2>2. PICK gh \in Generations, k \in Classes : gh = log[h].generation /\ k = log[h].class
    BY <2>1 DEF Event
  <2>3. out = {h}
    <3>1. SUFFICES ASSUME NEW x \in out PROVE x = h
      OBVIOUS
    <3>2. x <= h /\ h <= x
      BY <1>2 DEF Pumped
    <3>3. x \in Int /\ h \in Int
      <4>1. x \in 1 .. Cursor /\ h \in 1 .. Cursor
        OBVIOUS
      <4>2. 1 .. Cursor \subseteq Int
        OBVIOUS
      <4> QED
        BY <4>1, <4>2
    <3> QED
      BY <3>2, <3>3
  <2>4. /\ droppedThrough' >= h /\ droppedThrough' >= droppedThrough
        /\ \A v \in Worlds : v # w => genDropped'[v] = genDropped[v]
        /\ \/ gh < genDropped[w].generation /\ genDropped'[w] = genDropped[w]
           \/ /\ gh >= genDropped[w].generation
              /\ genDropped'[w].generation = gh
              /\ genDropped'[w].cursor[k] = h
              /\ gh = genDropped[w].generation =>
                   \A j \in Classes : j # k =>
                     genDropped'[w].cursor[j] = genDropped[w].cursor[j]
    BY <1>1, <1>4, <1>14, <2>1, <2>2, DropMarks
  <2>5. ASSUME NEW c \in 1 .. n, Dropped(c)', SteadilyVisible(c)'
        PROVE  Marked(c)'
    <3>1. c \in 1 .. Cursor /\ (Dropped(c) \/ c = h)
      BY <1>4, <1>7, <2>3, <2>5
    <3>2. Visible(c) /\ SteadilyVisible(c) /\ log'[c] = log[c]
      BY <1>4, <1>12, <2>5, <3>1 DEF SteadilyVisible
    <3>3. PICK v \in Worlds, gc \in Generations, j \in Classes :
            v = log[c].world /\ gc = log[c].generation /\ j = log[c].class
      BY <1>4, <3>1 DEF Event
    <3>4. gc \in Int /\ gh \in Int /\ c \in Int /\ h \in Int
      BY <1>4, <1>8, <2>1, <3>1
    <3>5. /\ c <= droppedThrough'
          /\ gc <= genDropped'[v].generation
          /\ gc = genDropped'[v].generation => c <= genDropped'[v].cursor[j]
      <4>1. CASE c = h
        <5>1. v = w /\ gc = gh /\ j = k
          BY <2>1, <2>2, <3>3, <4>1
        <5>2. genDropped[w].generation \in Int
          BY <1>9
        <5> QED
          BY <2>4, <3>4, <4>1, <5>1, <5>2
      <4>2. CASE Dropped(c)
        <5>1. /\ c <= droppedThrough /\ gc <= genDropped[v].generation
              /\ gc = genDropped[v].generation => c <= genDropped[v].cursor[j]
          BY <1>1, <3>1, <3>2, <3>3, <4>2 DEF DropsMarked, Marked
        <5>2. c <= droppedThrough'
          BY <1>9, <2>4, <3>4, <5>1
        <5>3. CASE v # w
          BY <2>4, <5>1, <5>2, <5>3
        <5>4. CASE v = w
          <6>1. c < h
            <7>1. h \in Retained(w)
              BY <1>2, <1>6 DEF Pumped, Retained
            <7> QED
              BY <1>1, <3>1, <3>3, <4>2, <5>4, <7>1 DEF NewestRetained
          <6>2. /\ genDropped[w].generation \in Int /\ genDropped[w].cursor[j] \in Int
            BY <1>9
          <6>3. CASE gh < genDropped[w].generation
            BY <2>4, <3>4, <5>1, <5>2, <5>4, <6>2, <6>3
          <6>4. CASE gh = genDropped[w].generation
            BY <2>4, <3>4, <5>1, <5>2, <5>4, <6>1, <6>2, <6>4
          <6>5. CASE gh > genDropped[w].generation
            BY <2>4, <3>4, <5>1, <5>2, <5>4, <6>1, <6>2, <6>5
          <6> QED
            BY <3>4, <6>2, <6>3, <6>4, <6>5
        <5> QED
          BY <5>3, <5>4
      <4> QED
        BY <3>1, <4>1, <4>2
    <3> QED
      BY <3>2, <3>3, <3>5 DEF Marked
  <2>6. ASSUME NEW v \in Worlds
        PROVE  genDropped'[v].generation <= counts'[v].generation
    <3>1. genDropped[v].generation <= counts[v].generation
      BY <1>1 DEF DropsMarked
    <3>2. gh <= counts[w].generation
      BY <1>1, <2>1, <2>2 DEF DropsMarked
    <3>3. gh \in Int
      BY <1>8
    <3>4. CASE v = w
      BY <1>9, <1>10, <2>4, <3>1, <3>2, <3>3, <3>4
    <3>5. CASE v # w
      BY <1>9, <1>10, <2>4, <3>1, <3>5
    <3> QED
      BY <3>4, <3>5
  <2> QED
    BY <1>4, <1>11, <2>5, <2>6 DEF DropsMarked
<1> QED
  BY <1>13, <1>14

(* What the marks are for.                                                 *)
LEMMA MarksReport ==
  RetentionInv => TruncationReported /\ GapsReported
  <1> SUFFICES ASSUME RetentionInv, NEW r \in Requests, NEW after \in 0 .. Cursor
               PROVE  /\ r.includeHistory /\ ~Truncated(r, after) =>
                            Wanted(r, after) \subseteq Selected(r, after)
                      /\ \A c \in Wanted(r, after) \ Selected(r, after) :
                           log[c].generation = counts[log[c].world].generation
                             => Key(c) \in AfterCursorGaps(r, after)
    BY DEF TruncationReported, GapsReported
  <1>1. /\ after # None /\ after \in Nat /\ Cursor \in Nat
        /\ droppedThrough \in Nat /\ droppedThrough <= Cursor
    BY DEF RetentionInv, TypeOK, Cursor
  <1>0. Generations \cup {-1} \subseteq Int
    OBVIOUS
  <1>2. r.worlds \subseteq Worlds /\ r.classes \subseteq Classes
    BY DEF Request
  <1>3. ASSUME NEW c \in Wanted(r, after), ~(c \in Candidates(r, after))
        PROVE  Dropped(c) /\ Marked(c) /\ c > after
    <2>1. c \in 1 .. Cursor /\ c > after /\ Visible(c) /\ SteadilyVisible(c)
          /\ log[c].world \in r.worlds /\ log[c].class \in r.classes
      BY <1>1 DEF Wanted, After, SteadilyVisible, RetentionInv, TypeOK
    <2>2. c \notin Retained(log[c].world)
      BY <1>1, <1>3, <2>1 DEF Candidates, After
    <2> QED
      BY <2>1, <2>2 DEF Dropped, RetentionInv, DropsMarked
  <1>4. ASSUME r.includeHistory, ~Truncated(r, after), NEW c \in Wanted(r, after)
        PROVE  c \in Selected(r, after)
    <2>1. Candidates(r, after) = Selected(r, after) /\ ~(after < droppedThrough)
      BY <1>1, <1>4 DEF Truncated
    <2>2. CASE c \in Candidates(r, after)
      BY <2>1, <2>2
    <2>3. CASE c \notin Candidates(r, after)
      <3>1. Marked(c) /\ c > after /\ Dropped(c)
        BY <1>3, <2>3
      <3> QED
        BY <1>1, <2>1, <3>1 DEF Marked, Dropped
    <2> QED
      BY <2>2, <2>3
  <1>5. ASSUME NEW c \in Wanted(r, after), c \notin Selected(r, after),
               log[c].generation = counts[log[c].world].generation
        PROVE  Key(c) \in AfterCursorGaps(r, after)
    <2>1. CASE c \in Candidates(r, after)
      BY <1>1, <1>5, <2>1 DEF AfterCursorGaps
    <2>2. CASE c \notin Candidates(r, after)
      <3> DEFINE w == log[c].world
                 k == log[c].class
      <3>1. Dropped(c) /\ Marked(c) /\ c > after
        BY <1>3, <2>2
      <3>2. w \in r.worlds /\ k \in r.classes /\ w \in Worlds /\ k \in Classes
        BY <1>2 DEF Wanted
      <3>3. log \in Seq(Event) /\ c \in 1 .. Len(log)
        BY <3>1 DEF RetentionInv, TypeOK, Dropped, Cursor
      <3>4. log[c] \in Event
        BY <3>3, ElementOfSeq
      <3>5. log[c].generation \in Int
        BY <1>0, <3>4 DEF Event
      <3>6. /\ genDropped[w].generation \in Int /\ genDropped[w].cursor[k] \in Int
            /\ counts[w].generation \in Int
        <4>1. genDropped[w] \in [generation : Generations \cup {-1}, cursor : [Classes -> 0 .. Cursor]]
          BY <3>2 DEF RetentionInv, TypeOK
        <4>2. counts[w] \in [generation : Generations \cup {-1}, n : [Classes -> Nat]]
          BY <3>2 DEF RetentionInv, TypeOK
        <4> HIDE DEF w, k
        <4>3. genDropped[w].cursor[k] \in 0 .. Cursor
          BY <3>2, <4>1
        <4>4. genDropped[w].generation \in Int
          BY <1>0, <4>1
        <4>5. counts[w].generation \in Int
          BY <1>0, <4>2
        <4>6. genDropped[w].cursor[k] \in Int
          BY <1>1, <4>3
        <4> QED
          BY <4>4, <4>5, <4>6
      <3>7. genDropped[w].generation <= counts[w].generation
        BY <3>2 DEF RetentionInv, DropsMarked
      <3>8. /\ log[c].generation <= genDropped[w].generation
            /\ log[c].generation = genDropped[w].generation => c <= genDropped[w].cursor[k]
        BY <3>1 DEF Marked
      <3>9. log[c].generation = genDropped[w].generation
        BY <1>5, <3>5, <3>6, <3>7, <3>8
      <3>10. genDropped[w].cursor[k] > after
        BY <1>1, <3>1, <3>3, <3>6, <3>8, <3>9 DEF Cursor
      <3>11. Key(c) = <<w, genDropped[w].generation>>
        BY <3>9 DEF Key
      <3> QED
        BY <1>1, <3>2, <3>10, <3>11 DEF AfterCursorGaps
    <2> QED
      BY <2>1, <2>2
  <1> QED
    BY <1>4, <1>5

LEMMA StepRetention ==
  RetentionInv /\ [Next]_vars => RetentionInv'
  <1> SUFFICES ASSUME RetentionInv, [Next]_vars PROVE RetentionInv'
    OBVIOUS
  <1>1. TypeOK'
    BY StepTypeOK DEF RetentionInv
  <1>2. CASE Pump
    <2>1. TypeOK /\ NewestRetained
      BY DEF RetentionInv
    <2> QED
      BY <1>1, <1>2, <2>1, PumpKeepsNewest, PumpKeepsMarks DEF RetentionInv
  <1>3. CASE UNCHANGED <<log, shown, retention>>
    <2>1. UNCHANGED <<log, shown, history, counts, droppedThrough, genDropped>>
      BY <1>3 DEF retention
    <2>2. Cursor' = Cursor /\ \A w : Retained(w)' = Retained(w)
      BY <2>1 DEF Cursor, Retained
    <2>3. \A c : (Dropped(c)' <=> Dropped(c)) /\ (Marked(c)' <=> Marked(c))
      BY <2>1, <2>2 DEF Dropped, Marked
    <2>4. NewestRetained'
      BY <2>1, <2>2, <2>3 DEF RetentionInv, NewestRetained
    <2>5. gag \in GagSettings /\ gag' \in GagSettings
      BY <1>1 DEF RetentionInv, TypeOK
    <2>6. \A c : SteadilyVisible(c)' => SteadilyVisible(c)
      BY <2>1, <2>5 DEF SteadilyVisible, Visible, Steady
    <2>7. DropsMarked'
      BY <2>1, <2>2, <2>3, <2>6 DEF RetentionInv, DropsMarked
    <2> QED
      BY <1>1, <2>4, <2>7 DEF RetentionInv
  <1> QED
    BY <1>2, <1>3 DEF Next, Publish, Subscribe, Take, Unsubscribe, ManageGag, StopJoin, StopClose,
       vars, retention

LEMMA InitRetention == Init => RetentionInv
  <1> SUFFICES ASSUME Init PROVE RetentionInv
    OBVIOUS
  <1>1. TypeOK
    BY InitTypeOK
  <1>2. Cursor = 0 /\ 1 .. Cursor = {} /\ shown = {}
    BY DEF Init, Cursor
  <1>3. ASSUME NEW w \in Worlds PROVE Ascending(history[w]) /\ Retained(w) = {}
    BY DEF Init, Ascending, Retained, ToSet
  <1>4. ASSUME NEW w \in Worlds PROVE genDropped[w].generation <= counts[w].generation
    BY DEF Init, Unmarked
  <1> QED
    BY <1>1, <1>2, <1>3, <1>4 DEF RetentionInv, NewestRetained, DropsMarked
-----------------------------------------------------------------------------
(* The counts.  Sum is the number of pairs of a member and a number up to  *)
(* its count; a count that goes up adds one pair.                          *)
Pairs(n, S) == UNION {{x} \X (1 .. n[x]) : x \in S}

LEMMA PairsMember ==
  ASSUME NEW n, NEW S, NEW x, NEW j
  PROVE  <<x, j>> \in Pairs(n, S) <=> x \in S /\ j \in 1 .. n[x]
  BY DEF Pairs

LEMMA PairsArePairs ==
  ASSUME NEW n, NEW S, NEW p \in Pairs(n, S)
  PROVE  \E x \in S : \E j \in 1 .. n[x] : p = <<x, j>>
  BY DEF Pairs

LEMMA NoPairs ==
  ASSUME NEW n, NEW S, \A x \in S : n[x] = 0
  PROVE  Pairs(n, S) = {}
<1>1. \A x \in S : 1 .. n[x] = {}
  OBVIOUS
<1> QED
  BY <1>1, PairsArePairs

LEMMA PairsGrow ==
  ASSUME NEW n, NEW S, NEW m, NEW k \in S, n[k] \in Nat, m[k] = n[k] + 1,
         \A x \in S : x # k => m[x] = n[x]
  PROVE  /\ Pairs(m, S) = Pairs(n, S) \cup {<<k, n[k] + 1>>}
         /\ <<k, n[k] + 1>> \notin Pairs(n, S)
<1>1. 1 .. m[k] = 1 .. n[k] \cup {n[k] + 1}
  OBVIOUS
<1>2. <<k, n[k] + 1>> \notin Pairs(n, S)
  BY PairsMember
<1>3. ASSUME NEW p \in Pairs(m, S) PROVE p \in Pairs(n, S) \cup {<<k, n[k] + 1>>}
  <2>1. PICK x \in S : \E j \in 1 .. m[x] : p = <<x, j>>
    BY <1>3, PairsArePairs
  <2>2. PICK j \in 1 .. m[x] : p = <<x, j>>
    BY <2>1
  <2>3. CASE x # k
    <3>1. j \in 1 .. n[x]
      BY <2>2, <2>3
    <3> QED
      BY <2>2, <3>1, PairsMember
  <2>4. CASE x = k
    <3>1. j \in 1 .. n[k] \/ j = n[k] + 1
      BY <1>1, <2>2, <2>4
    <3>2. j \in 1 .. n[k] => p \in Pairs(n, S)
      BY <2>2, <2>4, PairsMember
    <3> QED
      BY <2>2, <2>4, <3>1, <3>2
  <2> QED
    BY <2>3, <2>4
<1>4. ASSUME NEW p \in Pairs(n, S) PROVE p \in Pairs(m, S)
  <2>1. PICK x \in S : \E j \in 1 .. n[x] : p = <<x, j>>
    BY <1>4, PairsArePairs
  <2>2. PICK j \in 1 .. n[x] : p = <<x, j>>
    BY <2>1
  <2>3. j \in 1 .. m[x]
    BY <1>1, <2>2
  <2> QED
    BY <2>2, <2>3, PairsMember
<1>5. <<k, n[k] + 1>> \in Pairs(m, S)
  <2>1. n[k] + 1 \in 1 .. m[k]
    BY <1>1
  <2> QED
    BY <2>1, PairsMember
<1> QED
  BY <1>2, <1>3, <1>4, <1>5

LEMMA PairsFinite ==
  ASSUME NEW S, IsFiniteSet(S), NEW n \in [S -> Nat]
  PROVE  IsFiniteSet(Pairs(n, S))
<1>1. PICK f : f = [x \in S |-> {x} \X (1 .. n[x])]
  OBVIOUS
<1>2. \A x \in S : IsFiniteSet(f[x])
  <2>1. SUFFICES ASSUME NEW x \in S PROVE IsFiniteSet({x} \X (1 .. n[x]))
    BY <1>1
  <2>2. IsFiniteSet({x}) /\ IsFiniteSet(1 .. n[x])
    <3>1. PICK a \in Int : a = n[x]
      OBVIOUS
    <3>2. IsFiniteSet(1 .. a)
      BY FS_Interval
    <3> QED
      BY <3>1, <3>2, FS_Singleton
  <2> QED
    BY <2>2, FS_Product
<1>3. PICK T : T = {{x} \X (1 .. n[x]) : x \in S}
  OBVIOUS
<1>4. f \in Surjection(S, T)
  BY <1>1, <1>3 DEF Surjection
<1>5. IsFiniteSet(T)
  BY <1>4, FS_Surjection
<1>6. \A t \in T : IsFiniteSet(t)
  <2>1. \A t \in T : \E x \in S : t = f[x]
    BY <1>1, <1>3
  <2> QED
    BY <1>2, <2>1
<1>7. IsFiniteSet(UNION T)
  BY <1>5, <1>6, FS_UNION
<1> QED
  BY <1>3, <1>7 DEF Pairs

(* A set takes at least the bytes of its subsets.                          *)
LEMMA BytesGrow ==
  ASSUME TypeOK, NEW T \in SUBSET (1 .. Cursor), NEW S \in SUBSET T
  PROVE  Bytes(S) \in Nat /\ Bytes(T) \in Nat /\ Bytes(S) <= Bytes(T)
<1>1. Cursor \in Nat /\ \A c \in 1 .. Cursor : log[c].class \in Classes
  BY LogTypes DEF Event
<1>2. IsFiniteSet(T) /\ IsFiniteSet(S)
  <2>1. IsFiniteSet(1 .. Cursor)
    BY <1>1, FS_Interval
  <2>2. IsFiniteSet(T)
    BY <2>1, FS_Subset
  <2> QED
    BY <2>2, FS_Subset
<1>3. PICK m \in [T -> Nat] : m = [c \in T |-> SourceBytes[log[c].class]]
  <2>1. \A c \in T : SourceBytes[log[c].class] \in Nat
    BY <1>1
  <2> QED
    BY <2>1
<1>4. PICK n \in [S -> Nat] : n = [c \in S |-> SourceBytes[log[c].class]]
  <2>1. \A c \in S : SourceBytes[log[c].class] \in Nat
    BY <1>1
  <2> QED
    BY <2>1
<1>5. IsFiniteSet(Pairs(m, T)) /\ IsFiniteSet(Pairs(n, S))
  BY <1>2, PairsFinite
<1>6. Pairs(n, S) \subseteq Pairs(m, T)
  <2>1. \A c \in S : n[c] = m[c] /\ c \in T
    BY <1>3, <1>4
  <2> QED
    BY <2>1 DEF Pairs
<1>7. Bytes(S) = Cardinality(Pairs(n, S)) /\ Bytes(T) = Cardinality(Pairs(m, T))
  BY <1>3, <1>4 DEF Bytes, Sum, Pairs
<1>8. Cardinality(Pairs(n, S)) <= Cardinality(Pairs(m, T))
  BY <1>5, <1>6, FS_Subset
<1>9. Cardinality(Pairs(n, S)) \in Nat /\ Cardinality(Pairs(m, T)) \in Nat
  BY <1>5, FS_CardinalityType
<1> QED
  BY <1>7, <1>8, <1>9

AtLeast(c, T) == {x \in T : x >= c}

LEMMA NewerLess ==
  ASSUME NEW C \in Nat, NEW T \in SUBSET (1 .. C), NEW c \in 1 .. C, NEW d \in 1 .. C, d > c
  PROVE  /\ AtLeast(d, T) \in SUBSET AtLeast(c, T) /\ AtLeast(c, T) \in SUBSET (1 .. C)
         /\ Cardinality(AtLeast(d, T)) \in Nat /\ Cardinality(AtLeast(c, T)) \in Nat
         /\ Cardinality(AtLeast(d, T)) <= Cardinality(AtLeast(c, T))
<1>0. PICK N, M : N = AtLeast(d, T) /\ M = AtLeast(c, T)
  OBVIOUS
<1>1. N \in SUBSET M
  <2>1. SUFFICES ASSUME NEW x \in T, x >= d PROVE x >= c
    BY <1>0 DEF AtLeast
  <2>2. x \in Int /\ c \in Int /\ d \in Int
    OBVIOUS
  <2> QED
    BY <2>1, <2>2
<1>2. M \in SUBSET (1 .. C)
  BY <1>0 DEF AtLeast
<1>3. IsFiniteSet(M)
  <2>1. IsFiniteSet(1 .. C)
    BY FS_Interval
  <2> QED
    BY <1>2, <2>1, FS_Subset
<1>4. IsFiniteSet(N) /\ Cardinality(N) <= Cardinality(M)
  BY <1>1, <1>3, FS_Subset
<1> QED
  BY <1>0, <1>1, <1>2, <1>3, <1>4, FS_CardinalityType

(* What the bounds admit of an event they admit of the newer ones.         *)
LEMMA CapsCutOldEnd ==
  TypeOK => SnapshotIsSuffix
<1> SUFFICES ASSUME TypeOK, NEW r \in Requests, NEW after \in (0 .. Cursor) \cup {None},
                    NEW c \in Selected(r, after), NEW d \in Candidates(r, after),
                    d > c, log[d].world = log[c].world
             PROVE  d \in Selected(r, after)
  BY DEF SnapshotIsSuffix
<1>1. PICK C \in Nat : C = Cursor
  BY LogTypes
<1>2. PICK S \in SUBSET (1 .. C) : S = Candidates(r, after)
  <2>1. r.worlds \subseteq Worlds
    BY DEF Request
  <2>2. Candidates(r, after) \subseteq 1 .. Cursor
    BY <2>1, LogTypes DEF Candidates
  <2> QED
    BY <1>1, <2>2
<1>3. PICK W \in SUBSET S : W = {x \in S : log[x].world = log[c].world}
  OBVIOUS
<1>4. PICK capped \in SUBSET S :
        capped = {x \in S : Within(Cardinality(AtLeast(x, {y \in S : log[y].world = log[x].world})),
                                   r.perWorld)}
  OBVIOUS
<1>5. \A x \in S : x \in Selected(r, after) <=>
        /\ x \in capped
        /\ r.includeHistory
        /\ Within(Cardinality(AtLeast(x, capped)), r.maximum)
        /\ r.perWorld # None => Within(Bytes(AtLeast(x, capped)), r.bytes)
  BY <1>2, <1>4 DEF Selected, AtLeast
<1>6. c \in S /\ d \in S /\ c \in 1 .. C /\ d \in 1 .. C
  BY <1>2 DEF Selected
<1>7. r \in Request
  OBVIOUS
<1>8. \A x, y \in Nat, b \in Nat \cup {None} : x <= y /\ Within(y, b) => Within(x, b)
  BY DEF Within
<1>9. d \in capped
  <2>1. PICK N, M : N = AtLeast(d, W) /\ M = AtLeast(c, W)
    OBVIOUS
  <2>2. /\ Cardinality(N) \in Nat /\ Cardinality(M) \in Nat
        /\ Cardinality(N) <= Cardinality(M)
    BY <1>6, <2>1, NewerLess
  <2>3. Within(Cardinality(M), r.perWorld)
    BY <1>3, <1>4, <1>5, <1>6, <2>1
  <2>4. r.perWorld \in Nat \cup {None}
    BY <1>7 DEF Request
  <2>5. Within(Cardinality(N), r.perWorld)
    BY <1>8, <2>2, <2>3, <2>4
  <2>6. {y \in S : log[y].world = log[d].world} = W
    BY <1>3
  <2> QED
    BY <1>4, <1>6, <2>1, <2>5, <2>6
<1>10. PICK N, M : N = AtLeast(d, capped) /\ M = AtLeast(c, capped)
  OBVIOUS
<1>11. /\ N \in SUBSET M /\ M \in SUBSET (1 .. Cursor)
       /\ Cardinality(N) \in Nat /\ Cardinality(M) \in Nat
       /\ Cardinality(N) <= Cardinality(M)
  BY <1>1, <1>6, <1>10, NewerLess
<1>12. /\ r.includeHistory /\ Within(Cardinality(M), r.maximum)
       /\ r.perWorld # None => Within(Bytes(M), r.bytes)
  BY <1>5, <1>6, <1>10
<1>13. r.maximum \in Nat \cup {None} /\ r.bytes \in Nat \cup {None}
  BY <1>7 DEF Request
<1>14. Within(Cardinality(N), r.maximum)
  BY <1>8, <1>11, <1>12, <1>13
<1>15. Bytes(N) \in Nat /\ Bytes(M) \in Nat /\ Bytes(N) <= Bytes(M)
  BY <1>11, BytesGrow
<1>16. r.perWorld # None => Within(Bytes(N), r.bytes)
  BY <1>8, <1>12, <1>13, <1>15
<1> QED
  BY <1>5, <1>6, <1>9, <1>10, <1>12, <1>14, <1>16

(* The counts of a world stand for the events shown of its newest          *)
(* generation, and that generation is one of the log.                      *)
ShownOf(w, K, g) ==
  {c \in shown : log[c].world = w /\ log[c].class \in K /\ log[c].generation = g}

Counted(w) ==
  /\ \A c \in 1 .. Cursor : log[c].world = w => log[c].generation <= counts[w].generation
  /\ \/ counts[w].generation = -1
     \/ \E c \in 1 .. Cursor : log[c].world = w /\ log[c].generation = counts[w].generation
  /\ \A K \in SUBSET Classes :
       /\ IsFiniteSet(Pairs(counts[w].n, K))
       /\ Cardinality(Pairs(counts[w].n, K)) =
            Cardinality(ShownOf(w, K, counts[w].generation))

CountsInv == TypeOK /\ \A w \in Worlds : Counted(w)

LEMMA CountsInvExact == CountsInv => CountsExact
<1> SUFFICES ASSUME CountsInv, NEW r \in Requests, NEW w \in r.worlds
             PROVE  AvailableCount(r, w) =
                      Cardinality({c \in shown : /\ log[c].world = w /\ log[c].class \in r.classes
                                                 /\ \A d \in 1 .. Cursor : log[d].world = w =>
                                                      log[d].generation <= log[c].generation})
  BY DEF CountsExact
<1>1. TypeOK /\ shown \subseteq 1 .. Cursor
  BY DEF CountsInv, TypeOK
<1>2. w \in Worlds /\ r.classes \in SUBSET Classes
  BY DEF Request
<1>3. Counted(w)
  BY <1>2 DEF CountsInv
<1>4. PICK g \in Int : g = counts[w].generation
  BY <1>1, <1>2, LogTypes
<1>5. \A c \in 1 .. Cursor : log[c].generation \in Nat
  BY <1>1, LogTypes DEF Event
<1>6. ASSUME NEW c \in shown, log[c].world = w
      PROVE  (\A d \in 1 .. Cursor : log[d].world = w => log[d].generation <= log[c].generation)
               <=> log[c].generation = g
  <2>1. c \in 1 .. Cursor /\ log[c].generation \in Nat /\ log[c].generation <= g
    BY <1>1, <1>3, <1>4, <1>5, <1>6 DEF Counted
  <2>2. \A d \in 1 .. Cursor : log[d].world = w => log[d].generation <= g
    BY <1>3, <1>4 DEF Counted
  <2>3. g # -1
    BY <2>1
  <2>4. PICK h \in 1 .. Cursor : log[h].world = w /\ log[h].generation = g
    BY <1>3, <1>4, <2>3 DEF Counted
  <2>5. log[c].generation = g =>
          \A d \in 1 .. Cursor : log[d].world = w => log[d].generation <= log[c].generation
    BY <2>2
  <2>6. (\A d \in 1 .. Cursor : log[d].world = w => log[d].generation <= log[c].generation)
          => log[c].generation = g
    BY <2>1, <2>4
  <2> QED
    BY <2>5, <2>6
<1>7. {c \in shown : /\ log[c].world = w /\ log[c].class \in r.classes
                     /\ \A d \in 1 .. Cursor : log[d].world = w =>
                          log[d].generation <= log[c].generation}
        = ShownOf(w, r.classes, g)
  BY <1>6 DEF ShownOf
<1>8. AvailableCount(r, w) = Cardinality(Pairs(counts[w].n, r.classes))
  BY DEF AvailableCount, Sum, Pairs
<1> QED
  BY <1>2, <1>3, <1>4, <1>7, <1>8 DEF Counted

LEMMA InitCounts == Init => CountsInv
<1> SUFFICES ASSUME Init PROVE CountsInv
  OBVIOUS
<1>1. TypeOK /\ 1 .. Cursor = {} /\ shown = {}
  BY InitTypeOK DEF Init, Cursor
<1>2. ASSUME NEW w \in Worlds, NEW K \in SUBSET Classes
      PROVE  /\ IsFiniteSet(Pairs(counts[w].n, K))
             /\ Cardinality(Pairs(counts[w].n, K)) =
                  Cardinality(ShownOf(w, K, counts[w].generation))
  <2>1. \A k \in K : counts[w].n[k] = 0
    BY DEF Init
  <2>2. Pairs(counts[w].n, K) = {}
    BY <2>1, NoPairs
  <2>3. ShownOf(w, K, counts[w].generation) = {}
    BY <1>1 DEF ShownOf
  <2> QED
    BY <2>2, <2>3, FS_EmptySet
<1>3. \A w \in Worlds : counts[w].generation = -1
  BY DEF Init
<1> QED
  BY <1>1, <1>2, <1>3 DEF CountsInv, Counted

(* The cardinality of a set that one new element may join.                 *)
LEMMA OneMore ==
  ASSUME NEW S, IsFiniteSet(S), NEW T, NEW x, x \notin S, T = S \cup {x}
  PROVE  IsFiniteSet(T) /\ Cardinality(T) = Cardinality(S) + 1
  BY FS_AddElement

LEMMA PumpCounts ==
  ASSUME CountsInv, TypeOK', Pump
  PROVE  \A w \in Worlds : Counted(w)'
<1>1. TypeOK
  BY DEF CountsInv
<1>2. PICK e \in Event : /\ log' = Append(log, e) /\ Count(e, e.class \notin gag)
                         /\ shown' = IF e.class \notin gag THEN shown \cup {Cursor + 1} ELSE shown
  <2>1. Head(ingress) \in Event
    <3>1. ingress \in Seq(Event) /\ ingress # <<>>
      BY <1>1 DEF TypeOK, Pump
    <3> QED
      BY <3>1, HeadTailProperties
  <2> QED
    BY <2>1 DEF Pump
<1>3. PICK C \in Nat : C = Cursor
  BY <1>1, LogTypes
<1>4. /\ Cursor' = C + 1 /\ 1 .. Cursor' = 1 .. C \cup {C + 1}
      /\ log'[C + 1] = e /\ \A c \in 1 .. C : log'[c] = log[c] /\ log[c] \in Event
  <2>1. log \in Seq(Event) /\ \A c \in 1 .. C : log[c] \in Event
    BY <1>1, <1>3, LogTypes DEF TypeOK
  <2>2. Cursor' = C + 1 /\ log'[C + 1] = e /\ \A c \in 1 .. C : log'[c] = log[c]
    BY <1>2, <1>3, <2>1, AppendProperties DEF Cursor
  <2>3. 1 .. C + 1 = 1 .. C \cup {C + 1}
    OBVIOUS
  <2> QED
    BY <2>1, <2>2, <2>3
<1>5. PICK w \in Worlds, g \in Generations, k \in Classes : w = e.world /\ g = e.generation /\ k = e.class
  BY DEF Event
<1>6. PICK p \in BOOLEAN : p <=> e.class \notin gag
  OBVIOUS
<1>7. shown \subseteq 1 .. C /\ C + 1 \notin 1 .. C
  BY <1>1, <1>3 DEF TypeOK
<1>8. \A v \in Worlds : counts[v] \in [generation : Generations \cup {-1}, n : [Classes -> Nat]]
  BY <1>1 DEF TypeOK
<1>9. Generations \subseteq Nat /\ Generations \cup {-1} \subseteq Int
  BY HistoryAssumption
<1>10. PICK old \in [generation : Generations \cup {-1}, n : [Classes -> Nat]] : old = counts[w]
  BY <1>8
<1>11. /\ old.generation \in Int /\ g \in Nat
       /\ \A c \in 1 .. C : log[c].world = w => log[c].generation <= old.generation
       /\ \/ old.generation = -1
          \/ \E c \in 1 .. C : log[c].world = w /\ log[c].generation = old.generation
       /\ \A K \in SUBSET Classes :
            /\ IsFiniteSet(Pairs(old.n, K))
            /\ Cardinality(Pairs(old.n, K)) = Cardinality(ShownOf(w, K, old.generation))
  <2>1. old.generation \in Int /\ g \in Nat
    BY <1>9
  <2>2. Counted(w)
    BY DEF CountsInv
  <2> QED
    BY <1>3, <1>10, <2>1, <2>2 DEF Counted
(* The set that grows with the world's count. *)
<1>12. ASSUME NEW K \in SUBSET Classes, NEW h
       PROVE  ShownOf(w, K, h)' = IF p /\ k \in K /\ g = h THEN ShownOf(w, K, h) \cup {C + 1}
                                  ELSE ShownOf(w, K, h)
  <2>1. \A c \in 1 .. C : log'[c] = log[c]
    BY <1>4
  <2>2. \A c \in shown : log'[c] = log[c]
    BY <1>4, <1>7
  <2>3. shown' = IF p THEN shown \cup {C + 1} ELSE shown
    BY <1>2, <1>3, <1>6
  <2>4. log'[C + 1].world = w /\ log'[C + 1].class = k /\ log'[C + 1].generation = g
    BY <1>4, <1>5
  <2> QED
    BY <2>2, <2>3, <2>4 DEF ShownOf
<1>13. ASSUME NEW v \in Worlds, v # w
       PROVE  Counted(v)'
  <2>1. counts'[v] = counts[v]
    BY <1>1, <1>2, <1>5, <1>13 DEF Count, TypeOK
  <2>2. \A K \in SUBSET Classes : \A h : ShownOf(v, K, h)' = ShownOf(v, K, h)
    <3>1. SUFFICES ASSUME NEW K \in SUBSET Classes, NEW h PROVE ShownOf(v, K, h)' = ShownOf(v, K, h)
      OBVIOUS
    <3>2. \A c \in shown : log'[c] = log[c]
      BY <1>4, <1>7
    <3>3. log'[C + 1].world # v
      BY <1>4, <1>5, <1>13
    <3>4. shown' = shown \/ shown' = shown \cup {C + 1}
      BY <1>2, <1>3
    <3> QED
      BY <3>2, <3>3, <3>4 DEF ShownOf
  <2>3. Counted(v)
    BY DEF CountsInv
  <2>4. PICK h : h = counts[v].generation
    OBVIOUS
  <2>5. /\ \A c \in 1 .. C : log[c].world = v => log[c].generation <= h
        /\ h = -1 \/ \E c \in 1 .. C : log[c].world = v /\ log[c].generation = h
        /\ \A K \in SUBSET Classes :
             /\ IsFiniteSet(Pairs(counts[v].n, K))
             /\ Cardinality(Pairs(counts[v].n, K)) = Cardinality(ShownOf(v, K, h))
    BY <1>3, <2>3, <2>4 DEF Counted
  <2>6. \A c \in 1 .. C + 1 : log'[c].world = v => log'[c].generation <= h
    BY <1>4, <1>5, <1>13, <2>5
  <2>7. h = -1 \/ \E c \in 1 .. C + 1 : log'[c].world = v /\ log'[c].generation = h
    BY <1>4, <2>5
  <2>8. \A K \in SUBSET Classes :
             /\ IsFiniteSet(Pairs(counts[v].n, K))
             /\ Cardinality(Pairs(counts[v].n, K)) = Cardinality(ShownOf(v, K, h)')
    BY <2>2, <2>5
  <2> QED
    BY <1>4, <2>1, <2>4, <2>6, <2>7, <2>8 DEF Counted
<1>14. PICK fresh \in BOOLEAN : fresh <=> g > old.generation
  OBVIOUS
<1>15. PICK zero \in [Classes -> Nat] : zero = [j \in Classes |-> 0]
  OBVIOUS
<1>16. PICK base \in [Classes -> Nat] : base = IF fresh THEN zero ELSE old.n
  OBVIOUS
<1>17. PICK top \in Int : top = IF fresh THEN g ELSE old.generation
  BY <1>11
<1>18. PICK m \in [Classes -> Nat] : m = IF p /\ g = top THEN [base EXCEPT ![k] = @ + 1] ELSE base
  <2>1. base[k] + 1 \in Nat
    OBVIOUS
  <2>2. [base EXCEPT ![k] = @ + 1] \in [Classes -> Nat]
    BY <2>1
  <2> QED
    BY <2>2
<1>19. counts'[w] = [generation |-> top, n |-> m]
  BY <1>1, <1>2, <1>5, <1>6, <1>10, <1>14, <1>15, <1>16, <1>17, <1>18 DEF Count, TypeOK
<1>20. g <= top /\ old.generation <= top /\ (g = top \/ (top = old.generation /\ ~fresh))
  BY <1>11, <1>14, <1>17
<1>21. \A c \in 1 .. C + 1 : log'[c].world = w => log'[c].generation <= top
  <2>1. SUFFICES ASSUME NEW c \in 1 .. C, log[c].world = w PROVE log[c].generation <= top
    BY <1>4, <1>5, <1>20
  <2>2. log[c].generation <= old.generation /\ log[c].generation \in Int
    BY <1>4, <1>9, <1>11, <2>1 DEF Event
  <2> QED
    BY <1>11, <1>20, <2>2
<1>22. top = -1 \/ \E c \in 1 .. C + 1 : log'[c].world = w /\ log'[c].generation = top
  <2>1. CASE g = top
    BY <1>4, <1>5, <2>1
  <2>2. CASE top = old.generation
    BY <1>4, <1>11, <2>2
  <2> QED
    BY <1>20, <2>1, <2>2
<1>23. ASSUME NEW K \in SUBSET Classes
       PROVE  /\ IsFiniteSet(Pairs(m, K))
              /\ Cardinality(Pairs(m, K)) = Cardinality(ShownOf(w, K, top)')
  <2>1. PICK S : S = ShownOf(w, K, top)
    OBVIOUS
  <2>2. IsFiniteSet(S) /\ C + 1 \notin S
    <3>1. S \in SUBSET (1 .. C)
      BY <1>7, <2>1 DEF ShownOf
    <3>2. IsFiniteSet(1 .. C)
      BY FS_Interval
    <3> QED
      BY <1>7, <3>1, <3>2, FS_Subset
  <2>3. IsFiniteSet(Pairs(base, K)) /\ Cardinality(Pairs(base, K)) = Cardinality(S)
    <3>1. CASE fresh
      <4>1. Pairs(base, K) = {}
        BY <1>15, <1>16, <3>1, NoPairs
      <4>2. S = {}
        <5>1. SUFFICES ASSUME NEW c \in S PROVE FALSE
          OBVIOUS
        <5>2. c \in 1 .. C /\ log[c].world = w /\ log[c].generation = g
          BY <1>7, <1>17, <2>1, <3>1, <5>1 DEF ShownOf
        <5> QED
          BY <1>11, <1>14, <3>1, <5>2
      <4> QED
        BY <4>1, <4>2, FS_EmptySet
    <3>2. CASE ~fresh
      <4>1. base = old.n /\ top = old.generation
        BY <1>16, <1>17, <3>2
      <4> QED
        BY <1>11, <2>1, <4>1
    <3> QED
      BY <3>1, <3>2
  <2>4. CASE p /\ g = top
    <3>1. k \in K => base[k] \in Nat /\ m[k] = base[k] + 1
      BY <1>18, <2>4
    <3>2. \A x \in K : x # k => m[x] = base[x]
      BY <1>18, <2>4
    <3>3. CASE k \in K
      <4>1. /\ Pairs(m, K) = Pairs(base, K) \cup {<<k, base[k] + 1>>}
            /\ <<k, base[k] + 1>> \notin Pairs(base, K)
        BY <3>1, <3>2, <3>3, PairsGrow
      <4>2. /\ IsFiniteSet(Pairs(m, K))
            /\ Cardinality(Pairs(m, K)) = Cardinality(Pairs(base, K)) + 1
        BY <2>3, <4>1, OneMore
      <4>3. ShownOf(w, K, top)' = S \cup {C + 1}
        BY <1>12, <2>1, <2>4, <3>3
      <4>4. Cardinality(ShownOf(w, K, top)') = Cardinality(S) + 1
        BY <2>2, <4>3, OneMore
      <4> QED
        BY <2>3, <4>2, <4>4
    <3>4. CASE k \notin K
      <4>1. \A x \in K : m[x] = base[x]
        BY <3>2, <3>4
      <4>2. Pairs(m, K) = Pairs(base, K)
        BY <4>1 DEF Pairs
      <4>3. ShownOf(w, K, top)' = S
        BY <1>12, <2>1, <3>4
      <4> QED
        BY <2>3, <4>2, <4>3
    <3> QED
      BY <3>3, <3>4
  <2>5. CASE ~(p /\ g = top)
    <3>1. m = base
      BY <1>18, <2>5
    <3>2. ShownOf(w, K, top)' = S
      BY <1>12, <2>1, <2>5
    <3> QED
      BY <2>3, <3>1, <3>2
  <2> QED
    BY <2>4, <2>5
<1>24. Counted(w)'
  BY <1>4, <1>19, <1>21, <1>22, <1>23 DEF Counted
<1> QED
  BY <1>13, <1>24

LEMMA StepCounts ==
  CountsInv /\ [Next]_vars => CountsInv'
<1> SUFFICES ASSUME CountsInv, [Next]_vars PROVE CountsInv'
  OBVIOUS
<1>1. TypeOK'
  BY StepTypeOK DEF CountsInv
<1>2. CASE Pump
  BY <1>1, <1>2, PumpCounts DEF CountsInv
<1>3. CASE UNCHANGED <<log, shown, counts>>
  <2>1. Cursor' = Cursor /\ \A w, K, g : ShownOf(w, K, g)' = ShownOf(w, K, g)
    BY <1>3 DEF Cursor, ShownOf
  <2>2. ASSUME NEW w \in Worlds PROVE Counted(w)'
    <3>1. Counted(w)
      BY DEF CountsInv
    <3> QED
      BY <1>3, <2>1, <3>1 DEF Counted
  <2> QED
    BY <1>1, <2>2 DEF CountsInv
<1> QED
  BY <1>2, <1>3 DEF Next, Publish, Subscribe, Take, Unsubscribe, ManageGag, StopJoin, StopClose,
     vars, retention

(* The available counts beside a snapshot are the ungagged events of the   *)
(* world's newest generation, whatever the pump drops, in whatever order   *)
(* the generations arrive and however the policy changes (_run, subscribe).*)
THEOREM CountsAreExact == Spec => []CountsExact
  BY InitCounts, StepCounts, CountsInvExact, PTL DEF Spec

(* A snapshot says what it is: one that is not flagged as truncated holds  *)
(* every event after the cursor, and a missing event of a world's newest   *)
(* generation is named by after_cursor_gaps, for every class that the gag  *)
(* policy treats alike throughout; the available counts are exact and the  *)
(* caps cut from the old end only.  This holds for any retention, caps,    *)
(* filters and generations (EventHistory._run, subscribe).                 *)
THEOREM SnapshotsTell == Spec => []SnapshotReports
<1>1. RetentionInv /\ CountsInv => SnapshotReports
  BY MarksReport, CountsInvExact, CapsCutOldEnd DEF CountsInv, SnapshotReports
<1> QED
  BY <1>1, InitRetention, StepRetention, InitCounts, StepCounts, PTL DEF Spec
=============================================================================
