------------------------ MODULE WorldConnectorProofs ------------------------
(***************************************************************************)
(* What WorldConnector promises of the replay, for any number of worlds,   *)
(* frames, connections, crashes and cancelled publishers and for limits    *)
(* and pipes of any size.                                                  *)
(***************************************************************************)
EXTENDS WorldConnector, FiniteSetTheorems, SequenceTheorems, TLAPS

(* A non-empty finite set of integers, seen through a key, has a greatest  *)
(* element.                                                                *)
LEMMA GreatestKey ==
  ASSUME NEW S, IsFiniteSet(S), S # {}, NEW K \in [S -> Int]
  PROVE  \E m \in S : \A x \in S : K[x] <= K[m]
  <1> DEFINE bad == {T \in SUBSET S : T # {} /\ ~ \E m \in T : \A x \in T : K[x] <= K[m]}
  <1> SUFFICES ASSUME S \in bad PROVE FALSE
    OBVIOUS
  <1>1. bad \subseteq FiniteSubsetsOf(S)
    BY FS_FiniteSubsetsOfFinite
  <1>2. PICK T \in bad : \A U \in bad : ~ (<<U, T>> \in StrictSubsetOrdering(S))
    BY <1>1, FS_StrictSubsetOrderingWellFounded, WFMin
  <1>3. T \subseteq S /\ T # {} /\ ~ \E m \in T : \A x \in T : K[x] <= K[m]
    OBVIOUS
  <1>4. PICK t \in T : TRUE
    BY <1>3
  <1> DEFINE U == T \ {t}
  <1>5. U \subseteq T /\ U # T /\ U \in SUBSET S
    BY <1>3, <1>4
  <1>6. U \notin bad
    BY <1>2, <1>5 DEF StrictSubsetOrdering
  <1>7. U # {}
    BY <1>3, <1>4
  <1>8. PICK m \in U : \A x \in U : K[x] <= K[m]
    BY <1>5, <1>6, <1>7
  <1>9. K[t] \in Int /\ K[m] \in Int /\ \A x \in T : K[x] \in Int
    BY <1>3, <1>4, <1>8
  <1>10. CASE K[t] <= K[m]
    BY <1>3, <1>8, <1>9, <1>10
  <1>11. CASE ~(K[t] <= K[m])
    BY <1>3, <1>8, <1>9, <1>11
  <1> QED
    BY <1>10, <1>11

(* The elements of a finite set can be arranged by a key that tells them   *)
(* apart.                                                                  *)
LEMMA Arrangement ==
  ASSUME NEW S, IsFiniteSet(S), NEW K \in [S -> Int],
         \A x, y \in S : x # y => K[x] # K[y]
  PROVE  \E q \in [1 .. Cardinality(S) -> S] :
           \A i, j \in DOMAIN q : i < j => K[q[i]] < K[q[j]]
  <1> DEFINE Good(T) == \E q \in [1 .. Cardinality(T) -> T] :
                          \A i, j \in DOMAIN q : i < j => K[q[i]] < K[q[j]]
             bad == {T \in SUBSET S : ~Good(T)}
  <1> SUFFICES ASSUME S \in bad PROVE FALSE
    OBVIOUS
  <1>1. bad \subseteq FiniteSubsetsOf(S)
    BY FS_FiniteSubsetsOfFinite
  <1>2. PICK T \in bad : \A U \in bad : ~ (<<U, T>> \in StrictSubsetOrdering(S))
    BY <1>1, FS_StrictSubsetOrderingWellFounded, WFMin
  <1>3. T \subseteq S /\ ~Good(T) /\ IsFiniteSet(T)
    BY FS_Subset
  <1>4. T # {}
    <2>1. Cardinality({}) = 0 /\ 1 .. 0 = {}
      BY FS_EmptySet
    <2>2. Good({})
      <3> DEFINE q == [i \in {} |-> i]
      <3>1. q \in [1 .. Cardinality({}) -> {}] /\ DOMAIN q = {}
        BY <2>1
      <3> QED
        BY <3>1
    <2> QED
      BY <1>3, <2>2
  <1>5. PICK m \in T : \A x \in T : K[x] <= K[m]
    <2> DEFINE k == [x \in T |-> K[x]]
    <2>1. k \in [T -> Int]
      BY <1>3
    <2>2. \E m \in T : \A x \in T : k[x] <= k[m]
      <3> HIDE DEF k
      <3> QED
        BY <1>3, <1>4, <2>1, GreatestKey
    <2> QED
      BY <2>2
  <1> DEFINE U == T \ {m}
             n == Cardinality(U)
  <1>6. U \subseteq T /\ U # T /\ U \in SUBSET S
    BY <1>3, <1>5
  <1>7. Good(U)
    BY <1>2, <1>6 DEF StrictSubsetOrdering
  <1>8. n \in Nat /\ Cardinality(T) = n + 1
    <2>1. IsFiniteSet(U)
      BY <1>3, FS_RemoveElement
    <2>2. Cardinality(U) \in Nat /\ Cardinality(T) \in Nat /\ Cardinality(U) = Cardinality(T) - 1
      BY <1>3, <1>5, <2>1, FS_RemoveElement, FS_CardinalityType
    <2> QED
      BY <2>2
  <1>9. PICK q \in [1 .. n -> U] : \A i, j \in DOMAIN q : i < j => K[q[i]] < K[q[j]]
    BY <1>7
  <1> HIDE DEF n
  <1> DEFINE r == [i \in 1 .. n + 1 |-> IF i = n + 1 THEN m ELSE q[i]]
  <1>10. r \in [1 .. n + 1 -> T]
    <2>1. \A i \in 1 .. n + 1 : i # n + 1 => i \in 1 .. n
      BY <1>8
    <2> QED
      BY <1>5, <1>6, <1>9, <2>1
  <1>11. ASSUME NEW i \in 1 .. n + 1, NEW j \in 1 .. n + 1, i < j
         PROVE  K[r[i]] < K[r[j]]
    <2>1. i \in 1 .. n /\ r[i] = q[i]
      BY <1>8, <1>11
    <2>2. CASE j = n + 1
      <3>1. q[i] \in T /\ q[i] # m /\ q[i] \in S /\ m \in S
        BY <1>3, <1>5, <1>9, <2>1
      <3>2. K[q[i]] \in Int /\ K[m] \in Int /\ K[q[i]] # K[m] /\ K[q[i]] <= K[m]
        BY <1>5, <3>1
      <3> QED
        BY <2>1, <2>2, <3>2
    <2>3. CASE j # n + 1
      <3>1. j \in 1 .. n /\ r[j] = q[j]
        BY <1>8, <2>3
      <3> QED
        BY <1>9, <1>11, <2>1, <3>1
    <2> QED
      BY <2>2, <2>3
  <1>12. Good(T)
    <2>1. r \in [1 .. Cardinality(T) -> T] /\ DOMAIN r = 1 .. n + 1
      BY <1>8, <1>10
    <2> HIDE DEF r
    <2> QED
      BY <1>11, <2>1
  <1> QED
    BY <1>3, <1>12

(* An arrangement without repetition of a finite set lists all of it.      *)
LEMMA Enumeration ==
  ASSUME NEW S, IsFiniteSet(S), NEW q \in [1 .. Cardinality(S) -> S],
         \A i, j \in DOMAIN q : i < j => q[i] # q[j]
  PROVE  /\ q \in Seq(S) /\ Len(q) = Cardinality(S) /\ DOMAIN q = 1 .. Len(q)
         /\ \A x \in S : \E i \in DOMAIN q : q[i] = x
  <1> DEFINE n == Cardinality(S)
  <1>1. n \in Nat
    BY FS_CardinalityType
  <1>2. q \in Seq(S) /\ Len(q) = n /\ DOMAIN q = 1 .. n
    BY <1>1, SeqDef
  <1>3. q \in Injection(1 .. n, S)
    BY <1>1, <1>2 DEF Injection, IsInjective
  <1>4. Cardinality(1 .. n) = n
    BY <1>1, FS_Interval
  <1>5. q \in Surjection(1 .. n, S)
    BY <1>3, <1>4, FS_Injection
  <1> QED
    BY <1>2, <1>5 DEF Surjection

(* Ascending lists the elements of a finite set of numbers in rising order.*)
LEMMA AscendingOrder ==
  ASSUME NEW B, IsFiniteSet(B), B \subseteq Int
  PROVE  /\ Ascending(B) \in Seq(B) /\ DOMAIN Ascending(B) = 1 .. Len(Ascending(B))
         /\ \A x \in B : \E i \in DOMAIN Ascending(B) : Ascending(B)[i] = x
         /\ \A i, j \in DOMAIN Ascending(B) : i < j => Ascending(B)[i] < Ascending(B)[j]
  <1> DEFINE q == Ascending(B)
             k == [c \in B |-> c]
  <1>1. k \in [B -> Int] /\ \A x, y \in B : x # y => k[x] # k[y]
    OBVIOUS
  <1>2. PICK r \in [1 .. Cardinality(B) -> B] : \A i, j \in DOMAIN r : i < j => k[r[i]] < k[r[j]]
    <2> HIDE DEF k
    <2> QED
      BY <1>1, Arrangement
  <1>3. \A i, j \in DOMAIN r : i < j => r[i] < r[j]
    BY <1>2
  <1>4. q \in [1 .. Cardinality(B) -> B] /\ \A i, j \in DOMAIN q : i < j => q[i] < q[j]
    BY <1>3 DEF Ascending, InOrder
  <1> HIDE DEF q
  <1>5. \A i, j \in DOMAIN q : i < j => q[i] # q[j]
    <2> SUFFICES ASSUME NEW i \in DOMAIN q, NEW j \in DOMAIN q, i < j PROVE q[i] # q[j]
      OBVIOUS
    <2>1. q[i] \in Int /\ q[j] \in Int /\ q[i] < q[j]
      BY <1>4
    <2> QED
      BY <2>1
  <1>6. /\ q \in Seq(B) /\ Len(q) = Cardinality(B) /\ DOMAIN q = 1 .. Len(q)
        /\ \A x \in B : \E i \in DOMAIN q : q[i] = x
    BY <1>4, <1>5, Enumeration, ZenonT(60)
  <1> QED
    BY <1>4, <1>6 DEF q

(* Min is the least element of a finite set.                               *)
LEMMA MinIsLeast ==
  ASSUME NEW S, IsFiniteSet(S), S # {}, S \subseteq Int
  PROVE  Min(S) \in S /\ \A x \in S : Min(S) <= x
  <1> DEFINE k == [x \in S |-> -x]
  <1>1. k \in [S -> Int]
    OBVIOUS
  <1>2. PICK m \in S : \A x \in S : k[x] <= k[m]
    <2> HIDE DEF k
    <2> QED
      BY <1>1, GreatestKey
  <1>3. \A x \in S : m <= x
    BY <1>2
  <1> QED
    BY <1>3 DEF Min

(* The numbers of a frame and of a pair of frames.                         *)
LEMMA MaxOfOne == ASSUME NEW c \in Int PROVE Max({c}) = c
  BY DEF Max

LEMMA BoundsOfTwo ==
  ASSUME NEW a \in Int, NEW b \in Int
  PROVE  /\ Max({a, b}) \in {a, b} /\ Max({a, b}) >= a /\ Max({a, b}) >= b
         /\ Min({a, b}) \in {a, b} /\ Min({a, b}) <= a /\ Min({a, b}) <= b
  <1>1. \E x \in {a, b} : \A y \in {a, b} : x >= y
    OBVIOUS
  <1>2. \E x \in {a, b} : \A y \in {a, b} : x <= y
    OBVIOUS
  <1>3. Max({a, b}) \in {a, b} /\ \A y \in {a, b} : Max({a, b}) >= y
    BY <1>1 DEF Max
  <1>4. Min({a, b}) \in {a, b} /\ \A y \in {a, b} : Min({a, b}) <= y
    BY <1>2 DEF Min
  <1> QED
    BY <1>3, <1>4

(* Trimming the buffer only removes from it.                               *)
LEMMA KeptIsPart == ASSUME NEW B, NEW l, NEW w PROVE Kept(B, l, w) \subseteq B
  BY DEF Kept, Newest, OfWorld

(* Every frame that is dropped is named by a notice, and only dropped      *)
(* frames are.                                                             *)
LEMMA NoticesNameDropped ==
  ASSUME NEW l, NEW B \in SUBSET Nat, IsFiniteSet(B), 0 \notin B, NEW w
  PROVE  LET dropped == B \ Kept(B, l, w)
             new == NewNotices(B, l, w)
         IN  /\ new \in Seq((SUBSET dropped) \ {{}})
             /\ \A c \in dropped : \E i \in DOMAIN new : c \in new[i]
  <1> DEFINE lost == B \ Kept(B, l, w)
             mine == OfWorld(B, l, w)
             over == mine \ Newest(mine, l, PerWorldSize)
             First(n) == IF n \cap over # {} THEN 0 ELSE Min(n)
             N == {OfWorld(lost, l, v) : v \in {l[c].world : c \in lost}}
             k == [n \in N |-> First(n)]
  <1>1. lost \in SUBSET B /\ IsFiniteSet(lost) /\ lost \subseteq Nat \ {0}
    <2>1. lost \in SUBSET B
      OBVIOUS
    <2> HIDE DEF lost
    <2> QED
      BY <2>1, FS_Subset
  <1>2. NewNotices(B, l, w) =
          CHOOSE q \in [1 .. Cardinality(N) -> N] :
            \A i, j \in DOMAIN q : i < j => First(q[i]) < First(q[j])
    BY DEF NewNotices, InOrder
  <1>3. \A c \in over : c \in B /\ l[c].world = w
    BY DEF OfWorld
  <1> HIDE DEF lost, mine, over
  <1>4. IsFiniteSet(N)
    <2> DEFINE f == [c \in lost |-> OfWorld(lost, l, l[c].world)]
    <2>1. f \in Surjection(lost, N)
      <3>1. f \in [lost -> N]
        OBVIOUS
      <3>2. \A n \in N : \E c \in lost : f[c] = n
        OBVIOUS
      <3> QED
        BY <3>1, <3>2 DEF Surjection
    <2> HIDE DEF f, N
    <2> QED
      BY <1>1, <2>1, FS_Surjection
  <1>5. ASSUME NEW n \in N
        PROVE  /\ n \subseteq lost /\ n # {}
               /\ \E v : \A c \in lost : c \in n <=> l[c].world = v
    <2>1. PICK c \in lost : n = OfWorld(lost, l, l[c].world)
      BY <1>5
    <2>2. c \in n /\ \A d \in lost : d \in n <=> l[d].world = l[c].world
      BY <2>1 DEF OfWorld
    <2>3. n \subseteq lost
      BY <2>1 DEF OfWorld
    <2> HIDE DEF N
    <2> QED
      BY <2>2, <2>3
  <1>6. ASSUME NEW n \in N PROVE Min(n) \in n /\ Min(n) \in Nat \ {0}
    <2> HIDE DEF N
    <2>1. n \in SUBSET lost /\ n # {}
      BY <1>5
    <2>2. IsFiniteSet(n)
      BY <1>1, <2>1, FS_Subset
    <2>3. n \subseteq Int
      BY <1>1, <2>1
    <2>4. Min(n) \in n
      BY <2>1, <2>2, <2>3, MinIsLeast
    <2> QED
      BY <1>1, <2>1, <2>4
  <1>7. k \in [N -> Int]
    <2>1. \A n \in N : First(n) \in Int
      BY <1>6
    <2> QED
      BY <2>1
  <1>8. ASSUME NEW m \in N, NEW n \in N, m # n PROVE k[m] # k[n]
    <2>1. m \cap n = {}
      <3> SUFFICES ASSUME NEW c, c \in m, c \in n PROVE FALSE
        OBVIOUS
      <3> HIDE DEF N
      <3>1. m \subseteq lost /\ n \subseteq lost
        BY <1>5
      <3>2. \A d \in lost : d \in m <=> l[d].world = l[c].world
        BY <1>5, <3>1
      <3>3. \A d \in lost : d \in n <=> l[d].world = l[c].world
        BY <1>5, <3>1
      <3>4. m = n
        BY <3>1, <3>2, <3>3
      <3> QED
        BY <1>8, <3>4
    <2>2. ~(m \cap over # {} /\ n \cap over # {})
      <3> SUFFICES ASSUME NEW c, c \in m, c \in over, NEW d, d \in n, d \in over PROVE FALSE
        OBVIOUS
      <3> HIDE DEF N
      <3>1. m \subseteq lost /\ n \subseteq lost /\ l[c].world = w /\ l[d].world = w
        BY <1>3, <1>5
      <3>2. d \in m
        BY <1>5, <3>1
      <3> QED
        BY <2>1, <3>2
    <2>3. Min(m) \in m /\ Min(m) \in Nat \ {0} /\ Min(n) \in n /\ Min(n) \in Nat \ {0}
      BY <1>6
    <2>4. Min(m) # Min(n)
      BY <2>1, <2>3
    <2>5. k[m] = First(m) /\ k[n] = First(n)
      OBVIOUS
    <2> HIDE DEF N
    <2> QED
      BY <2>2, <2>3, <2>4, <2>5
  <1>9. PICK r \in [1 .. Cardinality(N) -> N] : \A i, j \in DOMAIN r : i < j => k[r[i]] < k[r[j]]
    <2> HIDE DEF k, N
    <2> QED
      BY <1>4, <1>7, <1>8, Arrangement
  <1>10. \A n \in N : k[n] = First(n)
    OBVIOUS
  <1> DEFINE new == NewNotices(B, l, w)
  <1>11. new \in [1 .. Cardinality(N) -> N] /\ \A i, j \in DOMAIN new : i < j => First(new[i]) < First(new[j])
    <2>1. \A i, j \in DOMAIN r : i < j => First(r[i]) < First(r[j])
      <3> HIDE DEF First, k, N
      <3> QED
        BY <1>9, <1>10
    <2> HIDE DEF First, k, N
    <2> QED
      BY <1>2, <2>1
  <1>12. \A i, j \in DOMAIN new : i < j => new[i] # new[j]
    <2> SUFFICES ASSUME NEW i \in DOMAIN new, NEW j \in DOMAIN new, i < j, new[i] = new[j]
                 PROVE  FALSE
      OBVIOUS
    <2> HIDE DEF new, First
    <2>1. First(new[i]) < First(new[j]) /\ First(new[i]) \in Int
      <3>1. new[i] \in N
        BY <1>11
      <3>2. k[new[i]] \in Int
        BY <1>7, <3>1
      <3> QED
        BY <1>10, <1>11, <3>1, <3>2
    <2> QED
      BY <2>1
  <1> HIDE DEF new
  <1>13. new \in Seq(N) /\ DOMAIN new = 1 .. Len(new) /\ \A n \in N : \E i \in DOMAIN new : new[i] = n
    <2> HIDE DEF N
    <2> QED
      BY <1>4, <1>11, <1>12, Enumeration, ZenonT(60)
  <1>14. new \in Seq((SUBSET lost) \ {{}})
    <2> HIDE DEF N
    <2>1. ASSUME NEW n \in N PROVE n \in (SUBSET lost) \ {{}}
      <3>1. n \subseteq lost /\ n # {}
        BY <1>5
      <3> QED
        BY <3>1
    <2> QED
      BY <1>13, <2>1, SeqMonotonic
  <1>15. ASSUME NEW c \in lost PROVE \E i \in DOMAIN new : c \in new[i]
    <2> DEFINE n == OfWorld(lost, l, l[c].world)
    <2>1. n \in N
      OBVIOUS
    <2>2. c \in n
      BY DEF OfWorld
    <2> HIDE DEF n
    <2> HIDE DEF N
    <2> QED
      BY <1>13, <2>1, <2>2
  <1> QED
    BY <1>14, <1>15 DEF lost, new

-----------------------------------------------------------------------------
(* Writing.                                                                *)

Jobs(M) == [who : Worlds \cup Connections, to : Connections, todo : Seq(M)]

(* None is neither a message nor a job.                                    *)
LEMMA NoneIsNothing ==
  ASSUME NEW I \in SUBSET Nat
  PROVE  /\ None \notin [type : MessageTypes, ids : SUBSET I]
         /\ None \notin Jobs([type : MessageTypes, ids : SUBSET I])
  <1> DEFINE M == [type : MessageTypes, ids : SUBSET I]
             A == [type : MessageTypes, ids : SUBSET Nat]
  <1>1. M \subseteq A
    OBVIOUS
  <1>2. None \notin A /\ None \notin Jobs(A)
    BY NoneAssumption DEF Jobs
  <1> HIDE DEF M, A
  <1>3. Jobs(M) \subseteq Jobs(A)
    <2>1. Seq(M) \subseteq Seq(A)
      BY <1>1, SeqMonotonic
    <2> QED
      BY <2>1 DEF Jobs
  <1>4. None \notin M /\ None \notin Jobs(M)
    BY <1>1, <1>2, <1>3
  <1> QED
    BY <1>4 DEF M

(* A stream cut in two.                                                    *)
LEMMA Split ==
  ASSUME NEW M, NEW t \in Seq(M), NEW n \in 0 .. Len(t)
  PROVE  /\ SubSeq(t, 1, n) \in Seq(M) /\ SubSeq(t, n + 1, Len(t)) \in Seq(M)
         /\ Len(SubSeq(t, 1, n)) = n
  <1>1. Len(t) \in Nat /\ \A i \in 1 .. Len(t) : t[i] \in M
    BY ElementOfSeq, LenProperties
  <1>2. SubSeq(t, 1, n) \in Seq(M) /\ Len(SubSeq(t, 1, n)) = n
    <2>1. \A i \in 1 .. n : t[i] \in M
      BY <1>1
    <2>2. 1 \in Int /\ n \in Int /\ n >= 0 /\ n - 1 + 1 = n
      BY <1>1
    <2>3. /\ SubSeq(t, 1, n) \in Seq(M)
          /\ Len(SubSeq(t, 1, n)) = IF 1 <= n THEN n - 1 + 1 ELSE 0
      BY <2>1, <2>2, SubSeqProperties
    <2> QED
      BY <2>2, <2>3
  <1>3. SubSeq(t, n + 1, Len(t)) \in Seq(M)
    <2>1. \A i \in n + 1 .. Len(t) : t[i] \in M
      BY <1>1
    <2> QED
      BY <1>1, <2>1, SubSeqProperties
  <1> QED
    BY <1>2, <1>3

(* What was written and what is still to be written make the whole.        *)
LEMMA Joins ==
  ASSUME NEW M, NEW s \in Seq(M), NEW t \in Seq(M), NEW n \in 0 .. Len(t)
  PROVE  (s \o SubSeq(t, 1, n)) \o SubSeq(t, n + 1, Len(t)) = s \o t
  <1>1. Len(t) \in Nat
    BY LenProperties
  <1>2. SubSeq(t, 1, n) \in Seq(M) /\ SubSeq(t, n + 1, Len(t)) \in Seq(M)
    BY Split
  <1>4. SubSeq(t, 1, n) \o SubSeq(t, n + 1, Len(t)) = t
    <2>0. 1 \in 1 .. Len(t) + 1 /\ n \in 1 - 1 .. Len(t) /\ Len(t) \in n .. Len(t)
      BY <1>1
    <2>1. SubSeq(t, 1, n) \o SubSeq(t, n + 1, Len(t)) = SubSeq(t, 1, Len(t))
      BY <2>0, ConcatAdjacentSubSeq
    <2> QED
      BY <2>1, SubSeqFull
  <1>5. (s \o SubSeq(t, 1, n)) \o SubSeq(t, n + 1, Len(t)) = s \o (SubSeq(t, 1, n) \o SubSeq(t, n + 1, Len(t)))
    <2> DEFINE a == SubSeq(t, 1, n)
               b == SubSeq(t, n + 1, Len(t))
    <2>1. a \in Seq(M) /\ b \in Seq(M)
      BY <1>2
    <2> HIDE DEF a, b
    <2>2. (s \o a) \o b = s \o (a \o b)
      BY <2>1, ConcatAssociative
    <2> QED
      BY <2>2 DEF a, b
  <1> QED
    BY <1>4, <1>5

(* A step of a writer: what was written and what is still to be written    *)
(* make up what there was; the job is done when all of it is written, and  *)
(* has failed when the connection is closed.                               *)
LEMMA WriteEffect ==
  ASSUME NEW M, down \in [Connections -> Seq(M)], NEW job \in Jobs(M), Write(job)
  PROVE  \/ /\ job.to \in open /\ torn' = torn
            /\ down' \in [Connections -> Seq(M)]
            /\ \A c \in Connections : c # job.to => down'[c] = down[c]
            /\ Len(down[job.to]) <= Len(down'[job.to])
            /\ \/ /\ holder' = None
                  /\ down'[job.to] = down[job.to] \o job.todo
                  /\ TaskIs(job, "serving")
               \/ /\ holder' \in Jobs(M) /\ holder'.who = job.who /\ holder'.to = job.to
                  /\ down'[job.to] \o holder'.todo = down[job.to] \o job.todo
                  /\ TaskIs(job, "waiting")
         \/ /\ job.to \notin open /\ torn' = torn \cup ({job.who} \cap Worlds)
            /\ holder' = None /\ down' = down
            /\ TaskIs(job, "none")
  <1> DEFINE old == down[job.to]
             todo == job.todo
             room == Max({1, PipeSize + 1 - Len(old)})
             n == Min({Len(todo), room})
             written == old \o SubSeq(todo, 1, n)
  <1>1. CASE job.to \notin open
    BY <1>1 DEF Write
  <1>2. CASE job.to \in open
    <2>1. /\ down' = [down EXCEPT ![job.to] = written] /\ torn' = torn
          /\ IF Len(written) <= PipeSize
             THEN Done(job)
             ELSE /\ holder' = [job EXCEPT !.todo = SubSeq(todo, n + 1, Len(todo))]
                  /\ TaskIs(job, "waiting")
      BY <1>2 DEF Write
    <2>2. job.to \in Connections /\ old \in Seq(M) /\ todo \in Seq(M)
      BY DEF Jobs
    <2>3. Len(old) \in Nat /\ Len(todo) \in Nat /\ PipeSize \in Nat
      BY <2>2, LenProperties, ConnectorAssumption
    <2>4. room \in Int /\ room >= 1 /\ room >= PipeSize + 1 - Len(old)
      <3> DEFINE space == PipeSize + 1 - Len(old)
      <3>1. 1 \in Int /\ space \in Int
        BY <2>3
      <3> HIDE DEF space
      <3>2. /\ Max({1, space}) \in {1, space}
            /\ Max({1, space}) >= 1 /\ Max({1, space}) >= space
        BY <3>1, BoundsOfTwo, Zenon
      <3>3. room = Max({1, space})
        BY DEF space
      <3> HIDE DEF room
      <3>4. room \in Int /\ room >= 1 /\ room >= space
        BY <3>1, <3>2, <3>3
      <3> QED
        BY <3>4 DEF space
    <2> HIDE DEF room, old, todo
    <2>5. n \in 0 .. Len(todo) /\ (n = Len(todo) \/ n = room)
      <3>0. Len(todo) \in Int /\ room \in Int
        BY <2>3, <2>4
      <3>1. n \in {Len(todo), room} /\ n <= Len(todo) /\ n <= room
        BY <3>0, BoundsOfTwo
      <3> HIDE DEF n
      <3> QED
        BY <2>3, <2>4, <3>1
    <2> HIDE DEF n
    <2>6. /\ SubSeq(todo, 1, n) \in Seq(M) /\ SubSeq(todo, n + 1, Len(todo)) \in Seq(M)
          /\ Len(SubSeq(todo, 1, n)) = n
          /\ written \o SubSeq(todo, n + 1, Len(todo)) = old \o todo
      <3>1. n \in 0 .. Len(todo)
        BY <2>5
      <3>2. /\ SubSeq(todo, 1, n) \in Seq(M) /\ SubSeq(todo, n + 1, Len(todo)) \in Seq(M)
            /\ Len(SubSeq(todo, 1, n)) = n
            /\ (old \o SubSeq(todo, 1, n)) \o SubSeq(todo, n + 1, Len(todo)) = old \o todo
        <4> HIDE DEF n
        <4>1. \A k \in 0 .. Len(todo) :
                 /\ SubSeq(todo, 1, k) \in Seq(M) /\ SubSeq(todo, k + 1, Len(todo)) \in Seq(M)
                 /\ Len(SubSeq(todo, 1, k)) = k
                 /\ (old \o SubSeq(todo, 1, k)) \o SubSeq(todo, k + 1, Len(todo)) = old \o todo
          <5> TAKE k \in 0 .. Len(todo)
          <5>1. SubSeq(todo, 1, k) \in Seq(M)
            BY <2>2, Split
          <5>2. SubSeq(todo, k + 1, Len(todo)) \in Seq(M)
            BY <2>2, Split
          <5>3. Len(SubSeq(todo, 1, k)) = k
            BY <2>2, Split
          <5>4. (old \o SubSeq(todo, 1, k)) \o SubSeq(todo, k + 1, Len(todo)) = old \o todo
            BY <2>2, Joins
          <5> QED
            BY <5>1, <5>2, <5>3, <5>4
        <4> QED
          BY <3>1, <4>1
      <3> QED
        BY <3>2 DEF written
    <2>7. written \in Seq(M) /\ Len(written) = Len(old) + n
      BY <2>2, <2>6, ConcatProperties
    <2> HIDE DEF written
    <2>8. /\ down' \in [Connections -> Seq(M)] /\ down'[job.to] = written
          /\ \A c \in Connections : c # job.to => down'[c] = down[c]
      BY <2>1, <2>2, <2>7
    <2>9. Len(old) <= Len(written)
      BY <2>3, <2>5, <2>7
    <2>10. CASE Len(written) <= PipeSize
      <3>1. n = Len(todo)
        BY <2>3, <2>4, <2>5, <2>7, <2>10
      <3>2. SubSeq(todo, 1, n) = todo
        BY <2>2, <3>1, SubSeqFull
      <3>3. written = old \o todo
        BY <3>2 DEF written
      <3> QED
        BY <1>2, <2>1, <2>8, <2>9, <2>10, <3>3 DEF Done, old, todo
    <2>11. CASE ~(Len(written) <= PipeSize)
      <3>1. /\ holder' = [job EXCEPT !.todo = SubSeq(todo, n + 1, Len(todo))]
            /\ TaskIs(job, "waiting")
        BY <2>1, <2>11
      <3>2. /\ holder' \in Jobs(M) /\ holder'.who = job.who /\ holder'.to = job.to
            /\ holder'.todo = SubSeq(todo, n + 1, Len(todo))
        BY <2>6, <3>1 DEF Jobs
      <3> QED
        BY <1>2, <2>1, <2>6, <2>8, <2>9, <3>1, <3>2 DEF old, todo
    <2> QED
      BY <2>10, <2>11
  <1> QED
    BY <1>1, <1>2

-----------------------------------------------------------------------------
(* The stream of messages to a Gateway.                                    *)

(* Each is a frame or a notice; the reply to the attach message comes      *)
(* before them.                                                            *)
Single(m) == m.type = "frame" => \E c \in Nat : m.ids = {c}
Items(s, state) ==
  \A i \in DOMAIN s :
    /\ Single(s[i])
    /\ \/ s[i].type \in {"frame", "overflow"}
       \/ state = "attaching" /\ i = 1 /\ s[i].type = "attached" /\ s[i].ids = {}

(* The frames come in the order of their numbers, after those of q.        *)
Rising(s) ==
  \A i, j \in DOMAIN s : i < j /\ s[i].type = "frame" /\ s[j].type = "frame" =>
    \A c \in s[i].ids, d \in s[j].ids : c < d
After(s, q) ==
  \A i \in DOMAIN q, j \in DOMAIN s : q[i].type = "frame" /\ s[j].type = "frame" =>
    \A c \in q[i].ids, d \in s[j].ids : c < d

(* What comes before a frame of the stream is in K or earlier in it.       *)
Gapless(s, K) ==
  \A i \in DOMAIN s : s[i].type = "frame" =>
    \A c \in s[i].ids : \A d \in 1 .. c - 1 :
      d \in K \/ \E j \in DOMAIN s : j < i /\ d \in s[j].ids

(* All of I is in K or in the stream, even if what comes after its first n *)
(* messages is never written, unless the task of a connection writes it;   *)
(* frames that are not written count as aborted.                           *)
Complete(s, n, K, I, who) ==
  \A d \in I :
    d \in K \/ \E j \in DOMAIN s :
      d \in s[j].ids /\ (j <= n \/ s[j].type = "frame" \/ who \in Connections)

(* A stream that is extended by the notices of a new frame and the frame.  *)
LEMMA ExtendedStream ==
  ASSUME NEW M, NEW s \in Seq(M), NEW t \in Seq(M), NEW K, NEW c \in Nat, NEW state,
         NEW who, NEW n \in Nat, n >= Len(s), NEW q, NEW other,
         \A i \in DOMAIN s : s[i].ids \subseteq 1 .. c - 1,
         \A i \in DOMAIN q : q[i].ids \subseteq 1 .. c - 1,
         \A i \in DOMAIN t : i < Len(t) => t[i].type = "overflow",
         t # <<>>, t[Len(t)].type = "frame", t[Len(t)].ids = {c},
         Items(s, state), Rising(s), After(s, q), Gapless(s, K),
         Complete(s, Len(s), K, 1 .. c - 1, other)
  PROVE  /\ Items(s \o t, state) /\ Rising(s \o t) /\ After(s \o t, q) /\ Gapless(s \o t, K)
         /\ Complete(s \o t, n, K, 1 .. c, who)
  <1> DEFINE u == s \o t
  <1>1. /\ Len(s) \in Nat /\ DOMAIN s = 1 .. Len(s)
        /\ Len(t) \in Nat /\ DOMAIN t = 1 .. Len(t) /\ Len(t) > 0
    BY LenProperties, EmptySeq
  <1>2. /\ DOMAIN u = 1 .. Len(s) + Len(t)
        /\ \A i \in 1 .. Len(s) + Len(t) : u[i] = IF i <= Len(s) THEN s[i] ELSE t[i - Len(s)]
    <2>1. u \in Seq(M) /\ Len(u) = Len(s) + Len(t)
      BY ConcatProperties
    <2>2. DOMAIN u = 1 .. Len(u)
      BY <2>1, LenProperties
    <2>3. \A i \in 1 .. Len(s) + Len(t) : u[i] = IF i <= Len(s) THEN s[i] ELSE t[i - Len(s)]
      BY ConcatProperties
    <2> QED
      BY <2>1, <2>2, <2>3
  <1> DEFINE last == Len(s) + Len(t)
  <1> HIDE DEF u
  <1>3. /\ DOMAIN u = 1 .. last /\ last \in DOMAIN u /\ last > Len(s)
        /\ u[last].type = "frame" /\ u[last].ids = {c}
        /\ \A i \in DOMAIN s : i \in DOMAIN u /\ u[i] = s[i] /\ i < last
        /\ \A i \in DOMAIN u : i \in DOMAIN s \/ i = last \/ u[i].type = "overflow"
    <2>1. DOMAIN u = 1 .. last /\ last \in DOMAIN u /\ last > Len(s) /\ last \in Nat
      BY <1>1, <1>2
    <2>2. u[last] = t[Len(t)]
      BY <1>1, <1>2, <2>1
    <2>3. \A i \in DOMAIN s : i \in DOMAIN u /\ u[i] = s[i] /\ i < last
      BY <1>1, <1>2, <2>1
    <2>4. ASSUME NEW i \in DOMAIN u, i \notin DOMAIN s, i # last PROVE u[i].type = "overflow"
      <3>1. i \in Nat /\ i <= last /\ i > Len(s)
        BY <1>1, <2>1, <2>4
      <3>2. i - Len(s) \in DOMAIN t /\ i - Len(s) < Len(t)
        BY <1>1, <2>4, <3>1, SMTT(30)
      <3>3. u[i] = t[i - Len(s)]
        BY <1>1, <1>2, <2>1, <3>1
      <3> QED
        BY <3>2, <3>3
    <2> QED
      BY <2>1, <2>2, <2>3, <2>4
  <1> HIDE DEF last
  <1>4. Items(u, state)
    BY <1>3 DEF Items, Single
  <1>5. \A i \in DOMAIN s : \A d \in s[i].ids : d < c
    BY <1>1
  <1>6. Rising(u)
    <2> SUFFICES ASSUME NEW i \in DOMAIN u, NEW j \in DOMAIN u, i < j,
                        u[i].type = "frame", u[j].type = "frame",
                        NEW a \in u[i].ids, NEW b \in u[j].ids
                 PROVE  a < b
      BY DEF Rising
    <2>1. last \in Nat /\ i \in DOMAIN s
      BY <1>1, <1>3
    <2>2. CASE j \in DOMAIN s
      BY <1>3, <2>1, <2>2 DEF Rising
    <2>3. CASE j \notin DOMAIN s
      BY <1>3, <1>5, <2>1, <2>3
    <2> QED
      BY <2>2, <2>3
  <1>7. After(u, q)
    <2> SUFFICES ASSUME NEW i \in DOMAIN q, NEW j \in DOMAIN u,
                        q[i].type = "frame", u[j].type = "frame",
                        NEW a \in q[i].ids, NEW b \in u[j].ids
                 PROVE  a < b
      BY DEF After
    <2>1. CASE j \in DOMAIN s
      BY <1>3, <2>1 DEF After
    <2>2. CASE j \notin DOMAIN s
      BY <1>3, <2>2
    <2> QED
      BY <2>1, <2>2
  <1>8. Gapless(u, K)
    <2> SUFFICES ASSUME NEW i \in DOMAIN u, u[i].type = "frame",
                        NEW a \in u[i].ids, NEW d \in 1 .. a - 1
                 PROVE  d \in K \/ \E j \in DOMAIN u : j < i /\ d \in u[j].ids
      BY DEF Gapless
    <2>1. CASE i \in DOMAIN s
      BY <1>3, <2>1 DEF Gapless
    <2>2. CASE i \notin DOMAIN s
      <3>1. i = last /\ a = c
        BY <1>3, <2>2
      <3>2. d \in K \/ \E j \in DOMAIN s : d \in s[j].ids
        BY <3>1 DEF Complete
      <3> QED
        BY <1>3, <3>1, <3>2
    <2> QED
      BY <2>1, <2>2
  <1>9. Complete(u, n, K, 1 .. c, who)
    <2> SUFFICES ASSUME NEW d \in 1 .. c
                 PROVE  d \in K \/ \E j \in DOMAIN u :
                          d \in u[j].ids /\ (j <= n \/ u[j].type = "frame" \/ who \in Connections)
      BY DEF Complete
    <2>1. CASE d = c
      BY <1>3, <2>1
    <2>2. CASE d # c
      <3>1. d \in 1 .. c - 1
        BY <2>2
      <3>2. d \in K \/ \E j \in DOMAIN s : d \in s[j].ids
        BY <3>1 DEF Complete
      <3> QED
        BY <1>1, <1>3, <3>2
    <2> QED
      BY <2>1, <2>2
  <1> QED
    BY <1>4, <1>6, <1>7, <1>8, <1>9 DEF u

(* The Gateway takes the first message: what it names counts as handled.   *)
LEMMA TakenStream ==
  ASSUME NEW M, NEW s \in Seq(M), s # <<>>, NEW K, NEW L, NEW state,
         NEW q \in Seq(M), NEW r \in Seq(M),
         K \subseteq L, s[1].ids \subseteq L,
         r = q \/ r = Append(q, s[1]),
         Items(s, state), Rising(s), After(s, q), Gapless(s, K)
  PROVE  /\ Items(Tail(s), "attached") /\ Rising(Tail(s)) /\ After(Tail(s), r)
         /\ Gapless(Tail(s), L)
  <1> DEFINE u == Tail(s)
  <1>1. Len(s) \in Nat /\ DOMAIN s = 1 .. Len(s) /\ Len(s) > 0
    BY LenProperties, EmptySeq
  <1>2. u \in Seq(M) /\ Len(u) = Len(s) - 1 /\ \A i \in 1 .. Len(u) : u[i] = s[i + 1]
    BY HeadTailProperties
  <1>3. DOMAIN u = 1 .. Len(s) - 1
    BY <1>2, LenProperties
  <1> HIDE DEF u
  <1>4. /\ \A i \in DOMAIN u : i + 1 \in DOMAIN s /\ i + 1 # 1 /\ u[i] = s[i + 1] /\ i \in Nat
        /\ 1 \in DOMAIN s
        /\ \A i \in DOMAIN s : i \in Nat /\ (i = 1 \/ (i - 1 \in DOMAIN u /\ u[i - 1] = s[i] /\ i - 1 \in Nat))
    BY <1>1, <1>2, <1>3
  <1>5. Items(u, "attached")
    BY <1>4 DEF Items
  <1>6. Rising(u)
    <2> SUFFICES ASSUME NEW i \in DOMAIN u, NEW j \in DOMAIN u, i < j,
                        u[i].type = "frame", u[j].type = "frame",
                        NEW a \in u[i].ids, NEW b \in u[j].ids
                 PROVE  a < b
      BY DEF Rising
    <2>1. /\ i + 1 \in DOMAIN s /\ j + 1 \in DOMAIN s /\ i + 1 < j + 1
          /\ s[i + 1] = u[i] /\ s[j + 1] = u[j]
      BY <1>4
    <2> QED
      BY <2>1 DEF Rising
  <1>7. After(u, r)
    <2> SUFFICES ASSUME NEW i \in DOMAIN r, NEW j \in DOMAIN u,
                        r[i].type = "frame", u[j].type = "frame",
                        NEW a \in r[i].ids, NEW b \in u[j].ids
                 PROVE  a < b
      BY DEF After
    <2>1. j + 1 \in DOMAIN s /\ s[j + 1] = u[j] /\ 1 < j + 1 /\ 1 \in DOMAIN s
      BY <1>4, SMTT(30)
    <2>2. \/ i \in DOMAIN q /\ r[i] = q[i]
          \/ r[i] = s[1]
      <3>1. CASE r = q
        BY <3>1
      <3>2. CASE r = Append(q, s[1])
        <4>1. s[1] \in M
          BY <1>4
        <4>2. /\ r \in Seq(M) /\ Len(r) = Len(q) + 1
              /\ \A k \in 1 .. Len(q) : r[k] = q[k]
              /\ r[Len(q) + 1] = s[1]
          BY <3>2, <4>1, AppendProperties
        <4>3. DOMAIN r = 1 .. Len(q) + 1 /\ DOMAIN q = 1 .. Len(q) /\ Len(q) \in Nat
          BY <4>2, LenProperties
        <4> QED
          BY <4>2, <4>3
      <3> QED
        BY <3>1, <3>2
    <2>3. CASE i \in DOMAIN q /\ r[i] = q[i]
      BY <2>1, <2>3 DEF After
    <2>4. CASE r[i] = s[1]
      BY <2>1, <2>4 DEF Rising
    <2> QED
      BY <2>2, <2>3, <2>4
  <1>8. Gapless(u, L)
    <2> SUFFICES ASSUME NEW i \in DOMAIN u, u[i].type = "frame",
                        NEW a \in u[i].ids, NEW d \in 1 .. a - 1
                 PROVE  d \in L \/ \E j \in DOMAIN u : j < i /\ d \in u[j].ids
      BY DEF Gapless
    <2>1. i + 1 \in DOMAIN s /\ s[i + 1] = u[i]
      BY <1>4
    <2>2. d \in K \/ \E j \in DOMAIN s : j < i + 1 /\ d \in s[j].ids
      BY <2>1 DEF Gapless
    <2>3. CASE \E j \in DOMAIN s : j < i + 1 /\ d \in s[j].ids
      <3>1. PICK j \in DOMAIN s : j < i + 1 /\ d \in s[j].ids
        BY <2>3
      <3>2. CASE j = 1
        BY <3>1, <3>2
      <3>3. CASE j # 1
        <4>1. j - 1 \in DOMAIN u /\ u[j - 1] = s[j] /\ j \in Nat /\ i \in Nat
          BY <1>4, <3>3
        <4>2. j - 1 < i
          BY <3>1, <4>1
        <4> QED
          BY <3>1, <4>1, <4>2
      <3> QED
        BY <3>2, <3>3
    <2> QED
      BY <2>2, <2>3
  <1> QED
    BY <1>5, <1>6, <1>7, <1>8 DEF u

(* What was handled may be taken off the stream.                           *)
LEMMA TakenComplete ==
  ASSUME NEW M, NEW s \in Seq(M), s # <<>>, NEW K, NEW L, NEW I, NEW who, NEW n \in Nat,
         K \subseteq L, s[1].ids \subseteq L, Complete(s, n, K, I, who)
  PROVE  Complete(Tail(s), n - 1, L, I, who)
  <1> DEFINE u == Tail(s)
  <1>1. Len(s) \in Nat /\ DOMAIN s = 1 .. Len(s) /\ Len(s) > 0
    BY LenProperties, EmptySeq
  <1>2. u \in Seq(M) /\ Len(u) = Len(s) - 1 /\ \A i \in 1 .. Len(u) : u[i] = s[i + 1]
    BY HeadTailProperties
  <1>3. DOMAIN u = 1 .. Len(s) - 1
    BY <1>2, LenProperties
  <1> HIDE DEF u
  <1>4. /\ \A i \in DOMAIN u : i + 1 \in DOMAIN s /\ i + 1 # 1 /\ u[i] = s[i + 1] /\ i \in Nat
        /\ 1 \in DOMAIN s
        /\ \A i \in DOMAIN s : i \in Nat /\ (i = 1 \/ (i - 1 \in DOMAIN u /\ u[i - 1] = s[i] /\ i - 1 \in Nat))
    BY <1>1, <1>2, <1>3
  <1>5. Complete(u, n - 1, L, I, who)
    <2> SUFFICES ASSUME NEW d \in I
                 PROVE  d \in L \/ \E j \in DOMAIN u :
                          d \in u[j].ids /\ (j <= n - 1 \/ u[j].type = "frame" \/ who \in Connections)
      BY DEF Complete
    <2>1. d \in K \/ \E j \in DOMAIN s :
            d \in s[j].ids /\ (j <= n \/ s[j].type = "frame" \/ who \in Connections)
      BY DEF Complete
    <2>2. ASSUME NEW j \in DOMAIN s, d \in s[j].ids,
                 j <= n \/ s[j].type = "frame" \/ who \in Connections, d \notin L
          PROVE  \E k \in DOMAIN u :
                   d \in u[k].ids /\ (k <= n - 1 \/ u[k].type = "frame" \/ who \in Connections)
      <3>1. j # 1
        BY <2>2
      <3>2. j - 1 \in DOMAIN u /\ u[j - 1] = s[j] /\ j \in Nat
        BY <1>4, <3>1
      <3>3. j - 1 <= n - 1 \/ u[j - 1].type = "frame" \/ who \in Connections
        BY <2>2, <3>2
      <3> QED
        BY <2>2, <3>2, <3>3
    <2> QED
      BY <2>1, <2>2
  <1> QED
    BY <1>5 DEF u

(* The first message of a stream is the first of its written part.         *)
LEMMA TailOfConcat ==
  ASSUME NEW M, NEW s \in Seq(M), NEW t \in Seq(M), s # <<>>
  PROVE  /\ s \o t \in Seq(M) /\ s \o t # <<>> /\ Tail(s) \o t = Tail(s \o t)
         /\ (s \o t)[1] = Head(s) /\ Len(s) \in Nat /\ Len(Tail(s)) = Len(s) - 1
  <1> DEFINE u == s \o t
             v == Tail(s)
  <1>1. Len(s) \in Nat /\ Len(s) > 0 /\ Len(t) \in Nat
    BY LenProperties, EmptySeq
  <1>2. u \in Seq(M) /\ Len(u) = Len(s) + Len(t)
    BY ConcatProperties
  <1>3. \A i \in 1 .. Len(s) + Len(t) : u[i] = IF i <= Len(s) THEN s[i] ELSE t[i - Len(s)]
    BY ConcatProperties
  <1>4. v \in Seq(M) /\ Len(v) = Len(s) - 1
    BY HeadTailProperties
  <1>5. \A i \in 1 .. Len(v) : v[i] = s[i + 1]
    BY HeadTailProperties
  <1>6. Head(s) = s[1]
    BY <1>1
  <1> HIDE DEF u, v
  <1>7. u # <<>>
    BY <1>1, <1>2, EmptySeq
  <1>8. Tail(u) \in Seq(M) /\ Len(Tail(u)) = Len(u) - 1
    BY <1>2, <1>7, HeadTailProperties
  <1>9. \A i \in 1 .. Len(Tail(u)) : Tail(u)[i] = u[i + 1]
    BY <1>2, <1>7, HeadTailProperties
  <1>10. v \o t \in Seq(M) /\ Len(v \o t) = Len(v) + Len(t)
    BY <1>4, ConcatProperties
  <1>11. \A i \in 1 .. Len(v) + Len(t) : (v \o t)[i] = IF i <= Len(v) THEN v[i] ELSE t[i - Len(v)]
    BY <1>4, ConcatProperties
  <1>12. ASSUME NEW i \in 1 .. Len(v \o t) PROVE (v \o t)[i] = Tail(u)[i]
    <2>1. /\ i \in Nat /\ i \in 1 .. Len(v) + Len(t) /\ i \in 1 .. Len(Tail(u))
          /\ i + 1 \in 1 .. Len(s) + Len(t)
      BY <1>1, <1>2, <1>4, <1>8, <1>10
    <2>2. Tail(u)[i] = u[i + 1]
      BY <1>9, <2>1
    <2>3. CASE i <= Len(v)
      <3>1. i \in 1 .. Len(v) /\ i + 1 <= Len(s)
        BY <1>1, <1>4, <2>1, <2>3
      <3>2. (v \o t)[i] = s[i + 1]
        BY <1>5, <1>11, <2>1, <2>3, <3>1
      <3>3. u[i + 1] = s[i + 1]
        BY <1>3, <2>1, <3>1
      <3> QED
        BY <2>2, <3>2, <3>3
    <2>4. CASE ~(i <= Len(v))
      <3>1. ~(i + 1 <= Len(s)) /\ i - Len(v) = (i + 1) - Len(s)
        BY <1>1, <1>4, <2>1, <2>4
      <3>2. (v \o t)[i] = t[i - Len(v)]
        BY <1>11, <2>1, <2>4
      <3>3. u[i + 1] = t[(i + 1) - Len(s)]
        BY <1>3, <2>1, <3>1
      <3> QED
        BY <2>2, <3>1, <3>2, <3>3
    <2> QED
      BY <2>3, <2>4
  <1>13. v \o t = Tail(u)
    BY <1>1, <1>2, <1>4, <1>8, <1>10, <1>12, SeqEqual
  <1>14. u[1] = Head(s)
    BY <1>1, <1>3, <1>6
  <1> QED
    BY <1>1, <1>2, <1>4, <1>7, <1>13, <1>14 DEF u, v

(* A publisher is cancelled: the rest t of its job is never written.       *)
LEMMA CutStream ==
  ASSUME NEW M, NEW s \in Seq(M), NEW t \in Seq(M), NEW K, NEW L, NEW I, NEW state,
         NEW who, NEW other, NEW q, who \notin Connections,
         K \subseteq L, \A i \in DOMAIN t : t[i].type = "frame" => t[i].ids \subseteq L,
         Items(s \o t, state), Rising(s \o t), After(s \o t, q), Gapless(s \o t, K)
  PROVE  /\ Items(s, state) /\ Rising(s) /\ After(s, q) /\ Gapless(s, L)
         /\ Complete(s \o t, Len(s), K, I, who) => Complete(s, Len(s), L, I, other)
  <1> DEFINE u == s \o t
  <1>1. /\ Len(s) \in Nat /\ DOMAIN s = 1 .. Len(s)
        /\ Len(t) \in Nat /\ DOMAIN t = 1 .. Len(t)
    BY LenProperties
  <1>2. /\ DOMAIN u = 1 .. Len(s) + Len(t)
        /\ \A i \in 1 .. Len(s) + Len(t) : u[i] = IF i <= Len(s) THEN s[i] ELSE t[i - Len(s)]
    <2>1. u \in Seq(M) /\ Len(u) = Len(s) + Len(t)
      BY ConcatProperties
    <2>2. DOMAIN u = 1 .. Len(u)
      BY <2>1, LenProperties
    <2>3. \A i \in 1 .. Len(s) + Len(t) : u[i] = IF i <= Len(s) THEN s[i] ELSE t[i - Len(s)]
      BY ConcatProperties
    <2> QED
      BY <2>1, <2>2, <2>3
  <1> HIDE DEF u
  <1>3. /\ \A i \in DOMAIN s : i \in DOMAIN u /\ u[i] = s[i] /\ i \in Nat /\ i <= Len(s)
        /\ \A i \in DOMAIN u : i \in Nat /\
             (i \in DOMAIN s \/ (i > Len(s) /\ i - Len(s) \in DOMAIN t /\ u[i] = t[i - Len(s)]))
    BY <1>1, <1>2
  <1>4. Items(u, state) /\ Rising(u) /\ After(u, q) /\ Gapless(u, K)
    BY DEF u
  <1>5. Items(s, state)
    BY <1>3, <1>4 DEF Items
  <1>6. Rising(s)
    BY <1>3, <1>4 DEF Rising
  <1>7. After(s, q)
    BY <1>3, <1>4 DEF After
  <1>8. Gapless(s, L)
    <2> SUFFICES ASSUME NEW i \in DOMAIN s, s[i].type = "frame",
                        NEW a \in s[i].ids, NEW d \in 1 .. a - 1
                 PROVE  d \in L \/ \E j \in DOMAIN s : j < i /\ d \in s[j].ids
      BY DEF Gapless
    <2>1. d \in K \/ \E j \in DOMAIN u : j < i /\ d \in u[j].ids
      BY <1>3, <1>4 DEF Gapless
    <2>2. ASSUME NEW j \in DOMAIN u, j < i PROVE j \in DOMAIN s /\ u[j] = s[j]
      BY <1>1, <1>3, <2>2
    <2> QED
      BY <2>1, <2>2
  <1>9. ASSUME Complete(u, Len(s), K, I, who) PROVE Complete(s, Len(s), L, I, other)
    <2> SUFFICES ASSUME NEW d \in I, d \notin L
                 PROVE  \E j \in DOMAIN s : d \in s[j].ids /\ j <= Len(s)
      BY DEF Complete
    <2>1. PICK j \in DOMAIN u : d \in u[j].ids /\ (j <= Len(s) \/ u[j].type = "frame")
      BY <1>9 DEF Complete
    <2>2. j \in DOMAIN s
      BY <1>1, <1>3, <2>1
    <2> QED
      BY <1>3, <2>1, <2>2
  <1> QED
    BY <1>5, <1>6, <1>7, <1>8, <1>9 DEF u

(* What a newly attached Gateway is sent: all that the connector holds,    *)
(* and with it all that is not in K.                                       *)
LEMMA ReplayedStream ==
  ASSUME NEW I \in SUBSET Nat, NEW B \in SUBSET I, IsFiniteSet(B), NEW ns \in Seq(SUBSET I),
         NEW K, \A d \in I : d \in B \/ d \in K \/ \E i \in DOMAIN ns : d \in ns[i],
         \A c \in I : 1 .. c - 1 \subseteq I,
         NEW n, NEW who
  PROVE  LET s == <<Message("attached", {})>> \o Replay(B, ns)
         IN  /\ s \in Seq([type : MessageTypes, ids : SUBSET I])
             /\ Items(s, "attaching") /\ Rising(s) /\ Gapless(s, K)
             /\ who \in Connections \/ n = Len(s) => Complete(s, n, K, I, who)
  <1> DEFINE M == [type : MessageTypes, ids : SUBSET I]
             q == Ascending(B)
             a == [i \in DOMAIN ns |-> Overflow(ns[i])]
             b == [i \in DOMAIN q |-> Frame(q[i])]
             h == <<Message("attached", {})>>
             s == h \o (a \o b)
  <1>1. /\ q \in Seq(B) /\ DOMAIN q = 1 .. Len(q) /\ Len(q) \in Nat
        /\ \A x \in B : \E i \in DOMAIN q : q[i] = x
        /\ \A i, j \in DOMAIN q : i < j => q[i] < q[j]
    <2>1. B \subseteq Int
      <3> SUFFICES ASSUME NEW x \in B PROVE x \in Int
        OBVIOUS
      <3>1. x \in I
        OBVIOUS
      <3>2. I \subseteq Nat
        OBVIOUS
      <3>3. x \in Nat
        BY <3>1, <3>2
      <3> HIDE DEF M, q, a, b, h, s
      <3> QED
        BY ONLY <3>3
    <2>2. Ascending(B) \in Seq(B)
      BY <2>1, AscendingOrder
    <2> QED
      BY <2>1, <2>2, AscendingOrder, LenProperties
  <1>2. DOMAIN ns = 1 .. Len(ns) /\ Len(ns) \in Nat /\ \A i \in DOMAIN ns : ns[i] \in SUBSET I
    BY LenProperties, ElementOfSeq
  <1>3. \A i \in DOMAIN q : q[i] \in B
    BY <1>1, ElementOfSeq
  <1> HIDE DEF q
  <1>4. h \in Seq(M) /\ Len(h) = 1 /\ h[1] = Message("attached", {})
    <2>1. Message("attached", {}) \in M
      BY DEF Message, MessageTypes
    <2> QED
      BY <2>1
  <1>5. a \in Seq(M) /\ Len(a) = Len(ns) /\ \A i \in DOMAIN ns : a[i] = Overflow(ns[i])
    <2>1. \A i \in DOMAIN ns : Overflow(ns[i]) \in M
      BY <1>2 DEF Overflow, Message, MessageTypes
    <2> QED
      BY <1>2, <2>1
  <1>6. b \in Seq(M) /\ Len(b) = Len(q) /\ \A i \in DOMAIN q : b[i] = Frame(q[i])
    <2>1. \A i \in DOMAIN q : Frame(q[i]) \in M
      BY <1>3 DEF Frame, Message, MessageTypes
    <2> QED
      BY <1>1, <2>1
  <1> HIDE DEF M, a, b, h
  <1>7. /\ a \o b \in Seq(M) /\ Len(a \o b) = Len(ns) + Len(q)
        /\ \A i \in 1 .. Len(ns) + Len(q) : (a \o b)[i] = IF i <= Len(ns) THEN a[i] ELSE b[i - Len(ns)]
    <2>1. a \o b \in Seq(M)
      BY <1>5, <1>6, ConcatProperties
    <2>2. Len(a \o b) = Len(a) + Len(b)
      BY <1>5, <1>6, ConcatProperties
    <2>3. \A i \in 1 .. Len(a) + Len(b) : (a \o b)[i] = IF i <= Len(a) THEN a[i] ELSE b[i - Len(a)]
      BY <1>5, <1>6, ConcatProperties
    <2> QED
      BY <1>5, <1>6, <2>1, <2>2, <2>3
  <1> DEFINE t == a \o b
  <1>8. t \in Seq(M) /\ Len(t) = Len(ns) + Len(q)
    BY <1>7
  <1>9. \A i \in 1 .. Len(t) : t[i] = IF i <= Len(ns) THEN a[i] ELSE b[i - Len(ns)]
    BY <1>7
  <1> HIDE DEF t
  <1>10. /\ h \o t \in Seq(M) /\ Len(h \o t) = 1 + Len(t)
         /\ \A i \in 1 .. 1 + Len(t) : (h \o t)[i] = IF i <= 1 THEN h[i] ELSE t[i - 1]
    <2>0. h \in Seq(M) /\ t \in Seq(M)
      BY <1>4, <1>8
    <2>1. h \o t \in Seq(M)
      BY <2>0, ConcatProperties
    <2>2. Len(h \o t) = Len(h) + Len(t)
      BY <2>0, ConcatProperties
    <2>3. \A i \in 1 .. Len(h) + Len(t) : (h \o t)[i] = IF i <= Len(h) THEN h[i] ELSE t[i - Len(h)]
      BY <2>0, ConcatProperties
    <2> QED
      BY <1>4, <2>1, <2>2, <2>3
  <1>11. s = h \o t
    BY DEF t
  <1> HIDE DEF s
  <1>12. s \in Seq(M) /\ Len(s) = 1 + Len(ns) + Len(q) /\ DOMAIN s = 1 .. 1 + Len(ns) + Len(q)
    <2>1. s \in Seq(M) /\ Len(s) = 1 + Len(t)
      BY <1>10, <1>11
    <2>2. DOMAIN s = 1 .. Len(s)
      BY <2>1, LenProperties
    <2> QED
      BY <1>1, <1>2, <1>8, <2>1, <2>2
  <1>13. s[1] = Message("attached", {})
    BY <1>1, <1>2, <1>4, <1>8, <1>10, <1>11
  <1>14. \A i \in DOMAIN ns : i + 1 \in DOMAIN s /\ s[i + 1] = Overflow(ns[i])
    <2> SUFFICES ASSUME NEW i \in DOMAIN ns PROVE i + 1 \in DOMAIN s /\ s[i + 1] = Overflow(ns[i])
      OBVIOUS
    <2>1. i \in Nat /\ i >= 1 /\ i <= Len(ns)
      BY <1>2
    <2>2. i + 1 \in DOMAIN s /\ i \in 1 .. Len(t) /\ i + 1 \in 1 .. 1 + Len(t)
      BY <1>1, <1>2, <1>8, <1>12, <2>1
    <2>3. t[i] = Overflow(ns[i])
      BY <1>5, <1>9, <2>1, <2>2
    <2>4. (h \o t)[i + 1] = t[i + 1 - 1]
      BY <1>10, <2>1, <2>2
    <2>5. i + 1 - 1 = i
      BY <2>1
    <2> QED
      BY <1>11, <2>2, <2>3, <2>4, <2>5
  <1>15. \A i \in DOMAIN q : /\ i + 1 + Len(ns) \in DOMAIN s
                             /\ s[i + 1 + Len(ns)] = Frame(q[i])
    <2> SUFFICES ASSUME NEW i \in DOMAIN q
                 PROVE  i + 1 + Len(ns) \in DOMAIN s /\ s[i + 1 + Len(ns)] = Frame(q[i])
      OBVIOUS
    <2>1. i \in Nat /\ i >= 1 /\ i <= Len(q)
      BY <1>1
    <2>2. /\ i + 1 + Len(ns) \in DOMAIN s /\ i + Len(ns) \in 1 .. Len(t)
          /\ i + 1 + Len(ns) \in 1 .. 1 + Len(t)
      BY <1>1, <1>2, <1>8, <1>12, <2>1
    <2>3. ~(i + Len(ns) <= Len(ns)) /\ i + Len(ns) - Len(ns) = i
      BY <1>2, <2>1
    <2>4. t[i + Len(ns)] = Frame(q[i])
      <3> DEFINE x == i + Len(ns)
      <3>1. x \in 1 .. Len(t) /\ ~(x <= Len(ns)) /\ x - Len(ns) = i
        BY <1>2, <2>1, <2>2, <2>3
      <3> HIDE DEF x
      <3>2. t[x] = b[x - Len(ns)]
        BY <1>9, <3>1
      <3>3. t[x] = Frame(q[i])
        BY <1>6, <3>1, <3>2
      <3> QED
        BY <3>3 DEF x
    <2>5. (h \o t)[i + 1 + Len(ns)] = t[i + 1 + Len(ns) - 1]
      BY <1>2, <1>10, <2>1, <2>2, SMTT(30)
    <2>6. i + 1 + Len(ns) - 1 = i + Len(ns)
      BY <1>2, <2>1
    <2> QED
      BY <1>11, <2>2, <2>4, <2>5, <2>6
  <1>16. \A i \in DOMAIN s :
           \/ i = 1
           \/ i \in Nat /\ \E k \in DOMAIN ns : i = k + 1 /\ s[i] = Overflow(ns[k])
           \/ i \in Nat /\ \E k \in DOMAIN q : i = k + 1 + Len(ns) /\ s[i] = Frame(q[k])
    <2> SUFFICES ASSUME NEW i \in DOMAIN s, i # 1
                 PROVE  \/ i \in Nat /\ \E k \in DOMAIN ns : i = k + 1 /\ s[i] = Overflow(ns[k])
                        \/ i \in Nat /\ \E k \in DOMAIN q : i = k + 1 + Len(ns) /\ s[i] = Frame(q[k])
      OBVIOUS
    <2>1. i \in Nat /\ i > 1 /\ i <= 1 + Len(ns) + Len(q)
      BY <1>1, <1>2, <1>12
    <2>2. CASE i <= Len(ns) + 1
      <3>1. i - 1 \in DOMAIN ns /\ i = (i - 1) + 1
        BY <1>2, <2>1, <2>2
      <3> QED
        BY <1>14, <2>1, <3>1
    <2>3. CASE i > Len(ns) + 1
      <3>1. i - 1 - Len(ns) \in DOMAIN q /\ i = (i - 1 - Len(ns)) + 1 + Len(ns)
        BY <1>1, <1>2, <2>1, <2>3
      <3> QED
        BY <1>15, <2>1, <3>1
    <2> QED
      BY <1>2, <2>1, <2>2, <2>3
  <1>17. \A x : Frame(x).type = "frame" /\ Frame(x).ids = {x}
               /\ Overflow(x).type = "overflow" /\ Overflow(x).ids = x
    BY DEF Frame, Overflow, Message
  <1>18. s[1].type = "attached" /\ s[1].ids = {} /\ 1 \in DOMAIN s
    BY <1>1, <1>2, <1>12, <1>13 DEF Message
  <1>19. \A i \in DOMAIN s : s[i].type = "frame" =>
           \E k \in DOMAIN q : i = k + 1 + Len(ns) /\ s[i].ids = {q[k]}
    BY <1>16, <1>17, <1>18
  <1>20. Items(s, "attaching")
    <2> SUFFICES ASSUME NEW i \in DOMAIN s
                 PROVE  /\ Single(s[i])
                        /\ \/ s[i].type \in {"frame", "overflow"}
                           \/ i = 1 /\ s[i].type = "attached" /\ s[i].ids = {}
      BY DEF Items
    <2>1. Single(s[i])
      BY <1>3, <1>19 DEF Single
    <2> QED
      BY <1>16, <1>17, <1>18, <2>1
  <1>21. Rising(s)
    <2> SUFFICES ASSUME NEW i \in DOMAIN s, NEW j \in DOMAIN s, i < j,
                        s[i].type = "frame", s[j].type = "frame",
                        NEW c \in s[i].ids, NEW d \in s[j].ids
                 PROVE  c < d
      BY DEF Rising
    <2>1. PICK k \in DOMAIN q : i = k + 1 + Len(ns) /\ s[i].ids = {q[k]}
      BY <1>19
    <2>2. PICK m \in DOMAIN q : j = m + 1 + Len(ns) /\ s[j].ids = {q[m]}
      BY <1>19
    <2>3. k < m
      BY <1>1, <1>2, <2>1, <2>2
    <2> QED
      BY <1>1, <2>1, <2>2, <2>3
  <1>22. \A d \in I : \/ d \in K
                      \/ \E k \in DOMAIN ns : d \in s[k + 1].ids
                      \/ \E k \in DOMAIN q : d = q[k] /\ s[k + 1 + Len(ns)].ids = {d}
    <2> SUFFICES ASSUME NEW d \in I, d \notin K
                 PROVE  \/ \E k \in DOMAIN ns : d \in s[k + 1].ids
                        \/ \E k \in DOMAIN q : d = q[k] /\ s[k + 1 + Len(ns)].ids = {d}
      OBVIOUS
    <2>1. CASE d \in B
      <3>1. PICK k \in DOMAIN q : q[k] = d
        BY <1>1, <2>1
      <3> QED
        BY <1>15, <1>17, <3>1
    <2>2. CASE \E k \in DOMAIN ns : d \in ns[k]
      <3>1. PICK k \in DOMAIN ns : d \in ns[k]
        BY <2>2
      <3>2. s[k + 1].ids = ns[k]
        BY <1>14, <1>17
      <3> QED
        BY <3>1, <3>2
    <2> QED
      BY <2>1, <2>2
  <1>23. Gapless(s, K)
    <2> SUFFICES ASSUME NEW i \in DOMAIN s, s[i].type = "frame",
                        NEW c \in s[i].ids, NEW d \in 1 .. c - 1
                 PROVE  d \in K \/ \E j \in DOMAIN s : j < i /\ d \in s[j].ids
      BY DEF Gapless
    <2>1. PICK k \in DOMAIN q : i = k + 1 + Len(ns) /\ c = q[k]
      BY <1>19
    <2>2. c \in I /\ d \in I /\ d \in Nat /\ c \in Nat /\ d < c
      <3>1. c \in I /\ c \in Nat
        BY <1>3, <2>1
      <3>2. d \in I
        BY <3>1
      <3> QED
        BY <3>1, <3>2
    <2>3. CASE \E m \in DOMAIN ns : d \in s[m + 1].ids
      <3>1. PICK m \in DOMAIN ns : d \in s[m + 1].ids
        BY <2>3
      <3>2. m + 1 \in DOMAIN s /\ m + 1 < i
        BY <1>1, <1>2, <1>14, <2>1
      <3> QED
        BY <3>1, <3>2
    <2>4. CASE \E m \in DOMAIN q : d = q[m] /\ s[m + 1 + Len(ns)].ids = {d}
      <3>1. PICK m \in DOMAIN q : d = q[m] /\ s[m + 1 + Len(ns)].ids = {d}
        BY <2>4
      <3>2. m \in Nat /\ k \in Nat /\ m < k
        <4>1. m \in Nat /\ k \in Nat
          BY <1>1
        <4>2. m # k /\ ~(k < m)
          BY <1>1, <2>1, <2>2, <3>1
        <4> QED
          BY <4>1, <4>2
      <3>3. m + 1 + Len(ns) \in DOMAIN s /\ m + 1 + Len(ns) < i
        BY <1>2, <1>15, <2>1, <3>2
      <3> QED
        BY <3>1, <3>3
    <2> QED
      BY <1>22, <2>2, <2>3, <2>4
  <1>24. ASSUME who \in Connections \/ n = Len(s) PROVE Complete(s, n, K, I, who)
    <2> SUFFICES ASSUME NEW d \in I
                 PROVE  d \in K \/ \E j \in DOMAIN s :
                          d \in s[j].ids /\ (j <= n \/ s[j].type = "frame" \/ who \in Connections)
      BY DEF Complete
    <2>1. d \in K \/ \E j \in DOMAIN s : d \in s[j].ids
      BY <1>14, <1>15, <1>22
    <2>2. \A j \in DOMAIN s : j <= n \/ who \in Connections
      BY <1>1, <1>2, <1>12, <1>24
    <2> QED
      BY <2>1, <2>2
  <1>25. s = <<Message("attached", {})>> \o Replay(B, ns)
    BY DEF s, a, b, h, q, Replay
  <1> QED
    BY <1>12, <1>20, <1>21, <1>23, <1>24, <1>25 DEF M

-----------------------------------------------------------------------------
(* The inductive invariant.                                                *)

Live == gateway.state # "down"
Writer == IF holder = None THEN None ELSE holder.who

(* What is written, and what will be, for the running Gateway.             *)
Rest == IF holder # None /\ holder.to = gateway.conn THEN holder.todo ELSE <<>>
Stream == down[gateway.conn] \o Rest

(* The Gateway was attached, whether or not it knows it yet.               *)
Joined ==
  \/ gateway.state = "attached"
  \/ gateway.state = "attaching" /\ Stream # <<>> /\ Stream[1].type = "attached"

(* Frames that were handled, that a handled notice names or whose          *)
(* publisher was cancelled.                                                *)
Known == handled.frames \cup (UNION handled.notices) \cup aborted

Queue == [who : Worlds \cup Connections, size : Nat]
Distinct(q) == \A i, j \in DOMAIN q : i # j => q[i].who # q[j].who

(* Who waits for the lock, and where the task of each connection is.       *)
TasksInv ==
  /\ \A c \in Connections : handler[c] \in {"waiting", "serving"} <=> gatewayWriter = c
  /\ \A i \in DOMAIN waiters :
       /\ waiters[i].who \in Connections => handler[waiters[i].who] = "waiting"
       /\ waiters[i].who \in Worlds => waiters[i].size \in Sizes
  /\ Distinct(waiters)
  /\ holder # None =>
       /\ \A i \in DOMAIN waiters : waiters[i].who # holder.who
       /\ holder.who \in Connections => holder.to = holder.who /\ handler[holder.who] = "waiting"
  /\ gateway.state = "down" => open = {}
  /\ Live => gateway.conn \in Connections /\ open = {gateway.conn}
  /\ gateway.state = "attaching" => seen = <<>>
  /\ gateway.state # "attached" => gateway.pending = None

(* What was handled is acknowledged, and nothing else.                     *)
Owed(m) ==
  \/ m.type = "frame" /\ \E c \in handled.frames : m.ids = {c}
  \/ m.type # "frame" /\ m.ids \in handled.notices
Answer(m) ==
  \/ m.type = "ack" /\ \E c \in handled.frames : m.ids = {c}
  \/ m.type = "ack_overflow" /\ m.ids \in handled.notices
  \/ m.type = "shutdown"
AcksInv ==
  /\ \A c \in Connections : \A i \in DOMAIN up[c] : Answer(up[c][i])
  /\ gateway.pending # None => Owed(gateway.pending)

(* What comes to a Gateway that was attached.                              *)
StreamInv ==
  Joined =>
    /\ Items(Stream, gateway.state)
    /\ Rising(Stream)
    /\ After(Stream, seen)
    /\ Gapless(Stream, Known)
    /\ gatewayWriter = gateway.conn =>
         Complete(Stream, Len(down[gateway.conn]), Known, Ids, Writer)
    /\ handler[gateway.conn] # "accepting"
    /\ \A i \in DOMAIN waiters : waiters[i].who # gateway.conn

(* What was handled, by this Gateway and by those before it.               *)
PastInv ==
  /\ \A i \in DOMAIN seen : Single(seen[i])
  /\ Rising(seen)
  /\ \A c \in handled.frames : 1 .. c - 1 \subseteq Known

Inv == TypeOK /\ TasksInv /\ AcksInv /\ StreamInv /\ PastInv /\ OnlyAbortedLost
-----------------------------------------------------------------------------
(* What a step leaves alone.                                               *)

LEMMA KnownGrows ==
  ASSUME handled.frames \subseteq handled'.frames, handled.notices \subseteq handled'.notices,
         aborted \subseteq aborted'
  PROVE  Known \subseteq Known'
  BY DEF Known

(* Steps that leave what was handled alone.                                *)
LEMMA PastKept ==
  ASSUME PastInv, past' = past, aborted \subseteq aborted'
  PROVE  PastInv'
  <1>1. seen' = seen /\ handled' = handled
    BY DEF past
  <1>2. Known \subseteq Known'
    BY <1>1, KnownGrows
  <1>3. \A i \in DOMAIN seen' : Single(seen'[i])
    BY <1>1 DEF PastInv
  <1>4. Rising(seen')
    BY <1>1 DEF PastInv
  <1>5. \A c \in handled'.frames : 1 .. c - 1 \subseteq Known'
    BY <1>1, <1>2 DEF PastInv
  <1> QED
    BY <1>3, <1>4, <1>5 DEF PastInv

(* Steps that leave the stored frames alone.                               *)
LEMMA LostKept ==
  ASSUME OnlyAbortedLost, store' = store,
         handled.frames \subseteq handled'.frames, handled.notices \subseteq handled'.notices,
         aborted \subseteq aborted'
  PROVE  OnlyAbortedLost'
  <1>1. log' = log /\ buffer' = buffer /\ notices' = notices
    BY DEF store
  <1>2. Ids' = Ids
    BY <1>1 DEF Ids
  <1>3. Lost' \subseteq Lost
    BY <1>1, <1>2 DEF Lost
  <1> QED
    BY <1>3 DEF OnlyAbortedLost

(* Steps that send no acknowledgement.                                     *)
LEMMA AcksKept ==
  ASSUME AcksInv, up' = up, gateway'.pending \in {gateway.pending, None},
         handled.frames \subseteq handled'.frames, handled.notices \subseteq handled'.notices
  PROVE  AcksInv'
  <1>1. \A m : Answer(m) => Answer(m)'
    BY DEF Answer
  <1>2. \A m : Owed(m) => Owed(m)'
    BY DEF Owed
  <1> QED
    BY <1>1, <1>2 DEF AcksInv

(* Steps that leave the stream of the Gateway alone.                       *)
LEMMA StreamKept ==
  ASSUME StreamInv, Stream' = Stream, seen' = seen, Known \subseteq Known',
         gateway'.state = gateway.state, gateway'.conn = gateway.conn,
         Joined =>
           /\ handler'[gateway.conn] # "accepting"
           /\ \A i \in DOMAIN waiters' : waiters'[i].who # gateway.conn
           /\ gatewayWriter' = gateway.conn =>
                /\ gatewayWriter = gateway.conn /\ Ids' = Ids
                /\ Complete(Stream, Len(down[gateway.conn]), Known', Ids, Writer) =>
                     Complete(Stream, Len(down'[gateway.conn]), Known', Ids, Writer')
  PROVE  StreamInv'
  <1> SUFFICES ASSUME Joined'
               PROVE  /\ Items(Stream, gateway.state) /\ Rising(Stream) /\ After(Stream, seen)
                      /\ Gapless(Stream, Known')
                      /\ gatewayWriter' = gateway.conn =>
                           Complete(Stream, Len(down'[gateway.conn]), Known', Ids', Writer')
                      /\ handler'[gateway.conn] # "accepting"
                      /\ \A i \in DOMAIN waiters' : waiters'[i].who # gateway.conn
    BY DEF StreamInv
  <1>1. Joined
    BY DEF Joined
  <1>2. Gapless(Stream, Known')
    BY <1>1 DEF StreamInv, Gapless
  <1>3. Complete(Stream, Len(down[gateway.conn]), Known, Ids, Writer) =>
          Complete(Stream, Len(down[gateway.conn]), Known', Ids, Writer)
    BY DEF Complete
  <1>4. gatewayWriter' = gateway.conn =>
          Complete(Stream, Len(down'[gateway.conn]), Known', Ids', Writer')
    <2> SUFFICES ASSUME gatewayWriter' = gateway.conn
                 PROVE  Complete(Stream, Len(down'[gateway.conn]), Known', Ids', Writer')
      OBVIOUS
    <2>1. gatewayWriter = gateway.conn /\ Ids' = Ids
      BY <1>1
    <2>2. Complete(Stream, Len(down[gateway.conn]), Known, Ids, Writer)
      BY <1>1, <2>1 DEF StreamInv
    <2>3. Complete(Stream, Len(down'[gateway.conn]), Known', Ids, Writer')
      BY <1>1, <1>3, <2>2
    <2> QED
      BY <2>1, <2>3
  <1> QED
    BY <1>1, <1>2, <1>4 DEF StreamInv

-----------------------------------------------------------------------------
(* The queue of those who wait for the lock.                               *)

(* What r is to q when somebody leaves q.                                  *)
Leaves(q, r, who) ==
  /\ r \in Seq(Queue) /\ Distinct(r)
  /\ \A i \in DOMAIN r : r[i].who # who /\ \E j \in DOMAIN q : r[i] = q[j]

(* The first of the queue gets the lock.                                   *)
LEMMA FirstLeaves ==
  ASSUME NEW q \in Seq(Queue), Distinct(q), q # <<>>
  PROVE  /\ Leaves(q, Tail(q), Head(q).who)
         /\ Head(q) = q[1] /\ 1 \in DOMAIN q /\ q[1] \in Queue
  <1>1. Len(q) \in Nat /\ DOMAIN q = 1 .. Len(q) /\ Len(q) > 0
    BY LenProperties, EmptySeq
  <1>2. Tail(q) \in Seq(Queue) /\ Len(Tail(q)) = Len(q) - 1
    BY HeadTailProperties
  <1>3. \A i \in 1 .. Len(Tail(q)) : Tail(q)[i] = q[i + 1]
    BY HeadTailProperties
  <1>4. DOMAIN Tail(q) = 1 .. Len(q) - 1
    BY <1>2, LenProperties
  <1>5. Head(q) = q[1] /\ 1 \in DOMAIN q /\ q[1] \in Queue
    BY <1>1, ElementOfSeq
  <1> DEFINE r == Tail(q)
  <1>6. \A i \in DOMAIN r : i + 1 \in DOMAIN q /\ i + 1 # 1 /\ r[i] = q[i + 1] /\ i \in Nat
    BY <1>1, <1>2, <1>3, <1>4
  <1>7. r \in Seq(Queue)
    BY <1>2
  <1> HIDE DEF r
  <1>8. Distinct(r)
    <2> SUFFICES ASSUME NEW i \in DOMAIN r, NEW j \in DOMAIN r, i # j
                 PROVE  r[i].who # r[j].who
      BY DEF Distinct
    <2>1. i + 1 \in DOMAIN q /\ j + 1 \in DOMAIN q /\ i + 1 # j + 1
      BY <1>6
    <2> QED
      BY <1>6, <2>1 DEF Distinct
  <1>9. \A i \in DOMAIN r : r[i].who # Head(q).who /\ \E j \in DOMAIN q : r[i] = q[j]
    BY <1>5, <1>6 DEF Distinct
  <1> QED
    BY <1>5, <1>7, <1>8, <1>9 DEF Leaves, r

(* A publisher or handler that was cancelled leaves the queue.             *)
LEMMA OneLeaves ==
  ASSUME NEW q \in Seq(Queue), Distinct(q), NEW k \in DOMAIN q
  PROVE  Leaves(q, RemoveAt(q, k), q[k].who)
  <1>1. Len(q) \in Nat /\ DOMAIN q = 1 .. Len(q) /\ k \in 1 .. Len(q)
    BY LenProperties
  <1> DEFINE a == SubSeq(q, 1, k - 1)
             b == SubSeq(q, k + 1, Len(q))
             r == RemoveAt(q, k)
  <1>2. /\ a \in Seq(Queue) /\ Len(a) = k - 1
        /\ \A i \in 1 .. k - 1 : a[i] = q[i]
    <2>1. 1 \in Int /\ k - 1 \in Int /\ \A i \in 1 .. k - 1 : q[i] \in Queue
      BY <1>1, ElementOfSeq
    <2>2. a \in Seq(Queue)
      BY <2>1, SubSeqProperties
    <2>3. Len(a) = IF 1 <= k - 1 THEN (k - 1) - 1 + 1 ELSE 0
      BY <2>1, SubSeqProperties
    <2>4. \A i \in 1 .. (k - 1) - 1 + 1 : a[i] = q[1 + i - 1]
      BY <2>1, SubSeqProperties
    <2> QED
      BY <1>1, <2>2, <2>3, <2>4
  <1>3. /\ b \in Seq(Queue) /\ Len(b) = Len(q) - k
        /\ \A i \in 1 .. Len(q) - k : b[i] = q[k + i]
    <2>1. k + 1 \in Int /\ Len(q) \in Int /\ \A i \in k + 1 .. Len(q) : q[i] \in Queue
      BY <1>1, ElementOfSeq
    <2>2. b \in Seq(Queue)
      BY <2>1, SubSeqProperties
    <2>3. Len(b) = IF k + 1 <= Len(q) THEN Len(q) - (k + 1) + 1 ELSE 0
      BY <2>1, SubSeqProperties
    <2>4. \A i \in 1 .. Len(q) - (k + 1) + 1 : b[i] = q[(k + 1) + i - 1]
      BY <2>1, SubSeqProperties
    <2> QED
      BY <1>1, <2>2, <2>3, <2>4
  <1> HIDE DEF a, b
  <1>4. r = a \o b
    BY DEF RemoveAt, a, b
  <1> HIDE DEF r
  <1>5. r \in Seq(Queue) /\ Len(r) = Len(a) + Len(b)
    BY <1>2, <1>3, <1>4, ConcatProperties
  <1>6. \A i \in 1 .. Len(a) + Len(b) : r[i] = IF i <= Len(a) THEN a[i] ELSE b[i - Len(a)]
    BY <1>2, <1>3, <1>4, ConcatProperties
  <1>7. DOMAIN r = 1 .. Len(q) - 1
    BY <1>1, <1>2, <1>3, <1>5, LenProperties
  <1> DEFINE from(i) == IF i < k THEN i ELSE i + 1
  <1>8. \A i \in DOMAIN r : from(i) \in DOMAIN q /\ from(i) # k /\ r[i] = q[from(i)]
    <2> SUFFICES ASSUME NEW i \in DOMAIN r
                 PROVE  from(i) \in DOMAIN q /\ from(i) # k /\ r[i] = q[from(i)]
      OBVIOUS
    <2>1. CASE i < k
      <3>1. i \in DOMAIN q /\ i # k /\ i <= Len(a) /\ i \in 1 .. k - 1 /\ i \in 1 .. Len(a) + Len(b)
        BY <1>1, <1>2, <1>3, <1>7, <2>1
      <3> QED
        BY <1>2, <1>6, <2>1, <3>1
    <2>2. CASE ~(i < k)
      <3>1. /\ i + 1 \in DOMAIN q /\ i + 1 # k /\ ~(i <= Len(a)) /\ i \in 1 .. Len(a) + Len(b)
            /\ i - Len(a) \in 1 .. Len(q) - k /\ k + (i - Len(a)) = i + 1
        BY <1>1, <1>2, <1>3, <1>7, <2>2
      <3>2. r[i] = b[i - Len(a)]
        BY <1>6, <3>1
      <3>3. b[i - Len(a)] = q[k + (i - Len(a))]
        BY <1>3, <3>1
      <3> QED
        BY <2>2, <3>1, <3>2, <3>3
    <2> QED
      BY <2>1, <2>2
  <1>9. \A i, j \in DOMAIN r : i # j => from(i) # from(j)
    BY <1>1, <1>7
  <1> HIDE DEF from
  <1>10. Distinct(r)
    BY <1>8, <1>9 DEF Distinct
  <1>11. \A i \in DOMAIN r : r[i].who # q[k].who /\ \E j \in DOMAIN q : r[i] = q[j]
    BY <1>8 DEF Distinct
  <1> QED
    BY <1>5, <1>10, <1>11 DEF Leaves, r

(* Somebody joins the queue.                                               *)
LEMMA OneJoins ==
  ASSUME NEW q \in Seq(Queue), Distinct(q), NEW x \in Queue,
         \A i \in DOMAIN q : q[i].who # x.who
  PROVE  /\ Append(q, x) \in Seq(Queue) /\ Distinct(Append(q, x))
         /\ \A i \in DOMAIN Append(q, x) :
              Append(q, x)[i] = x \/ \E j \in DOMAIN q : Append(q, x)[i] = q[j]
  <1> DEFINE r == Append(q, x)
  <1>1. r \in Seq(Queue) /\ Len(r) = Len(q) + 1
    BY AppendProperties
  <1>2. \A i \in 1 .. Len(q) : r[i] = q[i]
    BY AppendProperties
  <1>3. r[Len(q) + 1] = x
    BY AppendProperties
  <1>4. Len(q) \in Nat /\ DOMAIN q = 1 .. Len(q) /\ DOMAIN r = 1 .. Len(q) + 1
    BY <1>1, LenProperties
  <1> HIDE DEF r
  <1>5. \A i \in DOMAIN r : (i \in DOMAIN q /\ r[i] = q[i]) \/ (i = Len(q) + 1 /\ r[i] = x)
    BY <1>2, <1>3, <1>4
  <1>6. Distinct(r)
    <2> SUFFICES ASSUME NEW i \in DOMAIN r, NEW j \in DOMAIN r, i # j
                 PROVE  r[i].who # r[j].who
      BY DEF Distinct
    <2> QED
      BY <1>5 DEF Distinct
  <1> QED
    BY <1>1, <1>5, <1>6 DEF r

(* The queue keeps its properties when somebody leaves it.                 *)
LEMMA QueueShrinks ==
  ASSUME NEW who, Leaves(waiters, waiters', who),
         \A i \in DOMAIN waiters :
           /\ waiters[i].who \in Connections => handler[waiters[i].who] = "waiting"
           /\ waiters[i].who \in Worlds => waiters[i].size \in Sizes,
         \A c \in Connections : c # who => handler'[c] = handler[c]
  PROVE  /\ \A i \in DOMAIN waiters' :
              /\ waiters'[i].who \in Connections => handler'[waiters'[i].who] = "waiting"
              /\ waiters'[i].who \in Worlds => waiters'[i].size \in Sizes
         /\ Distinct(waiters') /\ \A i \in DOMAIN waiters' : waiters'[i].who # who
  BY DEF Leaves

(* What taking out one element leaves.                                     *)
LEMMA RemovedOne ==
  ASSUME NEW S, NEW q \in Seq(S), NEW k \in DOMAIN q
  PROVE  /\ RemoveAt(q, k) \in Seq(S)
         /\ \A x \in ToSet(q) : x \in ToSet(RemoveAt(q, k)) \/ x = q[k]
  <1>1. Len(q) \in Nat /\ DOMAIN q = 1 .. Len(q) /\ k \in 1 .. Len(q)
    BY LenProperties
  <1> DEFINE a == SubSeq(q, 1, k - 1)
             b == SubSeq(q, k + 1, Len(q))
             r == RemoveAt(q, k)
  <1>2. /\ a \in Seq(S) /\ Len(a) = k - 1
        /\ \A i \in 1 .. k - 1 : a[i] = q[i]
    <2>1. 1 \in Int /\ k - 1 \in Int /\ \A i \in 1 .. k - 1 : q[i] \in S
      BY <1>1, ElementOfSeq
    <2>2. a \in Seq(S)
      BY <2>1, SubSeqProperties
    <2>3. Len(a) = IF 1 <= k - 1 THEN (k - 1) - 1 + 1 ELSE 0
      BY <2>1, SubSeqProperties
    <2>4. \A i \in 1 .. (k - 1) - 1 + 1 : a[i] = q[1 + i - 1]
      BY <2>1, SubSeqProperties
    <2> QED
      BY <1>1, <2>2, <2>3, <2>4
  <1>3. /\ b \in Seq(S) /\ Len(b) = Len(q) - k
        /\ \A i \in 1 .. Len(q) - k : b[i] = q[k + i]
    <2>1. k + 1 \in Int /\ Len(q) \in Int /\ \A i \in k + 1 .. Len(q) : q[i] \in S
      BY <1>1, ElementOfSeq
    <2>2. b \in Seq(S)
      BY <2>1, SubSeqProperties
    <2>3. Len(b) = IF k + 1 <= Len(q) THEN Len(q) - (k + 1) + 1 ELSE 0
      BY <2>1, SubSeqProperties
    <2>4. \A i \in 1 .. Len(q) - (k + 1) + 1 : b[i] = q[(k + 1) + i - 1]
      BY <2>1, SubSeqProperties
    <2> QED
      BY <1>1, <2>2, <2>3, <2>4
  <1> HIDE DEF a, b
  <1>4. r = a \o b
    BY DEF RemoveAt, a, b
  <1> HIDE DEF r
  <1>5. r \in Seq(S) /\ Len(r) = Len(a) + Len(b)
    BY <1>2, <1>3, <1>4, ConcatProperties
  <1>6. \A i \in 1 .. Len(a) + Len(b) : r[i] = IF i <= Len(a) THEN a[i] ELSE b[i - Len(a)]
    BY <1>2, <1>3, <1>4, ConcatProperties
  <1>7. DOMAIN r = 1 .. Len(q) - 1
    BY <1>1, <1>2, <1>3, <1>5, LenProperties
  <1>8. ASSUME NEW j \in DOMAIN q, j # k PROVE \E i \in DOMAIN r : r[i] = q[j]
    <2>1. CASE j < k
      <3>1. j \in DOMAIN r /\ j \in 1 .. k - 1 /\ j <= Len(a) /\ j \in 1 .. Len(a) + Len(b)
        BY <1>1, <1>2, <1>3, <1>7, <2>1
      <3> QED
        BY <1>2, <1>6, <3>1
    <2>2. CASE ~(j < k)
      <3>1. /\ j - 1 \in DOMAIN r /\ ~(j - 1 <= Len(a)) /\ j - 1 \in 1 .. Len(a) + Len(b)
            /\ (j - 1) - Len(a) \in 1 .. Len(q) - k /\ k + ((j - 1) - Len(a)) = j
        BY <1>1, <1>2, <1>3, <1>7, <1>8, <2>2, SMTT(30)
      <3>2. r[j - 1] = b[(j - 1) - Len(a)]
        BY <1>6, <3>1
      <3>3. b[(j - 1) - Len(a)] = q[k + ((j - 1) - Len(a))]
        BY <1>3, <3>1
      <3> QED
        BY <3>1, <3>2, <3>3
    <2> QED
      BY <2>1, <2>2
  <1> QED
    BY <1>5, <1>8 DEF ToSet, r

-----------------------------------------------------------------------------
(* Publishing.                                                             *)

(* What AppendFrame does to the replay buffer: a new frame, and every      *)
(* frame it drops is named by a notice.                                    *)
LEMMA AppendedStore ==
  ASSUME TypeOK, NEW w \in Worlds, NEW size \in Sizes, AppendFrame(w, size)
  PROVE  LET c == Len(log) + 1
             new == NewNotices(buffer \cup {c}, log', w)
         IN  /\ Len(log) \in Nat /\ Ids = 1 .. c - 1 /\ Ids' = 1 .. c
             /\ log' \in Seq([world : Worlds, size : Sizes])
             /\ buffer' \subseteq Ids' /\ buffer' \subseteq buffer \cup {c}
             /\ new \in Seq((SUBSET Ids') \ {{}})
             /\ notices' = notices \o new /\ notices' \in Seq((SUBSET Ids') \ {{}})
             /\ ToSet(notices) \subseteq ToSet(notices')
             /\ \A d \in (buffer \cup {c}) \ buffer' : \E n \in ToSet(notices') : d \in n
             /\ gatewayWriter # None =>
                  Write([who |-> w, to |-> gatewayWriter,
                         todo |-> [i \in DOMAIN new |-> Overflow(new[i])] \o <<Frame(c)>>])
             /\ gatewayWriter = None =>
                  holder' = None /\ UNCHANGED <<handler, gatewayWriter, down, torn>>
  <1> DEFINE c == Len(log) + 1
             B == buffer \cup {c}
             new == NewNotices(B, log', w)
             N == (SUBSET Ids') \ {{}}
  <1>1. log \in Seq([world : Worlds, size : Sizes]) /\ buffer \subseteq Ids
        /\ notices \in Seq((SUBSET Ids) \ {{}})
    BY DEF TypeOK
  <1>2. /\ log' = Append(log, [world |-> w, size |-> size]) /\ Len(log') = c
        /\ log' \in Seq([world : Worlds, size : Sizes])
    <2>1. log' = Append(log, [world |-> w, size |-> size])
      BY DEF AppendFrame
    <2> QED
      BY <1>1, <2>1, AppendProperties
  <1>3. /\ buffer' = Kept(B, log', w) /\ notices' = notices \o new
        /\ gatewayWriter # None =>
             Write([who |-> w, to |-> gatewayWriter,
                    todo |-> [i \in DOMAIN new |-> Overflow(new[i])] \o <<Frame(c)>>])
        /\ gatewayWriter = None =>
             holder' = None /\ UNCHANGED <<handler, gatewayWriter, down, torn>>
    BY <1>2 DEF AppendFrame
  <1>4. Len(log) \in Nat /\ Ids = 1 .. c - 1 /\ Ids' = 1 .. c
    BY <1>1, <1>2, LenProperties DEF Ids
  <1>5. B \in SUBSET Nat /\ IsFiniteSet(B) /\ 0 \notin B /\ B \subseteq Ids'
    <2>1. B \subseteq 1 .. c
      <3>1. c \in 1 .. c
        BY <1>4
      <3>2. 1 .. c - 1 \subseteq 1 .. c
        BY <1>4
      <3> HIDE DEF c
      <3> QED
        BY <1>1, <1>4, <3>1, <3>2
    <2>2. IsFiniteSet(1 .. c)
      BY <1>4, FS_Interval
    <2>3. IsFiniteSet(B)
      BY <2>1, <2>2, FS_Subset
    <2> QED
      BY <1>4, <2>1, <2>3
  <1> HIDE DEF B
  <1>6. /\ new \in Seq((SUBSET (B \ Kept(B, log', w))) \ {{}})
        /\ \A d \in B \ Kept(B, log', w) : \E i \in DOMAIN new : d \in new[i]
    BY <1>5, NoticesNameDropped
  <1>7. Kept(B, log', w) \subseteq B
    BY KeptIsPart
  <1> HIDE DEF new
  <1>8. new \in Seq(N)
    <2>1. (SUBSET (B \ Kept(B, log', w))) \ {{}} \subseteq N
      BY <1>5
    <2> QED
      BY <1>6, <2>1, SeqMonotonic
  <1>9. notices \in Seq(N)
    <2>1. (SUBSET Ids) \ {{}} \subseteq N
      BY <1>4
    <2> QED
      BY <1>1, <2>1, SeqMonotonic
  <1> HIDE DEF N
  <1>10. notices' \in Seq(N) /\ Len(notices') = Len(notices) + Len(new)
    BY <1>3, <1>8, <1>9, ConcatProperties
  <1>11. \A i \in 1 .. Len(notices) + Len(new) :
           notices'[i] = IF i <= Len(notices) THEN notices[i] ELSE new[i - Len(notices)]
    BY <1>3, <1>8, <1>9, ConcatProperties
  <1>12. /\ DOMAIN notices = 1 .. Len(notices) /\ Len(notices) \in Nat
         /\ DOMAIN new = 1 .. Len(new) /\ Len(new) \in Nat
         /\ DOMAIN notices' = 1 .. Len(notices) + Len(new)
    BY <1>8, <1>9, <1>10, LenProperties
  <1>13. \A i \in DOMAIN notices : i \in DOMAIN notices' /\ notices'[i] = notices[i]
    BY <1>11, <1>12
  <1>14. \A i \in DOMAIN new :
           i + Len(notices) \in DOMAIN notices' /\ notices'[i + Len(notices)] = new[i]
    <2> SUFFICES ASSUME NEW i \in DOMAIN new
                 PROVE  i + Len(notices) \in DOMAIN notices' /\ notices'[i + Len(notices)] = new[i]
      OBVIOUS
    <2> DEFINE k == i + Len(notices)
    <2>1. k \in 1 .. Len(notices) + Len(new) /\ ~(k <= Len(notices)) /\ k - Len(notices) = i
      BY <1>12
    <2> HIDE DEF k
    <2>2. k \in DOMAIN notices' /\ notices'[k] = new[i]
      BY <1>11, <1>12, <2>1
    <2> QED
      BY <2>2 DEF k
  <1>15. ToSet(notices) \subseteq ToSet(notices')
    BY <1>13 DEF ToSet
  <1>16. \A d \in B \ buffer' : \E n \in ToSet(notices') : d \in n
    BY <1>3, <1>6, <1>14 DEF ToSet
  <1> QED
    BY <1>2, <1>3, <1>4, <1>5, <1>7, <1>8, <1>10, <1>15, <1>16 DEF B, new, N

(* What AppendFrame writes: the notices and then the frame, t, to the      *)
(* attached Gateway, if it is still there.                                 *)
LEMMA AppendedStream ==
  ASSUME TypeOK, holder = None, NEW w \in Worlds, NEW size \in Sizes, AppendFrame(w, size)
  PROVE  /\ handler' = handler /\ gatewayWriter' = gatewayWriter /\ torn' \subseteq Worlds
         /\ down' \in [Connections -> Seq(Messages')]
         /\ holder' \in Jobs(Messages') \cup {None}
         /\ holder' # None => holder'.who = w /\ holder'.to = gatewayWriter
         /\ \/ /\ holder' = None /\ down' = down
               /\ gatewayWriter # None => gatewayWriter \notin open
            \/ /\ gatewayWriter \in open
               /\ \A c \in Connections : c # gatewayWriter => down'[c] = down[c]
               /\ Len(down[gatewayWriter]) <= Len(down'[gatewayWriter])
               /\ \E t \in Seq(Messages') :
                    /\ t # <<>> /\ \A i \in DOMAIN t : i < Len(t) => t[i].type = "overflow"
                    /\ t[Len(t)] = Frame(Len(log) + 1) /\ t[1].type \in {"overflow", "frame"}
                    /\ down'[gatewayWriter] \o (IF holder' = None THEN <<>> ELSE holder'.todo) =
                         down[gatewayWriter] \o t
  <1> DEFINE M == [type : MessageTypes, ids : SUBSET Ids']
             c == Len(log) + 1
             new == NewNotices(buffer \cup {c}, log', w)
             a == [i \in DOMAIN new |-> Overflow(new[i])]
             t == a \o <<Frame(c)>>
             job == [who |-> w, to |-> gatewayWriter, todo |-> t]
  <1>0. M = Messages'
    BY DEF Messages
  <1>1. /\ Len(log) \in Nat /\ Ids = 1 .. c - 1 /\ Ids' = 1 .. c
        /\ new \in Seq((SUBSET Ids') \ {{}})
        /\ gatewayWriter # None => Write(job)
        /\ gatewayWriter = None => holder' = None /\ UNCHANGED <<handler, gatewayWriter, down, torn>>
    BY AppendedStore
  <1>2. down \in [Connections -> Seq(M)] /\ torn \subseteq Worlds
    <2>1. Messages \subseteq M
      BY <1>1 DEF Messages
    <2>2. \A d \in Connections : down[d] \in Seq(Messages)
      BY DEF TypeOK
    <2> HIDE DEF M
    <2>3. \A d \in Connections : down[d] \in Seq(M)
      BY <2>1, <2>2, SeqMonotonic
    <2> QED
      BY <2>3 DEF TypeOK
  <1>3. CASE gatewayWriter = None
    BY <1>0, <1>1, <1>2, <1>3
  <1>4. CASE gatewayWriter # None
    <2> HIDE DEF new
    <2>1. a \in Seq(M) /\ Len(a) = Len(new) /\ Len(new) \in Nat
          /\ \A i \in 1 .. Len(a) : a[i].type = "overflow"
      <3>1. DOMAIN new = 1 .. Len(new) /\ Len(new) \in Nat /\ \A i \in DOMAIN new : new[i] \subseteq Ids'
        BY <1>1, LenProperties, ElementOfSeq
      <3>2. \A i \in DOMAIN new : Overflow(new[i]) \in M /\ Overflow(new[i]).type = "overflow"
        BY <3>1 DEF Overflow, Message, MessageTypes
      <3> HIDE DEF M
      <3> QED
        BY <3>1, <3>2
    <2>2. <<Frame(c)>> \in Seq(M) /\ Len(<<Frame(c)>>) = 1 /\ <<Frame(c)>>[1] = Frame(c)
      <3>1. Frame(c) \in M
        BY <1>1 DEF Frame, Message, MessageTypes
      <3> QED
        BY <3>1
    <2> HIDE DEF M, a
    <2>3. t \in Seq(M) /\ Len(t) = Len(a) + 1
      BY <2>1, <2>2, ConcatProperties
    <2>4. \A i \in 1 .. Len(a) + 1 : t[i] = IF i <= Len(a) THEN a[i] ELSE <<Frame(c)>>[i - Len(a)]
      BY <2>1, <2>2, ConcatProperties
    <2> HIDE DEF t
    <2>5. DOMAIN t = 1 .. Len(t) /\ t # <<>>
      BY <2>1, <2>3, LenProperties, EmptySeq
    <2>6. \A i \in DOMAIN t : i < Len(t) => t[i].type = "overflow"
      BY <2>1, <2>3, <2>4, <2>5
    <2>7. t[Len(t)] = Frame(c)
      <3>1. /\ Len(t) \in 1 .. Len(a) + 1 /\ ~(Len(t) <= Len(a)) /\ Len(t) - Len(a) = 1
        BY <2>1, <2>3
      <3> QED
        BY <2>2, <2>4, <3>1
    <2>8. t[1].type \in {"overflow", "frame"}
      <3>1. CASE Len(t) = 1
        BY <2>7, <3>1 DEF Frame, Message
      <3>2. CASE Len(t) # 1
        BY <2>1, <2>3, <2>5, <2>6, <3>2
      <3> QED
        BY <3>1, <3>2
    <2>9. job \in Jobs(M) /\ Write(job)
      <3>1. gatewayWriter \in Connections
        BY <1>4 DEF TypeOK
      <3> QED
        BY <1>1, <1>4, <2>3, <3>1 DEF Jobs
    <2>10. job.who = w /\ job.to = gatewayWriter /\ job.todo = t /\ w \notin Connections
      BY ConnectorAssumption
    <2> HIDE DEF job
    <2>11. \/ /\ job.to \in open /\ torn' = torn
              /\ down' \in [Connections -> Seq(M)]
              /\ \A d \in Connections : d # job.to => down'[d] = down[d]
              /\ Len(down[job.to]) <= Len(down'[job.to])
              /\ \/ /\ holder' = None
                    /\ down'[job.to] = down[job.to] \o job.todo
                    /\ TaskIs(job, "serving")
                 \/ /\ holder' \in Jobs(M) /\ holder'.who = job.who /\ holder'.to = job.to
                    /\ down'[job.to] \o holder'.todo = down[job.to] \o job.todo
                    /\ TaskIs(job, "waiting")
           \/ /\ job.to \notin open /\ torn' = torn \cup ({job.who} \cap Worlds)
              /\ holder' = None /\ down' = down
              /\ TaskIs(job, "none")
      BY <1>2, <2>9, WriteEffect
    <2>12. handler' = handler /\ gatewayWriter' = gatewayWriter
      <3>1. ~(job.who \in Connections)
        BY <2>10
      <3> QED
        BY <2>11, <3>1 DEF TaskIs
    <2>13. CASE job.to \notin open
      BY <1>0, <1>2, <2>10, <2>11, <2>12, <2>13
    <2>14. CASE job.to \in open
      <3>1. /\ torn' = torn /\ down' \in [Connections -> Seq(M)]
            /\ \A d \in Connections : d # job.to => down'[d] = down[d]
            /\ Len(down[job.to]) <= Len(down'[job.to])
            /\ \/ /\ holder' = None
                  /\ down'[job.to] = down[job.to] \o job.todo
               \/ /\ holder' \in Jobs(M) /\ holder'.who = job.who /\ holder'.to = job.to
                  /\ down'[job.to] \o holder'.todo = down[job.to] \o job.todo
        BY <2>11, <2>14
      <3>2. CASE holder' = None /\ down'[job.to] = down[job.to] \o job.todo
        <4>1. down'[job.to] \in Seq(M)
          BY <2>9, <3>1 DEF Jobs
        <4>2. down'[job.to] \o <<>> = down'[job.to]
          BY <4>1, ConcatEmptySeq
        <4>3. down'[gatewayWriter] \o (IF holder' = None THEN <<>> ELSE holder'.todo) =
                down[gatewayWriter] \o t
          BY <2>10, <3>2, <4>2
        <4> QED
          BY <1>0, <1>2, <2>3, <2>5, <2>6, <2>7, <2>8, <2>10, <2>12, <2>14, <3>1, <3>2, <4>3
      <3>3. CASE /\ holder' \in Jobs(M) /\ holder'.who = job.who /\ holder'.to = job.to
                 /\ down'[job.to] \o holder'.todo = down[job.to] \o job.todo
        <4>1. CASE holder' = None
          <5>1. Ids' \in SUBSET Nat
            BY <1>1
          <5>2. None \notin Jobs(M)
            BY <5>1, NoneIsNothing DEF M
          <5> QED
            BY <3>3, <4>1, <5>2
        <4>2. CASE holder' # None
          <5>1. down'[gatewayWriter] \o (IF holder' = None THEN <<>> ELSE holder'.todo) =
                  down[gatewayWriter] \o t
            BY <2>10, <3>3, <4>2
          <5> QED
            BY <1>0, <1>2, <2>3, <2>5, <2>6, <2>7, <2>8, <2>10, <2>12, <2>14, <3>1, <3>3, <4>2, <5>1
        <4> QED
          BY <4>1, <4>2
      <3> QED
        BY <3>1, <3>2, <3>3
    <2> QED
      BY <2>13, <2>14
  <1> QED
    BY <1>3, <1>4

(* A publisher that holds the lock stores its frame and writes it.         *)
LEMMA AppendStep ==
  ASSUME Inv, holder = None, NEW w \in Worlds, NEW size \in Sizes, AppendFrame(w, size),
         Leaves(waiters, waiters', w),
         UNCHANGED <<up, open, gateway, past, aborted, used, phase>>
  PROVE  Inv'
  <1> DEFINE c == Len(log) + 1
             new == NewNotices(buffer \cup {c}, log', w)
  <1>1. TypeOK /\ TasksInv /\ AcksInv /\ StreamInv /\ PastInv /\ OnlyAbortedLost
    BY DEF Inv
  <1>2. /\ up' = up /\ open' = open /\ gateway' = gateway /\ seen' = seen /\ handled' = handled
        /\ aborted' = aborted /\ used' = used /\ phase' = phase
    BY DEF past
  <1>3. /\ Len(log) \in Nat /\ Ids = 1 .. c - 1 /\ Ids' = 1 .. c
        /\ log' \in Seq([world : Worlds, size : Sizes])
        /\ buffer' \subseteq Ids' /\ buffer' \subseteq buffer \cup {c}
        /\ notices' \in Seq((SUBSET Ids') \ {{}})
        /\ ToSet(notices) \subseteq ToSet(notices')
        /\ \A d \in (buffer \cup {c}) \ buffer' : \E n \in ToSet(notices') : d \in n
    BY <1>1, AppendedStore
  <1>4. /\ handler' = handler /\ gatewayWriter' = gatewayWriter /\ torn' \subseteq Worlds
        /\ down' \in [Connections -> Seq(Messages')]
        /\ holder' \in Jobs(Messages') \cup {None}
        /\ holder' # None => holder'.who = w /\ holder'.to = gatewayWriter
    BY <1>1, AppendedStream
  <1>5. Ids \subseteq Ids' /\ Messages \subseteq Messages'
    BY <1>3 DEF Messages
  <1>6. TypeOK'
    <2>1. Seq(Messages) \subseteq Seq(Messages')
      BY <1>5, SeqMonotonic
    <2>2. /\ up \in [Connections -> Seq(Messages)] /\ seen \in Seq(Messages)
          /\ gateway \in [state : {"down", "attaching", "attached"}, conn : Connections \cup {None},
                          pending : Messages \cup {None}]
          /\ handled \in [frames : SUBSET Ids, notices : SUBSET SUBSET Ids] /\ aborted \subseteq Ids
      BY <1>1 DEF TypeOK
    <2>3. up' \in [Connections -> Seq(Messages')] /\ seen' \in Seq(Messages')
      BY <1>2, <2>1, <2>2
    <2>4. gateway' \in [state : {"down", "attaching", "attached"}, conn : Connections \cup {None},
                        pending : Messages' \cup {None}]
      BY <1>2, <1>5, <2>2
    <2>5. handled' \in [frames : SUBSET Ids', notices : SUBSET SUBSET Ids'] /\ aborted' \subseteq Ids'
      <3>1. SUBSET Ids \subseteq SUBSET Ids' /\ SUBSET SUBSET Ids \subseteq SUBSET SUBSET Ids'
        BY <1>5
      <3> QED
        BY <1>2, <1>5, <2>2, <3>1
    <2>6. holder' \in [who : Worlds \cup Connections, to : Connections, todo : Seq(Messages')] \cup {None}
      BY <1>4 DEF Jobs
    <2>7. waiters' \in Seq([who : Worlds \cup Connections, size : Nat])
      BY DEF Leaves, Queue
    <2>8. /\ gatewayWriter' \in Connections \cup {None}
          /\ handler' \in [Connections -> {"none", "accepting", "waiting", "serving"}]
          /\ open' \subseteq Connections
          /\ used' \in [crashes : 0 .. MaxCrashes, aborts : 0 .. MaxAborts]
          /\ phase' \in {"running", "expired", "exited"}
          /\ gatewayWriter' # None => handler'[gatewayWriter'] # "none"
      BY <1>1, <1>2, <1>4 DEF TypeOK
    <2> QED
      BY <1>3, <1>4, <2>3, <2>4, <2>5, <2>6, <2>7, <2>8 DEF TypeOK
  <1>7. TasksInv'
    <2>1. /\ \A i \in DOMAIN waiters' :
               /\ waiters'[i].who \in Connections => handler'[waiters'[i].who] = "waiting"
               /\ waiters'[i].who \in Worlds => waiters'[i].size \in Sizes
          /\ Distinct(waiters') /\ \A i \in DOMAIN waiters' : waiters'[i].who # w
      BY <1>1, <1>4, QueueShrinks DEF TasksInv
    <2>2. w \notin Connections
      BY ConnectorAssumption
    <2> QED
      BY <1>1, <1>2, <1>4, <2>1, <2>2 DEF TasksInv, Live
  <1>8. AcksInv'
    BY <1>1, <1>2, AcksKept
  <1>9. PastInv'
    BY <1>1, PastKept
  <1>10. OnlyAbortedLost'
    <2> SUFFICES ASSUME NEW d \in Lost' PROVE d \in aborted'
      BY DEF OnlyAbortedLost
    <2>1. /\ d \in Ids' /\ d \notin buffer' /\ d \notin handled.frames
          /\ \A n \in ToSet(notices') \cup handled.notices : d \notin n
      BY <1>2 DEF Lost
    <2>2. d \notin buffer \cup {c}
      BY <1>3, <2>1
    <2>3. d \in Ids
      BY <1>3, <2>1, <2>2
    <2>4. d \in Lost
      BY <1>3, <2>1, <2>2, <2>3 DEF Lost
    <2> QED
      BY <1>1, <1>2, <2>4 DEF OnlyAbortedLost
  <1>11. StreamInv'
    <2>1. /\ Known' = Known
          /\ \A i \in DOMAIN waiters' : \E j \in DOMAIN waiters : waiters'[i] = waiters[j]
      BY <1>2 DEF Known, Leaves
    <2>2. CASE holder' = None /\ down' = down /\ (gatewayWriter # None => gatewayWriter \notin open)
      <3>1. Stream' = Stream
        BY <1>2, <2>2 DEF Stream, Rest
      <3>2. Joined => gateway.conn \in Connections /\ gatewayWriter' # gateway.conn
        <4>1. None \notin Connections
          BY ConnectorAssumption
        <4> QED
          BY <1>1, <1>4, <2>2, <4>1 DEF Joined, TasksInv, Live
      <3>3. Joined => /\ handler'[gateway.conn] # "accepting"
                      /\ \A i \in DOMAIN waiters' : waiters'[i].who # gateway.conn
        BY <1>1, <1>4, <2>1 DEF StreamInv
      <3> QED
        BY <1>1, <1>2, <2>1, <3>1, <3>2, <3>3, StreamKept
    <2>3. CASE /\ gatewayWriter \in open
               /\ \A d \in Connections : d # gatewayWriter => down'[d] = down[d]
               /\ Len(down[gatewayWriter]) <= Len(down'[gatewayWriter])
               /\ \E t \in Seq(Messages') :
                    /\ t # <<>> /\ \A i \in DOMAIN t : i < Len(t) => t[i].type = "overflow"
                    /\ t[Len(t)] = Frame(c) /\ t[1].type \in {"overflow", "frame"}
                    /\ down'[gatewayWriter] \o (IF holder' = None THEN <<>> ELSE holder'.todo) =
                         down[gatewayWriter] \o t
      <3> DEFINE g == gateway.conn
                 s == down[g]
      <3>1. Live /\ gatewayWriter = g /\ g \in Connections /\ gatewayWriter' = g
        BY <1>1, <1>4, <2>3 DEF TasksInv, Live
      <3>2. PICK t \in Seq(Messages') :
              /\ t # <<>> /\ \A i \in DOMAIN t : i < Len(t) => t[i].type = "overflow"
              /\ t[Len(t)] = Frame(c) /\ t[1].type \in {"overflow", "frame"}
              /\ down'[g] \o (IF holder' = None THEN <<>> ELSE holder'.todo) = s \o t
        BY <2>3, <3>1
      <3>3. s \in Seq(Messages) /\ s \in Seq(Messages') /\ down'[g] \in Seq(Messages')
        <4>1. s \in Seq(Messages)
          BY <1>1, <3>1 DEF TypeOK
        <4> QED
          BY <1>4, <1>5, <3>1, <4>1, SeqMonotonic
      <3>4. Stream = s
        BY <3>3, ConcatEmptySeq DEF Stream, Rest
      <3>5. Stream' = s \o t
        <4>1. Rest' = IF holder' = None THEN <<>> ELSE holder'.todo
          BY <1>2, <1>4, <3>1 DEF Rest
        <4> QED
          BY <1>2, <3>2, <4>1 DEF Stream
      <3> SUFFICES ASSUME Joined'
                   PROVE  /\ Items(Stream', gateway.state) /\ Rising(Stream') /\ After(Stream', seen)
                          /\ Gapless(Stream', Known)
                          /\ Complete(Stream', Len(down'[g]), Known, 1 .. c, Writer')
                          /\ handler'[g] # "accepting"
                          /\ \A i \in DOMAIN waiters' : waiters'[i].who # g
        BY <1>2, <1>3, <2>1, <3>1 DEF StreamInv
      <3>6. Joined
        <4>1. CASE gateway.state = "attached"
          BY <4>1 DEF Joined
        <4>2. CASE gateway.state # "attached"
          <5>1. gateway.state = "attaching" /\ (s \o t)[1].type = "attached"
            BY <1>2, <3>5, <4>2 DEF Joined
          <5>2. \A i \in 1 .. Len(s) + Len(t) : (s \o t)[i] = IF i <= Len(s) THEN s[i] ELSE t[i - Len(s)]
            BY <3>2, <3>3, ConcatProperties
          <5>3. Len(s) \in Nat /\ Len(t) \in Nat /\ Len(t) > 0
            BY <3>2, <3>3, LenProperties, EmptySeq
          <5>4. CASE Len(s) = 0
            <6>1. (s \o t)[1] = t[1]
              BY <5>2, <5>3, <5>4
            <6> QED
              BY <3>2, <5>1, <6>1
          <5>5. CASE Len(s) # 0
            <6>1. (s \o t)[1] = s[1] /\ s # <<>>
              BY <3>3, <5>2, <5>3, <5>5, EmptySeq
            <6> QED
              BY <3>4, <5>1, <6>1 DEF Joined
          <5> QED
            BY <5>4, <5>5
        <4> QED
          BY <4>1, <4>2
      <3>7. /\ Items(s, gateway.state) /\ Rising(s) /\ After(s, seen) /\ Gapless(s, Known)
            /\ Complete(s, Len(s), Known, 1 .. c - 1, Writer)
            /\ handler[g] # "accepting" /\ \A i \in DOMAIN waiters : waiters[i].who # g
        BY <1>1, <1>3, <3>1, <3>4, <3>6 DEF StreamInv
      <3>8. /\ \A i \in DOMAIN s : s[i].ids \subseteq 1 .. c - 1
            /\ \A i \in DOMAIN seen : seen[i].ids \subseteq 1 .. c - 1
        <4>1. \A m \in Messages : m.ids \subseteq 1 .. c - 1
          BY <1>3 DEF Messages
        <4>2. /\ \A i \in DOMAIN s : s[i] \in Messages
              /\ \A i \in DOMAIN seen : seen[i] \in Messages
          BY <1>1, <3>3, LenProperties, ElementOfSeq DEF TypeOK
        <4> QED
          BY <4>1, <4>2
      <3>9. /\ t[Len(t)].type = "frame" /\ t[Len(t)].ids = {c} /\ c \in Nat
            /\ Len(down'[g]) \in Nat /\ Len(down'[g]) >= Len(s)
        <4>1. Len(s) \in Nat /\ Len(down'[g]) \in Nat
          BY <3>3, LenProperties
        <4> QED
          BY <1>3, <2>3, <3>1, <3>2, <4>1, SMTT(30) DEF Frame, Message
      <3>10. /\ Items(s \o t, gateway.state) /\ Rising(s \o t) /\ After(s \o t, seen)
             /\ Gapless(s \o t, Known) /\ Complete(s \o t, Len(down'[g]), Known, 1 .. c, Writer')
        <4> HIDE DEF s, c
        <4> QED
          BY <3>2, <3>3, <3>7, <3>8, <3>9, ExtendedStream
      <3> QED
        BY <1>4, <2>1, <3>5, <3>7, <3>10
    <2> QED
      BY <1>1, <2>2, <2>3, AppendedStream
  <1> QED
    BY <1>6, <1>7, <1>8, <1>9, <1>10, <1>11 DEF Inv

(* Without a new frame, the numbers and the messages are the same.         *)
LEMMA SameIds ==
  ASSUME log' = log PROVE Ids' = Ids /\ Messages' = Messages
  BY DEF Ids, Messages

(* Somebody queues for the delivery lock.                                  *)
LEMMA JoinStep ==
  ASSUME Inv, NEW x \in Queue, waiters' = Append(waiters, x),
         \A i \in DOMAIN waiters : waiters[i].who # x.who,
         holder # None => holder.who # x.who,
         \/ x.who \in Worlds /\ x.size \in Sizes /\ handler' = handler /\ gatewayWriter' = gatewayWriter
         \/ /\ x.who \in Connections /\ handler[x.who] = "accepting" /\ gatewayWriter = None
            /\ handler' = [handler EXCEPT ![x.who] = "waiting"] /\ gatewayWriter' = x.who,
         UNCHANGED <<store, holder, wires, gateway, past, torn, aborted, used, phase>>
  PROVE  Inv'
  <1>1. TypeOK /\ TasksInv /\ AcksInv /\ StreamInv /\ PastInv /\ OnlyAbortedLost
    BY DEF Inv
  <1>2. /\ up' = up /\ down' = down /\ open' = open /\ gateway' = gateway /\ log' = log
        /\ buffer' = buffer /\ notices' = notices /\ holder' = holder /\ torn' = torn
        /\ seen' = seen /\ handled' = handled /\ aborted' = aborted /\ used' = used /\ phase' = phase
    BY DEF past, wires, store
  <1>3. Ids' = Ids /\ Messages' = Messages
    BY <1>2, SameIds
  <1>4. waiters \in Seq(Queue) /\ Distinct(waiters) /\ Worlds \cap Connections = {}
    BY <1>1, ConnectorAssumption DEF TypeOK, TasksInv, Queue
  <1>5. /\ waiters' \in Seq(Queue) /\ Distinct(waiters')
        /\ \A i \in DOMAIN waiters' : waiters'[i] = x \/ \E j \in DOMAIN waiters : waiters'[i] = waiters[j]
    BY <1>4, OneJoins
  <1>6. /\ gatewayWriter' \in Connections \cup {None}
        /\ handler' \in [Connections -> {"none", "accepting", "waiting", "serving"}]
        /\ \A c \in Connections : c # x.who => handler'[c] = handler[c]
        /\ x.who \in Connections => handler'[x.who] = "waiting"
    BY <1>1, <1>4 DEF TypeOK
  <1>7. TasksInv'
    <2>1. \A c \in Connections : handler'[c] \in {"waiting", "serving"} <=> gatewayWriter' = c
      <3>1. CASE handler' = handler /\ gatewayWriter' = gatewayWriter
        BY <1>1, <3>1 DEF TasksInv
      <3>2. CASE /\ x.who \in Connections /\ handler[x.who] = "accepting" /\ gatewayWriter = None
                 /\ handler' = [handler EXCEPT ![x.who] = "waiting"] /\ gatewayWriter' = x.who
        <4>1. None \notin Connections
          BY ConnectorAssumption
        <4> QED
          BY <1>1, <1>6, <3>2, <4>1 DEF TasksInv
      <3> QED
        BY <3>1, <3>2
    <2>2. \A i \in DOMAIN waiters' :
            /\ waiters'[i].who \in Connections => handler'[waiters'[i].who] = "waiting"
            /\ waiters'[i].who \in Worlds => waiters'[i].size \in Sizes
      <3> SUFFICES ASSUME NEW i \in DOMAIN waiters'
                   PROVE  /\ waiters'[i].who \in Connections => handler'[waiters'[i].who] = "waiting"
                          /\ waiters'[i].who \in Worlds => waiters'[i].size \in Sizes
        OBVIOUS
      <3>1. CASE waiters'[i] = x
        BY <1>4, <1>6, <3>1
      <3>2. CASE \E j \in DOMAIN waiters : waiters'[i] = waiters[j]
        BY <1>1, <1>6, <3>2 DEF TasksInv
      <3> QED
        BY <1>5, <3>1, <3>2
    <2>3. holder' # None =>
            /\ \A i \in DOMAIN waiters' : waiters'[i].who # holder'.who
            /\ holder'.who \in Connections => holder'.to = holder'.who /\ handler'[holder'.who] = "waiting"
      BY <1>1, <1>2, <1>5, <1>6 DEF TasksInv
    <2> QED
      BY <1>1, <1>2, <1>5, <2>1, <2>2, <2>3 DEF TasksInv, Live
  <1>8. TypeOK'
    <2>1. gatewayWriter' # None => handler'[gatewayWriter'] # "none"
      BY <1>6, <1>7 DEF TasksInv
    <2> QED
      BY <1>1, <1>2, <1>3, <1>5, <1>6, <2>1 DEF TypeOK, Queue
  <1>9. StreamInv'
    <2>1. Known' = Known /\ Stream' = Stream /\ Writer' = Writer
      BY <1>2 DEF Known, Stream, Rest, Writer
    <2>2. Joined => /\ gateway.conn \in Connections /\ gateway.conn # x.who
                    /\ handler[gateway.conn] # "accepting"
                    /\ \A i \in DOMAIN waiters : waiters[i].who # gateway.conn
      <3> SUFFICES ASSUME Joined
                   PROVE  /\ gateway.conn \in Connections /\ gateway.conn # x.who
                          /\ handler[gateway.conn] # "accepting"
                          /\ \A i \in DOMAIN waiters : waiters[i].who # gateway.conn
        OBVIOUS
      <3>1. gateway.conn \in Connections
        BY <1>1 DEF Joined, TasksInv, Live
      <3>2. /\ handler[gateway.conn] # "accepting"
            /\ \A i \in DOMAIN waiters : waiters[i].who # gateway.conn
        BY <1>1 DEF StreamInv
      <3> QED
        BY <1>4, <3>1, <3>2
    <2>3. Joined => /\ handler'[gateway.conn] # "accepting"
                    /\ \A i \in DOMAIN waiters' : waiters'[i].who # gateway.conn
                    /\ gatewayWriter' = gateway.conn => gatewayWriter = gateway.conn
      BY <1>5, <1>6, <2>2
    <2> QED
      BY <1>1, <1>2, <1>3, <2>1, <2>3, StreamKept
  <1>10. AcksInv' /\ PastInv' /\ OnlyAbortedLost'
    BY <1>1, <1>2, AcksKept, PastKept, LostKept DEF past, store
  <1> QED
    BY <1>7, <1>8, <1>9, <1>10 DEF Inv

(* _publish either gets the lock at once or queues for it.                 *)
LEMMA PublishStep ==
  ASSUME Inv, NEW w \in Worlds, NEW size \in Sizes, Publish(w, size)
  PROVE  Inv'
  <1>1. /\ waiters \in Seq(Queue) /\ Distinct(waiters) /\ w \notin Busy
        /\ UNCHANGED <<up, open, gateway, past, aborted, used, phase>>
    BY DEF Inv, TypeOK, TasksInv, Publish, Queue
  <1>2. CASE Free
    <2>1. holder = None /\ waiters = <<>> /\ waiters' = <<>> /\ AppendFrame(w, size)
      BY <1>2 DEF Publish, Free
    <2>2. Leaves(waiters, waiters', w)
      BY <1>1, <2>1 DEF Leaves
    <2> QED
      BY <1>1, <2>1, <2>2, AppendStep
  <1>3. CASE ~Free
    <2> DEFINE x == [who |-> w, size |-> size]
    <2>1. /\ waiters' = Append(waiters, x)
          /\ UNCHANGED <<store, holder, handler, gatewayWriter, down, torn>>
      BY <1>3 DEF Publish
    <2>2. x \in Queue /\ x.who = w /\ x.size = size /\ w \notin Connections
      BY ConnectorAssumption DEF Queue
    <2>3. \A i \in DOMAIN waiters : waiters[i].who # w
      BY <1>1 DEF Busy
    <2> HIDE DEF x
    <2>5. holder # None => holder.who # w
      BY <1>1 DEF Busy
    <2> QED
      BY <1>1, <2>1, <2>2, <2>3, <2>5, JoinStep DEF wires, lock
  <1> QED
    BY <1>2, <1>3

-----------------------------------------------------------------------------
(* Attaching.                                                              *)

(* Everything the connector received is in the buffer, or was dropped and  *)
(* is named by a notice, or is known.                                      *)
LEMMA NothingForgotten ==
  ASSUME TypeOK, OnlyAbortedLost
  PROVE  \A d \in Ids : d \in buffer \/ d \in Known \/ \E i \in DOMAIN notices : d \in notices[i]
  <1> SUFFICES ASSUME NEW d \in Ids, d \notin buffer, d \notin Known
               PROVE  \E i \in DOMAIN notices : d \in notices[i]
    OBVIOUS
  <1>1. d \notin Lost
    <2>2. d \notin aborted
      BY DEF Known
    <2> QED
      BY <2>2 DEF OnlyAbortedLost
  <1>2. PICK n \in ToSet(notices) \cup handled.notices : d \in n
    BY <1>1 DEF Lost, Known
  <1>3. n \in ToSet(notices)
    BY <1>2 DEF Known
  <1> QED
    BY <1>2, <1>3 DEF ToSet

(* A handler that holds the lock attaches its connection and replays.      *)
LEMMA AttachStep ==
  ASSUME Inv, holder = None, NEW c \in Connections, Attach(c),
         \/ handler[c] = "accepting" /\ gatewayWriter = None
         \/ handler[c] = "waiting" /\ \E i \in DOMAIN waiters : waiters[i].who = c,
         Leaves(waiters, waiters', c),
         UNCHANGED <<up, open, gateway, past, aborted, used, phase>>
  PROVE  Inv'
  <1> DEFINE todo == <<Message("attached", {})>> \o Replay(buffer, notices)
             job == [who |-> c, to |-> c, todo |-> todo]
  <1>1. TypeOK /\ TasksInv /\ AcksInv /\ StreamInv /\ PastInv /\ OnlyAbortedLost
    BY DEF Inv
  <1>2. /\ up' = up /\ open' = open /\ gateway' = gateway /\ seen' = seen /\ handled' = handled
        /\ aborted' = aborted /\ used' = used /\ phase' = phase
        /\ log' = log /\ buffer' = buffer /\ notices' = notices
    BY DEF past, Attach, store
  <1>3. Ids' = Ids /\ Messages' = Messages
    BY <1>2, SameIds
  <1>4. Len(log) \in Nat /\ Ids = 1 .. Len(log)
    BY <1>1, LenProperties DEF TypeOK, Ids
  <1>5. \A n, who :
          /\ todo \in Seq(Messages) /\ Items(todo, "attaching") /\ Rising(todo) /\ Gapless(todo, Known)
          /\ who \in Connections \/ n = Len(todo) => Complete(todo, n, Known, Ids, who)
    <2> TAKE n, who
    <2>1. Ids \in SUBSET Nat /\ \A d \in Ids : 1 .. d - 1 \subseteq Ids
      BY <1>4
    <2>2. buffer \in SUBSET Ids /\ IsFiniteSet(buffer)
      <3>1. IsFiniteSet(Ids)
        BY <1>4, FS_Interval
      <3> QED
        BY <1>1, <3>1, FS_Subset DEF TypeOK
    <2>3. notices \in Seq(SUBSET Ids)
      <3>1. notices \in Seq((SUBSET Ids) \ {{}}) /\ (SUBSET Ids) \ {{}} \subseteq SUBSET Ids
        BY <1>1 DEF TypeOK
      <3> QED
        BY <3>1, SeqMonotonic
    <2>4. \A d \in Ids : d \in buffer \/ d \in Known \/ \E i \in DOMAIN notices : d \in notices[i]
      BY <1>1, NothingForgotten
    <2> HIDE DEF todo
    <2>5. LET s == <<Message("attached", {})>> \o Replay(buffer, notices)
          IN  /\ s \in Seq([type : MessageTypes, ids : SUBSET Ids])
              /\ Items(s, "attaching") /\ Rising(s) /\ Gapless(s, Known)
              /\ who \in Connections \/ n = Len(s) => Complete(s, n, Known, Ids, who)
      BY <2>1, <2>2, <2>3, <2>4, ReplayedStream
    <2> QED
      BY <2>5 DEF todo, Messages
  <1>6. Write(job)
    BY DEF Attach
  <1> HIDE DEF todo
  <1>7. job \in Jobs(Messages) /\ job.who = c /\ job.to = c /\ job.todo = todo
    BY <1>5 DEF Jobs
  <1> HIDE DEF job
  <1>8. down \in [Connections -> Seq(Messages)]
    BY <1>1 DEF TypeOK
  <1>9. \/ /\ c \in open /\ torn' = torn
           /\ down' \in [Connections -> Seq(Messages)]
           /\ \A d \in Connections : d # c => down'[d] = down[d]
           /\ Len(down[c]) <= Len(down'[c])
           /\ \/ /\ holder' = None
                 /\ down'[c] = down[c] \o todo
                 /\ TaskIs(job, "serving")
              \/ /\ holder' \in Jobs(Messages) /\ holder'.who = c /\ holder'.to = c
                 /\ down'[c] \o holder'.todo = down[c] \o todo
                 /\ TaskIs(job, "waiting")
        \/ /\ c \notin open /\ torn' = torn \cup ({c} \cap Worlds)
           /\ holder' = None /\ down' = down
           /\ TaskIs(job, "none")
    BY <1>6, <1>7, <1>8, WriteEffect
  <1>10. \A state : TaskIs(job, state) =>
           /\ handler' = [handler EXCEPT ![c] = state]
           /\ gatewayWriter' = IF state = "none" THEN None ELSE c
    BY <1>7 DEF TaskIs
  <1>11. PICK state \in {"serving", "waiting", "none"} :
           /\ handler' = [handler EXCEPT ![c] = state]
           /\ gatewayWriter' = IF state = "none" THEN None ELSE c
           /\ \/ /\ state = "serving" /\ holder' = None
                 /\ down'[c] = down[c] \o todo
              \/ /\ state = "waiting" /\ holder' \in Jobs(Messages) /\ holder'.who = c /\ holder'.to = c
                 /\ down'[c] \o holder'.todo = down[c] \o todo
              \/ state = "none" /\ holder' = None
           /\ state = "none" <=> c \notin open
    BY <1>9, <1>10
  <1>12. /\ down' \in [Connections -> Seq(Messages)] /\ torn' = torn
         /\ \A d \in Connections : d # c => down'[d] = down[d]
         /\ c \notin open => down' = down
    BY <1>8, <1>9, ConnectorAssumption
  <1>13. handler \in [Connections -> {"none", "accepting", "waiting", "serving"}]
    BY <1>1 DEF TypeOK
  <1>14. /\ handler' \in [Connections -> {"none", "accepting", "waiting", "serving"}]
         /\ handler'[c] = state /\ \A d \in Connections : d # c => handler'[d] = handler[d]
         /\ gatewayWriter' \in Connections \cup {None} /\ None \notin Connections
    BY <1>11, <1>13, ConnectorAssumption
  <1>15. TasksInv'
    <2>1. \A d \in Connections : handler'[d] \in {"waiting", "serving"} <=> gatewayWriter' = d
      <3>1. gatewayWriter \in {None, c}
        BY <1>1 DEF TasksInv
      <3> QED
        BY <1>1, <1>11, <1>14, <3>1 DEF TasksInv
    <2>2. /\ \A i \in DOMAIN waiters' :
               /\ waiters'[i].who \in Connections => handler'[waiters'[i].who] = "waiting"
               /\ waiters'[i].who \in Worlds => waiters'[i].size \in Sizes
          /\ Distinct(waiters') /\ \A i \in DOMAIN waiters' : waiters'[i].who # c
      BY <1>1, <1>14, QueueShrinks DEF TasksInv
    <2>3. holder' # None =>
            /\ \A i \in DOMAIN waiters' : waiters'[i].who # holder'.who
            /\ holder'.who \in Connections => holder'.to = holder'.who /\ handler'[holder'.who] = "waiting"
      BY <1>11, <1>14, <2>2
    <2> QED
      BY <1>1, <1>2, <2>1, <2>2, <2>3 DEF TasksInv, Live
  <1>16. TypeOK'
    <2>1. gatewayWriter' # None => handler'[gatewayWriter'] # "none"
      BY <1>14, <1>15 DEF TasksInv
    <2>2. holder' \in [who : Worlds \cup Connections, to : Connections, todo : Seq(Messages)] \cup {None}
      BY <1>11 DEF Jobs
    <2>3. waiters' \in Seq([who : Worlds \cup Connections, size : Nat])
      BY DEF Leaves, Queue
    <2> QED
      BY <1>1, <1>2, <1>3, <1>12, <1>14, <2>1, <2>2, <2>3 DEF TypeOK
  <1>17. StreamInv'
    <2>1. /\ Known' = Known
          /\ \A i \in DOMAIN waiters' : waiters'[i].who # c /\ \E j \in DOMAIN waiters : waiters'[i] = waiters[j]
      BY <1>2 DEF Known, Leaves
    <2>2. CASE c = gateway.conn /\ c \in open
      <3>1. ~Joined
        BY <1>1, <2>2 DEF StreamInv
      <3>2. Rest' = IF holder' = None THEN <<>> ELSE holder'.todo
        BY <1>2, <1>11, <2>2 DEF Rest
      <3>3. down[c] \in Seq(Messages) /\ down'[c] \in Seq(Messages) /\ todo \in Seq(Messages)
        BY <1>5, <1>8, <1>12
      <3>4. Stream' = down[c] \o todo
        <4>1. down'[c] \o <<>> = down'[c]
          BY <3>3, ConcatEmptySeq
        <4>2. holder' = None => state # "waiting"
          <5>1. Ids \in SUBSET Nat
            BY <1>4
          <5>2. None \notin Jobs(Messages)
            BY <5>1, NoneIsNothing DEF Messages
          <5> QED
            BY <1>11, <2>2, <5>2
        <4> QED
          BY <1>2, <1>11, <2>2, <3>2, <4>1, <4>2 DEF Stream
      <3>5. Stream = down[c]
        BY <2>2, <3>3, ConcatEmptySeq DEF Stream, Rest
      <3> SUFFICES ASSUME Joined'
                   PROVE  /\ Items(Stream', gateway.state) /\ Rising(Stream') /\ After(Stream', seen)
                          /\ Gapless(Stream', Known)
                          /\ Complete(Stream', Len(down'[c]), Known, Ids, Writer')
                          /\ handler'[c] # "accepting"
                          /\ \A i \in DOMAIN waiters' : waiters'[i].who # c
        BY <1>2, <1>3, <2>1, <2>2 DEF StreamInv
      <3>6. gateway.state = "attaching" /\ (down[c] \o todo)[1].type = "attached"
        BY <1>2, <3>1, <3>4 DEF Joined
      <3>7. down[c] = <<>>
        <4> SUFFICES ASSUME down[c] # <<>> PROVE FALSE
          OBVIOUS
        <4>1. Len(down[c]) \in Nat /\ Len(down[c]) > 0 /\ Len(todo) \in Nat
          BY <3>3, LenProperties, EmptySeq
        <4> DEFINE u == down[c]
        <4>2. u \in Seq(Messages) /\ Len(u) \in Nat /\ Len(u) > 0
          BY <3>3, <4>1
        <4> HIDE DEF u
        <4>3. \A i \in 1 .. Len(u) + Len(todo) :
                (u \o todo)[i] = IF i <= Len(u) THEN u[i] ELSE todo[i - Len(u)]
          BY <3>3, <4>2, ConcatProperties
        <4>4. (u \o todo)[1] = u[1]
          BY <4>1, <4>2, <4>3
        <4> QED
          BY <3>1, <3>5, <3>6, <4>4 DEF Joined, u
      <3>8. Stream' = todo
        BY <3>3, <3>4, <3>7, ConcatEmptySeq
      <3>9. After(todo, seen)
        BY <1>1, <3>6 DEF TasksInv, After
      <3>10. Complete(todo, Len(down'[c]), Known, Ids, Writer')
        <4>1. CASE holder' = None
          <5>1. down'[c] = todo
            <6>1. Rest' = <<>>
              BY <3>2, <4>1
            <6>2. down'[c] \o <<>> = down'[c]
              BY <3>3, ConcatEmptySeq
            <6> QED
              BY <1>2, <2>2, <3>8, <6>1, <6>2 DEF Stream
          <5> QED
            BY <1>5, <5>1
        <4>2. CASE holder' # None
          <5>1. Writer' \in Connections
            BY <1>11, <4>2 DEF Writer
          <5> QED
            BY <1>5, <5>1
        <4> QED
          BY <4>1, <4>2
      <3>11. handler'[c] # "accepting"
        BY <1>14
      <3> QED
        BY <1>5, <2>1, <3>6, <3>8, <3>9, <3>10, <3>11
    <2>3. CASE ~(c = gateway.conn /\ c \in open)
      <3> SUFFICES ASSUME gateway.conn \in Connections PROVE StreamInv'
        BY <1>1, <1>2 DEF TasksInv, StreamInv, Joined, Live
      <3>0. gateway.conn \in Connections
        OBVIOUS
      <3>1. Joined => c # gateway.conn /\ gateway.conn \in Connections
        BY <1>1, <2>3 DEF TasksInv, Joined, Live
      <3>2. gateway.conn # c => Stream' = Stream
        <4> SUFFICES ASSUME gateway.conn # c PROVE Stream' = Stream
          OBVIOUS
        <4>1. Rest' = <<>> /\ Rest = <<>>
          BY <1>2, <1>11 DEF Rest
        <4>2. down'[gateway.conn] = down[gateway.conn]
          BY <1>12, <3>0
        <4> QED
          BY <1>2, <4>1, <4>2 DEF Stream
      <3>3. gateway.conn = c => Stream' = Stream
        <4> SUFFICES ASSUME gateway.conn = c PROVE Stream' = Stream
          OBVIOUS
        <4>1. down' = down /\ holder' = None
          BY <1>11, <1>12, <2>3
        <4> QED
          BY <1>2, <4>1 DEF Stream, Rest
      <3>4. Joined => /\ handler'[gateway.conn] # "accepting"
                      /\ \A i \in DOMAIN waiters' : waiters'[i].who # gateway.conn
                      /\ gatewayWriter' # gateway.conn
        BY <1>1, <1>11, <1>14, <2>1, <3>1 DEF StreamInv
      <3> QED
        BY <1>1, <1>2, <2>1, <3>2, <3>3, <3>4, StreamKept
    <2> QED
      BY <2>2, <2>3
  <1>18. AcksInv' /\ PastInv' /\ OnlyAbortedLost'
    BY <1>1, <1>2, AcksKept, PastKept, LostKept DEF past, store
  <1> QED
    BY <1>15, <1>16, <1>17, <1>18 DEF Inv

(* The lock passes to the first of the queue.                              *)
LEMMA AcquireStep ==
  ASSUME Inv, Acquire PROVE Inv'
  <1> DEFINE x == Head(waiters)
  <1>1. /\ waiters \in Seq(Queue) /\ Distinct(waiters) /\ waiters # <<>>
        /\ holder = None /\ waiters' = Tail(waiters)
        /\ UNCHANGED <<up, open, gateway, past, aborted, used, phase>>
    BY DEF Inv, TypeOK, TasksInv, Acquire, Queue
  <1>2. /\ Leaves(waiters, waiters', x.who)
        /\ x = waiters[1] /\ 1 \in DOMAIN waiters /\ x \in Queue
    BY <1>1, FirstLeaves
  <1>3. CASE x.who \in Worlds
    <2>1. AppendFrame(x.who, x.size) /\ x.size \in Sizes
      BY <1>2, <1>3 DEF Acquire, Inv, TasksInv
    <2> QED
      BY <1>1, <1>2, <1>3, <2>1, AppendStep
  <1>4. CASE x.who \notin Worlds
    <2>1. Attach(x.who) /\ x.who \in Connections
      BY <1>2, <1>4 DEF Acquire, Queue
    <2>2. handler[x.who] = "waiting" /\ \E i \in DOMAIN waiters : waiters[i].who = x.who
      BY <1>2, <2>1 DEF Inv, TasksInv
    <2> QED
      BY <1>1, <1>2, <2>1, <2>2, AttachStep
  <1> QED
    BY <1>3, <1>4

(* A handler refuses a second Gateway, attaches or queues.                 *)
LEMMA AcceptStep ==
  ASSUME Inv, NEW c \in Connections, Accept(c) PROVE Inv'
  <1>1. TypeOK /\ TasksInv /\ AcksInv /\ StreamInv /\ PastInv /\ OnlyAbortedLost
    BY DEF Inv
  <1>2. /\ handler[c] = "accepting"
        /\ UNCHANGED <<up, open, gateway, past, aborted, used, phase>>
    BY DEF Accept
  <1>3. /\ waiters \in Seq(Queue) /\ Distinct(waiters)
        /\ \A i \in DOMAIN waiters : waiters[i].who # c
        /\ holder # None => holder.who # c
    BY <1>1, <1>2 DEF TypeOK, TasksInv, Queue
  <1>4. CASE gatewayWriter = None /\ Free
    <2>1. Attach(c) /\ waiters' = waiters /\ holder = None
      BY <1>4 DEF Accept, Free
    <2>2. Leaves(waiters, waiters', c)
      BY <1>3, <2>1 DEF Leaves
    <2> QED
      BY <1>2, <1>4, <2>1, <2>2, AttachStep
  <1>5. CASE gatewayWriter = None /\ ~Free
    <2> DEFINE x == [who |-> c, size |-> 0]
    <2>1. /\ gatewayWriter' = c /\ waiters' = Append(waiters, x)
          /\ handler' = [handler EXCEPT ![c] = "waiting"]
          /\ UNCHANGED <<store, holder, down, torn>>
      BY <1>5 DEF Accept
    <2>2. x \in Queue /\ x.who = c
      BY DEF Queue
    <2> HIDE DEF x
    <2> QED
      BY <1>2, <1>3, <1>5, <2>1, <2>2, JoinStep DEF wires
  <1>6. CASE gatewayWriter # None
    <2>1. /\ down' = [down EXCEPT ![c] = IF c \in open THEN <<Message("rejected", {})>> ELSE @]
          /\ handler' = [handler EXCEPT ![c] = "none"]
          /\ UNCHANGED <<store, gatewayWriter, lock, torn>>
      BY <1>6 DEF Accept
    <2>2. /\ up' = up /\ open' = open /\ gateway' = gateway /\ seen' = seen /\ handled' = handled
          /\ aborted' = aborted /\ used' = used /\ phase' = phase
          /\ log' = log /\ buffer' = buffer /\ notices' = notices
          /\ holder' = holder /\ waiters' = waiters /\ gatewayWriter' = gatewayWriter /\ torn' = torn
      BY <1>2, <2>1 DEF past, store, lock
    <2>3. Ids' = Ids /\ Messages' = Messages
      BY <2>2, SameIds
    <2>4. /\ handler' \in [Connections -> {"none", "accepting", "waiting", "serving"}]
          /\ handler'[c] = "none" /\ \A d \in Connections : d # c => handler'[d] = handler[d]
      BY <1>1, <2>1 DEF TypeOK
    <2>5. /\ down' \in [Connections -> Seq(Messages)]
          /\ \A d \in Connections : d # c => down'[d] = down[d]
          /\ c \in open => down'[c] = <<Message("rejected", {})>>
          /\ c \notin open => down' = down
      <3>1. Message("rejected", {}) \in Messages /\ down \in [Connections -> Seq(Messages)]
        BY <1>1 DEF Message, Messages, MessageTypes, TypeOK
      <3>2. <<Message("rejected", {})>> \in Seq(Messages)
        BY <3>1
      <3> QED
        BY <2>1, <3>1, <3>2
    <2>6. TasksInv'
      <3>1. \A d \in Connections : handler'[d] \in {"waiting", "serving"} <=> gatewayWriter' = d
        BY <1>1, <1>2, <2>2, <2>4 DEF TasksInv
      <3> QED
        BY <1>1, <1>3, <2>2, <2>4, <3>1 DEF TasksInv, Live
    <2>7. TypeOK'
      <3>1. gatewayWriter' # None => handler'[gatewayWriter'] # "none"
        BY <1>1, <2>2, <2>4, <2>6 DEF TasksInv, TypeOK
      <3> QED
        BY <1>1, <2>2, <2>3, <2>4, <2>5, <3>1 DEF TypeOK
    <2>8. StreamInv'
      <3>1. CASE gateway.conn \notin Connections
        BY <1>1, <2>2, <3>1 DEF TasksInv, StreamInv, Joined, Live
      <3>2. CASE gateway.conn = c /\ c \in open
        <4>1. ~Joined
          BY <1>1, <1>2, <3>2 DEF StreamInv
        <4>2. Stream' = <<Message("rejected", {})>> \o Rest
          BY <2>2, <2>5, <3>2 DEF Stream, Rest
        <4>3. Rest \in Seq(Messages)
          BY <1>1 DEF Rest, TypeOK
        <4>4. Message("rejected", {}) \in Messages
          BY DEF Message, Messages, MessageTypes
        <4> DEFINE r == <<Message("rejected", {})>>
        <4>5. r \in Seq(Messages) /\ Len(r) = 1 /\ r[1].type = "rejected"
          BY <4>4 DEF Message
        <4> HIDE DEF r
        <4>6. \A i \in 1 .. Len(r) + Len(Rest) : (r \o Rest)[i] = IF i <= Len(r) THEN r[i] ELSE Rest[i - Len(r)]
          BY <4>3, <4>5, ConcatProperties
        <4>7. Len(Rest) \in Nat
          BY <4>3, LenProperties
        <4>8. (r \o Rest)[1].type = "rejected"
          BY <4>5, <4>6, <4>7
        <4>9. ~Joined'
          BY <2>2, <4>1, <4>2, <4>8 DEF Joined, r
        <4> QED
          BY <4>9 DEF StreamInv
      <3>3. CASE gateway.conn \in Connections /\ ~(gateway.conn = c /\ c \in open)
        <4>1. Stream' = Stream /\ Known' = Known /\ Writer' = Writer
          BY <2>2, <2>5, <3>3 DEF Stream, Rest, Known, Writer
        <4>2. down'[gateway.conn] = down[gateway.conn]
          BY <2>5, <3>3
        <4>3. Joined => handler'[gateway.conn] # "accepting"
          BY <1>1, <2>4, <3>3 DEF StreamInv
        <4> QED
          BY <1>1, <2>2, <2>3, <4>1, <4>2, <4>3, StreamKept DEF StreamInv
      <3> QED
        BY <3>1, <3>2, <3>3
    <2>9. AcksInv' /\ PastInv' /\ OnlyAbortedLost'
      BY <1>1, <2>2, AcksKept, PastKept, LostKept DEF past, store
    <2> QED
      BY <2>6, <2>7, <2>8, <2>9 DEF Inv
  <1> QED
    BY <1>4, <1>5, <1>6

(* A writer goes on: the stream stays what it was.                         *)
LEMMA DrainedStep ==
  ASSUME Inv, Drained PROVE Inv'
  <1>1. TypeOK /\ TasksInv /\ AcksInv /\ StreamInv /\ PastInv /\ OnlyAbortedLost
    BY DEF Inv
  <1>2. /\ up' = up /\ open' = open /\ gateway' = gateway /\ seen' = seen /\ handled' = handled
        /\ aborted' = aborted /\ used' = used /\ phase' = phase
        /\ log' = log /\ buffer' = buffer /\ notices' = notices /\ waiters' = waiters
    BY DEF Drained, store, past
  <1>3. Ids' = Ids /\ Messages' = Messages
    BY <1>2, SameIds
  <1>4. /\ holder # None /\ holder \in Jobs(Messages)
        /\ down \in [Connections -> Seq(Messages)]
        /\ handler \in [Connections -> {"none", "accepting", "waiting", "serving"}]
        /\ gatewayWriter \in Connections \cup {None} /\ torn \subseteq Worlds /\ open \subseteq Connections
        /\ None \notin Connections
    BY <1>1, ConnectorAssumption DEF Drained, TypeOK, Jobs
  <1>5. /\ holder.to \in Connections /\ down[holder.to] \in Seq(Messages) /\ holder.todo \in Seq(Messages)
    BY <1>4 DEF Jobs
  <1> DEFINE Effect(state) ==
          /\ TaskIs(holder, state) /\ torn' \subseteq Worlds
          /\ down' \in [Connections -> Seq(Messages)]
          /\ \A c \in Connections : c # holder.to => down'[c] = down[c]
          /\ Len(down[holder.to]) <= Len(down'[holder.to])
          /\ \/ /\ holder.to \in open /\ state = "serving" /\ holder' = None
                /\ down'[holder.to] = down[holder.to] \o holder.todo
             \/ /\ holder.to \in open /\ state = "waiting"
                /\ holder' \in Jobs(Messages) /\ holder'.who = holder.who /\ holder'.to = holder.to
                /\ down'[holder.to] \o holder'.todo = down[holder.to] \o holder.todo
             \/ /\ holder.to \notin open /\ state = "none" /\ holder' = None /\ down' = down
  <1>6. \E state \in {"serving", "waiting", "none"} : Effect(state)
    <2>0. Len(down[holder.to]) \in Nat
      BY <1>5, LenProperties
    <2>1. CASE holder.to \in open /\ holder.todo = <<>>
      <3>1. holder' = None /\ TaskIs(holder, "serving") /\ down' = down /\ torn' = torn
        BY <2>1 DEF Drained, Done
      <3>2. down[holder.to] \o holder.todo = down[holder.to]
        BY <1>5, <2>1, ConcatEmptySeq
      <3>3. Effect("serving")
        BY <1>4, <2>0, <2>1, <3>1, <3>2
      <3> QED
        BY <3>3
    <2>2. CASE ~(holder.to \in open /\ holder.todo = <<>>)
      <3>1. Write(holder)
        BY <2>2 DEF Drained
      <3>2. \/ /\ holder.to \in open /\ torn' = torn
               /\ down' \in [Connections -> Seq(Messages)]
               /\ \A c \in Connections : c # holder.to => down'[c] = down[c]
               /\ Len(down[holder.to]) <= Len(down'[holder.to])
               /\ \/ /\ holder' = None
                     /\ down'[holder.to] = down[holder.to] \o holder.todo
                     /\ TaskIs(holder, "serving")
                  \/ /\ holder' \in Jobs(Messages) /\ holder'.who = holder.who /\ holder'.to = holder.to
                     /\ down'[holder.to] \o holder'.todo = down[holder.to] \o holder.todo
                     /\ TaskIs(holder, "waiting")
            \/ /\ holder.to \notin open /\ torn' = torn \cup ({holder.who} \cap Worlds)
               /\ holder' = None /\ down' = down
               /\ TaskIs(holder, "none")
        BY <1>4, <3>1, WriteEffect
      <3>3. CASE holder.to \in open /\ holder' = None /\ TaskIs(holder, "serving")
                 /\ down'[holder.to] = down[holder.to] \o holder.todo
        <4>1. Effect("serving")
          BY <1>4, <2>0, <3>2, <3>3
        <4> QED
          BY <4>1
      <3>4. CASE /\ holder.to \in open /\ TaskIs(holder, "waiting")
                 /\ holder' \in Jobs(Messages) /\ holder'.who = holder.who /\ holder'.to = holder.to
                 /\ down'[holder.to] \o holder'.todo = down[holder.to] \o holder.todo
        <4>1. Effect("waiting")
          BY <1>4, <2>0, <3>2, <3>4
        <4> QED
          BY <4>1
      <3>5. CASE /\ holder.to \notin open /\ torn' = torn \cup ({holder.who} \cap Worlds)
                 /\ holder' = None /\ down' = down /\ TaskIs(holder, "none")
        <4>1. Effect("none")
          BY <1>4, <2>0, <3>5
        <4> QED
          BY <4>1
      <3> QED
        BY <3>2, <3>3, <3>4, <3>5
    <2> QED
      BY <2>1, <2>2
  <1>7. PICK state \in {"serving", "waiting", "none"} : Effect(state)
    BY <1>6
  <1>8. /\ holder.who \in Connections => /\ holder.to = holder.who /\ handler[holder.who] = "waiting"
                                         /\ gatewayWriter = holder.who
                                         /\ handler' = [handler EXCEPT ![holder.who] = state]
                                         /\ gatewayWriter' = IF state = "none" THEN None ELSE holder.who
        /\ holder.who \notin Connections => handler' = handler /\ gatewayWriter' = gatewayWriter
    BY <1>1, <1>4, <1>7 DEF TasksInv, TaskIs
  <1>9. /\ handler' \in [Connections -> {"none", "accepting", "waiting", "serving"}]
        /\ \A c \in Connections : c # holder.who => handler'[c] = handler[c]
        /\ holder.who \in Connections => handler'[holder.who] = state
        /\ gatewayWriter' \in Connections \cup {None}
        /\ \A c \in Connections : gatewayWriter' = c => gatewayWriter = c
    BY <1>4, <1>7, <1>8, ZenonT(60)
  <1>10. TasksInv'
    <2>1. \A c \in Connections : handler'[c] \in {"waiting", "serving"} <=> gatewayWriter' = c
      <3>1. CASE holder.who \in Connections
        BY <1>1, <1>4, <1>8, <1>9, <3>1 DEF TasksInv
      <3>2. CASE holder.who \notin Connections
        BY <1>1, <1>8, <3>2 DEF TasksInv
      <3> QED
        BY <3>1, <3>2
    <2>2. \A i \in DOMAIN waiters : waiters[i].who # holder.who
      BY <1>1, <1>4 DEF TasksInv
    <2>3. holder' # None => holder'.who = holder.who /\ holder'.to = holder.to /\ state = "waiting"
      BY <1>7
    <2>4. holder' # None =>
            /\ \A i \in DOMAIN waiters' : waiters'[i].who # holder'.who
            /\ holder'.who \in Connections => holder'.to = holder'.who /\ handler'[holder'.who] = "waiting"
      BY <1>2, <1>8, <1>9, <2>2, <2>3
    <2> QED
      BY <1>1, <1>2, <1>9, <2>1, <2>2, <2>4 DEF TasksInv, Live
  <1>11. TypeOK'
    <2>1. gatewayWriter' # None => handler'[gatewayWriter'] # "none"
      BY <1>9, <1>10 DEF TasksInv
    <2>2. holder' \in [who : Worlds \cup Connections, to : Connections, todo : Seq(Messages)] \cup {None}
      BY <1>7 DEF Jobs
    <2> QED
      BY <1>1, <1>2, <1>3, <1>7, <1>9, <2>1, <2>2 DEF TypeOK
  <1>12. StreamInv'
    <2>1. Known' = Known
      BY <1>2 DEF Known
    <2>2. CASE gateway.conn = holder.to /\ holder.to \in open
      <3>1. Stream = down[holder.to] \o holder.todo
        BY <1>4, <2>2 DEF Stream, Rest
      <3>2. Ids \in SUBSET Nat
        BY DEF Ids
      <3>3. None \notin Jobs(Messages)
        BY <3>2, NoneIsNothing DEF Messages
      <3>4. Stream' = down[holder.to] \o holder.todo
        <4>1. CASE holder' = None
          <5>1. Rest' = <<>> /\ down'[holder.to] = down[holder.to] \o holder.todo
            BY <1>7, <2>2, <3>3, <4>1 DEF Rest
          <5>2. down'[holder.to] \o <<>> = down'[holder.to]
            BY <1>5, <1>7, ConcatEmptySeq
          <5> QED
            BY <1>2, <2>2, <5>1, <5>2 DEF Stream
        <4>2. CASE holder' # None
          BY <1>2, <1>7, <2>2, <4>2 DEF Stream, Rest
        <4> QED
          BY <4>1, <4>2
      <3>5. Len(down[holder.to]) \in Nat /\ Len(down'[holder.to]) \in Nat
        BY <1>5, <1>7, LenProperties
      <3>6. Complete(Stream, Len(down[gateway.conn]), Known, Ids, Writer) =>
              Complete(Stream, Len(down'[gateway.conn]), Known, Ids, Writer')
        <4>1. CASE holder' = None
          <5>1. down'[gateway.conn] = Stream /\ Stream \in Seq(Messages)
            BY <1>5, <1>7, <2>2, <3>1, <3>3, <4>1
          <5>2. \A j \in DOMAIN Stream : j <= Len(Stream)
            BY <5>1, LenProperties
          <5> QED
            BY <5>1, <5>2 DEF Complete
        <4>2. CASE holder' # None
          <5>1. Writer' = Writer
            BY <1>4, <1>7, <4>2 DEF Writer
          <5>2. Stream \in Seq(Messages)
            BY <1>5, <3>1, ConcatProperties
          <5>3. DOMAIN Stream \subseteq Nat
            BY <5>2, LenProperties
          <5>4. \A j \in DOMAIN Stream : j <= Len(down[gateway.conn]) => j <= Len(down'[gateway.conn])
            <6>1. Len(down[holder.to]) <= Len(down'[holder.to])
              BY <1>7, <2>2
            <6>2. \A j \in Nat : j <= Len(down[holder.to]) => j <= Len(down'[holder.to])
              BY <3>5, <6>1
            <6> QED
              BY <2>2, <5>3, <6>2
          <5> QED
            BY <5>1, <5>4 DEF Complete
        <4> QED
          BY <4>1, <4>2
      <3>7. Joined => /\ handler'[gateway.conn] # "accepting"
                      /\ \A i \in DOMAIN waiters' : waiters'[i].who # gateway.conn
        BY <1>1, <1>2, <1>5, <1>7, <1>9, <2>2 DEF StreamInv
      <3>8. gatewayWriter' = gateway.conn => gatewayWriter = gateway.conn
        BY <1>5, <1>9, <2>2
      <3> QED
        BY <1>1, <1>2, <1>3, <2>1, <3>1, <3>4, <3>6, <3>7, <3>8, StreamKept
    <2>3. CASE ~(gateway.conn = holder.to /\ holder.to \in open)
      <3> SUFFICES ASSUME gateway.conn \in Connections, open = {gateway.conn} PROVE StreamInv'
        BY <1>1, <1>2 DEF TasksInv, StreamInv, Joined, Live
      <3>1. holder.to # gateway.conn
        BY <2>3
      <3>2. Rest = <<>> /\ Rest' = <<>>
        BY <1>2, <1>7, <3>1 DEF Rest
      <3>3. down'[gateway.conn] = down[gateway.conn]
        BY <1>7, <3>1
      <3>4. Stream' = Stream /\ Stream = down[gateway.conn] \o <<>>
        BY <1>2, <3>2, <3>3 DEF Stream
      <3>5. down[gateway.conn] \in Seq(Messages)
        BY <1>4
      <3>6. Stream = down[gateway.conn]
        BY <3>4, <3>5, ConcatEmptySeq
      <3>7. \A j \in DOMAIN Stream : j <= Len(down'[gateway.conn])
        BY <3>3, <3>5, <3>6, LenProperties
      <3>8. Complete(Stream, Len(down[gateway.conn]), Known, Ids, Writer) =>
              Complete(Stream, Len(down'[gateway.conn]), Known, Ids, Writer')
        BY <3>7 DEF Complete
      <3>9. Joined => /\ handler'[gateway.conn] # "accepting"
                      /\ \A i \in DOMAIN waiters' : waiters'[i].who # gateway.conn
        BY <1>1, <1>2, <1>8, <1>9, <3>1 DEF StreamInv
      <3>10. gatewayWriter' = gateway.conn => gatewayWriter = gateway.conn
        BY <1>9
      <3> QED
        BY <1>1, <1>2, <1>3, <2>1, <3>4, <3>8, <3>9, <3>10, StreamKept
    <2> QED
      BY <2>2, <2>3
  <1>13. AcksInv' /\ PastInv' /\ OnlyAbortedLost'
    BY <1>1, <1>2, AcksKept, PastKept, LostKept DEF past, store
  <1> QED
    BY <1>10, <1>11, <1>12, <1>13 DEF Inv

-----------------------------------------------------------------------------
(* Cancelled publishers, acknowledgements and the end of a task.           *)

LEMMA AbortStep ==
  ASSUME Inv, NEW w \in Worlds, Abort(w) PROVE Inv'
  <1>1. TypeOK /\ TasksInv /\ AcksInv /\ StreamInv /\ PastInv /\ OnlyAbortedLost
    BY DEF Inv
  <1>2. /\ up' = up /\ down' = down /\ open' = open /\ gateway' = gateway /\ seen' = seen
        /\ handled' = handled /\ torn' = torn /\ phase' = phase
        /\ log' = log /\ buffer' = buffer /\ notices' = notices
        /\ handler' = handler /\ gatewayWriter' = gatewayWriter
        /\ used.aborts < MaxAborts /\ used' = [used EXCEPT !.aborts = @ + 1]
    BY DEF Abort, store, past, wires
  <1>3. Ids' = Ids /\ Messages' = Messages
    BY <1>2, SameIds
  <1>4. w \notin Connections /\ None \notin Connections
    BY ConnectorAssumption
  <1>5. used' \in [crashes : 0 .. MaxCrashes, aborts : 0 .. MaxAborts]
    <2>1. /\ used \in [crashes : 0 .. MaxCrashes, aborts : 0 .. MaxAborts]
          /\ used.aborts < MaxAborts /\ MaxAborts \in Nat
      BY <1>1, <1>2, ConnectorAssumption DEF TypeOK
    <2>2. used.aborts + 1 \in 0 .. MaxAborts
      BY <2>1
    <2> QED
      BY <1>2, <2>1, <2>2
  <1>6. CASE holder # None /\ holder.who = w
    <2> DEFINE t == holder.todo
               cut == UNION {m.ids : m \in {n \in ToSet(t) : n.type = "frame"}}
    <2>1. holder' = None /\ aborted' = aborted \cup cut /\ waiters' = waiters
      BY <1>6 DEF Abort
    <2>2. t \in Seq(Messages) /\ holder.to \in Connections
      BY <1>1, <1>6 DEF TypeOK
    <2>3. \A i \in DOMAIN t : t[i] \in Messages
      BY <2>2, LenProperties, ElementOfSeq
    <2>4. \A i \in DOMAIN t : t[i].type = "frame" => t[i].ids \subseteq cut
      BY DEF ToSet
    <2>5. cut \subseteq Ids
      BY <2>3 DEF ToSet, Messages
    <2> HIDE DEF cut
    <2>6. aborted \subseteq aborted' /\ aborted' \subseteq Ids
      BY <1>1, <2>1, <2>5 DEF TypeOK
    <2>7. Known \subseteq Known' /\ aborted' \subseteq Known'
      BY <1>2, <2>6, KnownGrows DEF Known
    <2>8. TasksInv'
      BY <1>1, <1>2, <2>1 DEF TasksInv, Live
    <2>9. TypeOK'
      BY <1>1, <1>2, <1>3, <1>5, <2>1, <2>6 DEF TypeOK
    <2>10. StreamInv'
      <3> DEFINE s == down[gateway.conn]
      <3> SUFFICES ASSUME gateway.conn \in Connections PROVE StreamInv'
        BY <1>1, <1>2 DEF TasksInv, StreamInv, Joined, Live
      <3>1. s \in Seq(Messages)
        BY <1>1 DEF TypeOK
      <3>2. Stream' = s
        BY <1>2, <2>1, <3>1, ConcatEmptySeq DEF Stream, Rest
      <3>3. PICK r \in Seq(Messages) :
              /\ Stream = s \o r
              /\ \A i \in DOMAIN r : r[i].type = "frame" => r[i].ids \subseteq Known'
        <4>1. CASE holder.to = gateway.conn
          <5>1. Stream = s \o t
            BY <1>6, <4>1 DEF Stream, Rest
          <5>2. \A i \in DOMAIN t : t[i].type = "frame" => t[i].ids \subseteq Known'
            BY <2>1, <2>4, <2>7
          <5> QED
            BY <2>2, <5>1, <5>2
        <4>2. CASE holder.to # gateway.conn
          <5>1. Stream = s \o <<>>
            BY <4>2 DEF Stream, Rest
          <5>2. <<>> \in Seq(Messages) /\ Len(<<>>) = 0
            BY EmptySeq
          <5>3. DOMAIN <<>> = 1 .. 0
            BY <5>2, LenProperties
          <5> DEFINE e == <<>>
          <5>4. e \in Seq(Messages) /\ DOMAIN e = {} /\ Stream = s \o e
            BY <5>1, <5>2, <5>3
          <5> HIDE DEF e, s
          <5> QED
            BY <5>4
        <4> QED
          BY <4>1, <4>2
      <3>4. Joined' => Joined
        <4> SUFFICES ASSUME Joined' PROVE Joined
          OBVIOUS
        <4>1. CASE gateway.state = "attached"
          BY <4>1 DEF Joined
        <4>2. CASE gateway.state # "attached"
          <5>1. gateway.state = "attaching" /\ s # <<>> /\ s[1].type = "attached"
            BY <1>2, <3>2, <4>2 DEF Joined
          <5>2. Len(s) \in Nat /\ Len(s) > 0 /\ Len(r) \in Nat
            BY <3>1, <5>1, LenProperties, EmptySeq
          <5> HIDE DEF s
          <5>3. \A i \in 1 .. Len(s) + Len(r) : (s \o r)[i] = IF i <= Len(s) THEN s[i] ELSE r[i - Len(s)]
            BY <3>1, ConcatProperties
          <5>4. (s \o r)[1] = s[1]
            BY <5>2, <5>3
          <5>5. Len(s \o r) = Len(s) + Len(r)
            BY <3>1, ConcatProperties
          <5>6. s \o r # <<>>
            BY <5>2, <5>5, EmptySeq
          <5> QED
            BY <3>3, <5>1, <5>4, <5>6 DEF Joined
        <4> QED
          BY <4>1, <4>2
      <3> SUFFICES ASSUME Joined
                   PROVE  /\ Items(s, gateway.state) /\ Rising(s) /\ After(s, seen)
                          /\ Gapless(s, Known')
                          /\ gatewayWriter = gateway.conn => Complete(s, Len(s), Known', Ids, Writer')
                          /\ handler[gateway.conn] # "accepting"
                          /\ \A i \in DOMAIN waiters : waiters[i].who # gateway.conn
        BY <1>2, <1>3, <2>1, <3>2, <3>4 DEF StreamInv
      <3>5. /\ Items(s \o r, gateway.state) /\ Rising(s \o r) /\ After(s \o r, seen)
            /\ Gapless(s \o r, Known)
            /\ gatewayWriter = gateway.conn => Complete(s \o r, Len(s), Known, Ids, Writer)
            /\ handler[gateway.conn] # "accepting"
            /\ \A i \in DOMAIN waiters : waiters[i].who # gateway.conn
        BY <1>1, <3>3 DEF StreamInv
      <3>6. Writer \notin Connections
        BY <1>4, <1>6 DEF Writer
      <3> HIDE DEF s
      <3>7. /\ Items(s, gateway.state) /\ Rising(s) /\ After(s, seen) /\ Gapless(s, Known')
            /\ Complete(s \o r, Len(s), Known, Ids, Writer) => Complete(s, Len(s), Known', Ids, Writer')
        BY <2>7, <3>1, <3>3, <3>5, <3>6, CutStream
      <3> QED
        BY <3>5, <3>7
    <2>11. AcksInv'
      BY <1>1, <1>2, AcksKept
    <2>12. PastInv'
      BY <1>1, <1>2, <2>6, PastKept DEF past
    <2>13. OnlyAbortedLost'
      BY <1>1, <1>2, <2>6, LostKept DEF store
    <2> QED
      BY <2>8, <2>9, <2>10, <2>11, <2>12, <2>13 DEF Inv
  <1>7. CASE ~(holder # None /\ holder.who = w)
    <2>1. PICK i \in DOMAIN waiters : waiters[i].who = w /\ waiters' = RemoveAt(waiters, i)
      BY <1>7 DEF Abort
    <2>2. holder' = holder /\ aborted' = aborted
      BY <1>7 DEF Abort
    <2>3. waiters \in Seq(Queue) /\ Distinct(waiters)
      BY <1>1 DEF TypeOK, TasksInv, Queue
    <2>4. Leaves(waiters, waiters', w)
      BY <2>1, <2>3, OneLeaves
    <2>5. /\ waiters' \in Seq(Queue)
          /\ \A k \in DOMAIN waiters' : \E j \in DOMAIN waiters : waiters'[k] = waiters[j]
      BY <2>4 DEF Leaves
    <2>6. TasksInv'
      <3>1. /\ \A k \in DOMAIN waiters' :
                 /\ waiters'[k].who \in Connections => handler'[waiters'[k].who] = "waiting"
                 /\ waiters'[k].who \in Worlds => waiters'[k].size \in Sizes
            /\ Distinct(waiters')
        BY <1>1, <1>2, <2>4, QueueShrinks DEF TasksInv
      <3>2. holder # None => \A k \in DOMAIN waiters' : waiters'[k].who # holder.who
        BY <1>1, <2>5 DEF TasksInv
      <3> QED
        BY <1>1, <1>2, <2>2, <3>1, <3>2 DEF TasksInv, Live
    <2>7. TypeOK'
      BY <1>1, <1>2, <1>3, <1>5, <2>2, <2>5 DEF TypeOK, Queue
    <2>8. StreamInv'
      <3>1. Known' = Known /\ Stream' = Stream /\ Writer' = Writer
        BY <1>2, <2>2 DEF Known, Stream, Rest, Writer
      <3>2. Joined => /\ handler'[gateway.conn] # "accepting"
                      /\ \A k \in DOMAIN waiters' : waiters'[k].who # gateway.conn
        BY <1>1, <1>2, <2>5 DEF StreamInv
      <3> QED
        BY <1>1, <1>2, <1>3, <3>1, <3>2, StreamKept
    <2>9. AcksInv' /\ PastInv' /\ OnlyAbortedLost'
      BY <1>1, <1>2, <2>2, AcksKept, PastKept, LostKept DEF past, store
    <2> QED
      BY <2>6, <2>7, <2>8, <2>9 DEF Inv
  <1> QED
    BY <1>6, <1>7

(* A task of the connector gives up the Gateway's place, if anything.      *)
LEMMA TaskEnds ==
  ASSUME Inv, NEW c \in Connections, handler[c] = "serving",
         \/ handler' = handler /\ gatewayWriter' = gatewayWriter
         \/ handler' = [handler EXCEPT ![c] = "none"] /\ gatewayWriter' = None,
         buffer' \subseteq buffer, notices' \in Seq((SUBSET Ids) \ {{}}),
         up' \in [Connections -> Seq(Messages)], phase' \in {"running", "expired", "exited"},
         UNCHANGED <<log, lock, down, open, gateway, past, torn, aborted, used>>
  PROVE  TypeOK' /\ TasksInv' /\ StreamInv' /\ PastInv'
  <1>1. TypeOK /\ TasksInv /\ StreamInv /\ PastInv
    BY DEF Inv
  <1>2. /\ log' = log /\ holder' = holder /\ waiters' = waiters /\ down' = down /\ open' = open
        /\ gateway' = gateway /\ seen' = seen /\ handled' = handled /\ torn' = torn
        /\ aborted' = aborted /\ used' = used
    BY DEF lock, past
  <1>3. Ids' = Ids /\ Messages' = Messages
    BY <1>2, SameIds
  <1>4. None \notin Connections /\ gatewayWriter = c
    BY <1>1, ConnectorAssumption DEF TasksInv
  <1>5. /\ handler' \in [Connections -> {"none", "accepting", "waiting", "serving"}]
        /\ gatewayWriter' \in Connections \cup {None}
        /\ \A d \in Connections : d # c => handler'[d] = handler[d]
        /\ handler'[c] \in {"none", "serving"}
        /\ gatewayWriter' = IF handler'[c] = "none" THEN None ELSE c
    BY <1>1, <1>4 DEF TypeOK
  <1>6. TasksInv'
    <2>1. \A d \in Connections : handler'[d] \in {"waiting", "serving"} <=> gatewayWriter' = d
      BY <1>1, <1>4, <1>5 DEF TasksInv
    <2>2. \A i \in DOMAIN waiters : waiters[i].who # c
      BY <1>1 DEF TasksInv
    <2>3. holder # None => holder.who # c
      BY <1>1 DEF TasksInv
    <2> QED
      BY <1>1, <1>2, <1>5, <2>1, <2>2, <2>3 DEF TasksInv, Live
  <1>7. TypeOK'
    <2>1. gatewayWriter' # None => handler'[gatewayWriter'] # "none"
      BY <1>5
    <2> QED
      BY <1>1, <1>2, <1>3, <1>5, <2>1 DEF TypeOK
  <1>8. StreamInv'
    <2>1. Known' = Known /\ Stream' = Stream /\ Writer' = Writer
      BY <1>2 DEF Known, Stream, Rest, Writer
    <2> SUFFICES ASSUME gateway.conn \in Connections PROVE StreamInv'
      BY <1>1, <1>2 DEF TasksInv, StreamInv, Joined, Live
    <2>2. Joined => /\ handler'[gateway.conn] # "accepting"
                    /\ \A k \in DOMAIN waiters' : waiters'[k].who # gateway.conn
      BY <1>1, <1>2, <1>5 DEF StreamInv
    <2>3. gatewayWriter' = gateway.conn => gatewayWriter = gateway.conn
      BY <1>4, <1>5
    <2> QED
      BY <1>1, <1>2, <1>3, <2>1, <2>2, <2>3, StreamKept
  <1>9. PastInv'
    BY <1>1, <1>2, PastKept DEF past
  <1> QED
    BY <1>6, <1>7, <1>8, <1>9

(* A handler reads an acknowledgement.                                     *)
LEMMA HandleMessageStep ==
  ASSUME Inv, NEW c \in Connections, HandleMessage(c) PROVE Inv'
  <1> DEFINE m == Head(up[c])
  <1>1. TypeOK /\ TasksInv /\ AcksInv /\ StreamInv /\ PastInv /\ OnlyAbortedLost
    BY DEF Inv
  <1>2. /\ handler[c] = "serving" /\ up[c] # <<>>
        /\ up' = [up EXCEPT ![c] = Tail(@)]
        /\ UNCHANGED <<log, lock, down, open, gateway, past, torn, aborted, used>>
    BY DEF HandleMessage
  <1>3. /\ log' = log /\ gateway' = gateway /\ seen' = seen /\ handled' = handled /\ aborted' = aborted
    BY <1>2 DEF past
  <1>4. up \in [Connections -> Seq(Messages)] /\ notices \in Seq((SUBSET Ids) \ {{}})
        /\ phase \in {"running", "expired", "exited"} /\ buffer \subseteq Ids
    BY <1>1 DEF TypeOK
  <1> DEFINE q == up[c]
  <1>5. /\ Tail(q) \in Seq(Messages) /\ 1 \in DOMAIN q /\ m = q[1]
        /\ \A i \in DOMAIN Tail(q) : i + 1 \in DOMAIN q /\ Tail(q)[i] = q[i + 1]
    <2>1. q \in Seq(Messages) /\ q # <<>>
      BY <1>2, <1>4
    <2>2. m = Head(q)
      OBVIOUS
    <2> HIDE DEF q, m
    <2>3. Tail(q) \in Seq(Messages) /\ Len(Tail(q)) = Len(q) - 1
      BY <2>1, HeadTailProperties
    <2>4. \A i \in 1 .. Len(Tail(q)) : Tail(q)[i] = q[i + 1]
      BY <2>1, HeadTailProperties
    <2>5. /\ DOMAIN Tail(q) = 1 .. Len(q) - 1 /\ DOMAIN q = 1 .. Len(q)
          /\ Len(q) \in Nat /\ Len(q) > 0
      BY <2>1, <2>3, LenProperties, EmptySeq
    <2> QED
      BY <2>1, <2>2, <2>3, <2>4, <2>5
  <1>6. up' \in [Connections -> Seq(Messages)]
    BY <1>2, <1>4, <1>5
  <1>7. AcksInv'
    <2>1. \A x : Answer(x)' <=> Answer(x)
      BY <1>3 DEF Answer
    <2>2. \A d \in Connections : d # c => up'[d] = up[d]
      BY <1>2, <1>4
    <2>3. up'[c] = Tail(q)
      BY <1>2, <1>4
    <2> HIDE DEF q
    <2>4. \A i \in DOMAIN q : Answer(q[i])
      BY <1>1 DEF AcksInv, q
    <2>5. \A i \in DOMAIN up'[c] : Answer(up'[c][i])
      BY <1>5, <2>3, <2>4
    <2>6. \A d \in Connections : \A i \in DOMAIN up'[d] : Answer(up'[d][i])
      BY <1>1, <2>2, <2>5 DEF AcksInv
    <2>7. gateway.pending # None => Owed(gateway.pending)
      BY <1>1 DEF AcksInv
    <2>8. \A x : Owed(x)' <=> Owed(x)
      BY <1>3 DEF Owed
    <2> QED
      BY <1>3, <2>1, <2>6, <2>7, <2>8 DEF AcksInv
  <1>8. Answer(m)
    BY <1>1, <1>5 DEF AcksInv
  <1>9. CASE m.type = "ack"
    <2>1. /\ Acknowledge(Max(m.ids)) /\ UNCHANGED <<notices, handler, gatewayWriter, phase>>
      BY <1>9 DEF HandleMessage
    <2>2. PICK a \in handled.frames : m.ids = {a}
      BY <1>8, <1>9 DEF Answer
    <2>3. a \in Int /\ Max(m.ids) = a
      <3>1. a \in Int
        BY <1>1 DEF TypeOK, Ids
      <3> QED
        BY <2>2, <3>1, MaxOfOne
    <2>4. buffer' = {d \in buffer : d > a \/ log[d].world # log[a].world}
      BY <2>1, <2>3 DEF Acknowledge
    <2>5. buffer' \subseteq buffer /\ notices' = notices
      BY <2>1, <2>4
    <2>6. OnlyAbortedLost'
      <3> SUFFICES ASSUME NEW d \in Lost' PROVE d \in aborted
        BY <1>3 DEF OnlyAbortedLost
      <3>1. /\ d \in Ids /\ d \notin buffer' /\ d \notin handled.frames
            /\ \A n \in ToSet(notices) \cup handled.notices : d \notin n
        BY <1>3, <2>5, SameIds DEF Lost
      <3>2. CASE d \in buffer
        <4>1. d \in Int /\ ~(d > a) /\ d # a
          BY <2>2, <2>4, <3>1, <3>2 DEF Ids
        <4>2. d \in 1 .. a - 1
          BY <2>3, <3>1, <4>1 DEF Ids
        <4>3. d \in Known
          BY <1>1, <4>2 DEF PastInv
        <4> QED
          BY <3>1, <4>3 DEF Known
      <3>3. CASE d \notin buffer
        BY <1>1, <3>1, <3>3 DEF OnlyAbortedLost, Lost
      <3> QED
        BY <3>2, <3>3
    <2> QED
      BY <1>1, <1>2, <1>4, <1>6, <1>7, <2>1, <2>5, <2>6, TaskEnds DEF Inv
  <1>10. CASE m.type = "ack_overflow"
    <2>1. /\ \/ /\ \E i \in DOMAIN notices : notices[i] = m.ids /\ notices' = RemoveAt(notices, i)
                /\ UNCHANGED <<handler, gatewayWriter>>
             \/ /\ gatewayWriter' = None /\ handler' = [handler EXCEPT ![c] = "none"]
                /\ UNCHANGED notices
          /\ UNCHANGED <<buffer, phase>>
      BY <1>10 DEF HandleMessage
    <2>2. m.ids \in handled.notices
      BY <1>8, <1>10 DEF Answer
    <2>3. /\ notices' \in Seq((SUBSET Ids) \ {{}})
          /\ \A n \in ToSet(notices) : n \in ToSet(notices') \/ n = m.ids
      <3>1. CASE notices' = notices
        BY <1>4, <3>1
      <3>2. ASSUME NEW i \in DOMAIN notices, notices[i] = m.ids, notices' = RemoveAt(notices, i)
            PROVE  /\ notices' \in Seq((SUBSET Ids) \ {{}})
                   /\ \A n \in ToSet(notices) : n \in ToSet(notices') \/ n = m.ids
        BY <1>4, <3>2, RemovedOne
      <3> QED
        BY <2>1, <3>1, <3>2
    <2>4. OnlyAbortedLost'
      <3>1. Lost' \subseteq Lost
        BY <1>3, <2>1, <2>2, <2>3, SameIds DEF Lost
      <3> QED
        BY <1>1, <1>3, <3>1 DEF OnlyAbortedLost
    <2> QED
      BY <1>1, <1>2, <1>4, <1>6, <1>7, <2>1, <2>3, <2>4, TaskEnds DEF Inv
  <1>11. CASE m.type = "shutdown"
    <2>1. phase' = "expired" /\ UNCHANGED <<buffer, notices, handler, gatewayWriter>>
      BY <1>11 DEF HandleMessage
    <2>2. OnlyAbortedLost'
      BY <1>1, <1>3, <2>1, LostKept DEF store
    <2> QED
      BY <1>1, <1>2, <1>4, <1>6, <1>7, <2>1, <2>2, TaskEnds DEF Inv
  <1> QED
    BY <1>8, <1>9, <1>10, <1>11 DEF Answer

(* A handler reads the end of its connection.                              *)
LEMMA EndStep ==
  ASSUME Inv, NEW c \in Connections, End(c) PROVE Inv'
  <1>1. /\ handler[c] = "serving" /\ gatewayWriter' = None /\ handler' = [handler EXCEPT ![c] = "none"]
        /\ UNCHANGED <<store, lock, wires, gateway, past, torn, aborted, used, phase>>
    BY DEF End
  <1>2. /\ log' = log /\ buffer' = buffer /\ notices' = notices /\ up' = up /\ down' = down
        /\ open' = open /\ phase' = phase /\ gateway' = gateway /\ handled' = handled /\ aborted' = aborted
    BY <1>1 DEF store, wires, past
  <1>3. /\ TypeOK /\ AcksInv /\ OnlyAbortedLost
    BY DEF Inv
  <1>4. /\ notices \in Seq((SUBSET Ids) \ {{}}) /\ up \in [Connections -> Seq(Messages)]
        /\ phase \in {"running", "expired", "exited"}
    BY <1>3 DEF TypeOK
  <1>5. TypeOK' /\ TasksInv' /\ StreamInv' /\ PastInv'
    BY <1>1, <1>2, <1>4, TaskEnds
  <1>6. AcksInv' /\ OnlyAbortedLost'
    BY <1>1, <1>2, <1>3, AcksKept, LostKept
  <1> QED
    BY <1>5, <1>6 DEF Inv

-----------------------------------------------------------------------------
(* The Gateway.                                                            *)

(* What the Gateway process does alone leaves the connector as it was.     *)
LEMMA GatewayTypes ==
  ASSUME TypeOK, UNCHANGED <<store, gatewayWriter, lock, handler, torn, aborted, phase>>,
         down' \in [Connections -> Seq(Messages)], up' \in [Connections -> Seq(Messages)],
         open' \subseteq Connections, seen' \in Seq(Messages),
         gateway' \in [state : {"down", "attaching", "attached"}, conn : Connections \cup {None},
                       pending : Messages \cup {None}],
         handled' \in [frames : SUBSET Ids, notices : SUBSET SUBSET Ids],
         used' \in [crashes : 0 .. MaxCrashes, aborts : 0 .. MaxAborts]
  PROVE  TypeOK'
  <1>1. /\ log' = log /\ buffer' = buffer /\ notices' = notices /\ holder' = holder
        /\ waiters' = waiters /\ handler' = handler /\ gatewayWriter' = gatewayWriter
        /\ torn' = torn /\ aborted' = aborted /\ phase' = phase
    BY DEF store, lock
  <1>2. Ids' = Ids /\ Messages' = Messages
    BY <1>1, SameIds
  <1> QED
    BY <1>1, <1>2 DEF TypeOK

(* Steps of the Gateway leave the tasks of the connector alone.            *)
LEMMA GatewayTasks ==
  ASSUME TasksInv, UNCHANGED <<gatewayWriter, lock, handler>>,
         gateway'.state = "down" => open' = {},
         gateway'.state # "down" => gateway'.conn \in Connections /\ open' = {gateway'.conn},
         gateway'.state = "attaching" => seen' = <<>>,
         gateway'.state # "attached" => gateway'.pending = None
  PROVE  TasksInv'
  <1>1. holder' = holder /\ waiters' = waiters /\ handler' = handler /\ gatewayWriter' = gatewayWriter
    BY DEF lock
  <1> QED
    BY <1>1 DEF TasksInv, Live

(* The state of a Gateway that does not run.                               *)
LEMMA DownIsDown ==
  /\ Down.state = "down" /\ Down.conn = None /\ Down.pending = None
  /\ Down \in [state : {"down", "attaching", "attached"}, conn : Connections \cup {None},
               pending : Messages \cup {None}]
  BY DEF Down

(* The Gateway process ends: what it wrote remains to be read.             *)
LEMMA GatewayEnds ==
  ASSUME Inv, gateway' = Down, gateway.state # "down", Close(gateway.conn),
         UNCHANGED <<store, gatewayWriter, lock, handler, past, torn, aborted, phase>>,
         used' \in [crashes : 0 .. MaxCrashes, aborts : 0 .. MaxAborts],
         up' \in [Connections -> Seq(Messages)],
         \A c \in Connections : \A i \in DOMAIN up'[c] : Answer(up'[c][i])
  PROVE  Inv'
  <1>1. TypeOK /\ TasksInv /\ PastInv /\ OnlyAbortedLost
    BY DEF Inv
  <1>2. seen' = seen /\ handled' = handled
    BY DEF past
  <1>3. /\ gateway.conn \in Connections /\ open = {gateway.conn}
        /\ open' = {} /\ down' = [down EXCEPT ![gateway.conn] = <<>>]
    BY <1>1 DEF Close, TasksInv, Live
  <1>4. TypeOK'
    <2>1. seen \in Seq(Messages) /\ handled \in [frames : SUBSET Ids, notices : SUBSET SUBSET Ids]
      BY <1>1 DEF TypeOK
    <2>2. down' \in [Connections -> Seq(Messages)]
      <3>1. <<>> \in Seq(Messages) /\ down \in [Connections -> Seq(Messages)]
        BY <1>1 DEF TypeOK
      <3> QED
        BY <1>3, <3>1
    <2> QED
      BY <1>1, <1>2, <1>3, <2>1, <2>2, DownIsDown, GatewayTypes
  <1>5. TasksInv'
    BY <1>1, <1>3, DownIsDown, GatewayTasks
  <1>6. AcksInv'
    <2>1. \A m : Answer(m)' <=> Answer(m)
      BY <1>2 DEF Answer
    <2> QED
      BY <2>1, DownIsDown DEF AcksInv
  <1>7. StreamInv'
    BY DownIsDown DEF StreamInv, Joined
  <1>8. PastInv' /\ OnlyAbortedLost'
    BY <1>1, <1>2, PastKept, LostKept
  <1> QED
    BY <1>4, <1>5, <1>6, <1>7, <1>8 DEF Inv

(* A Gateway connects.                                                     *)
LEMMA GatewayStartStep ==
  ASSUME Inv, NEW c \in Connections, GatewayStart(c) PROVE Inv'
  <1>1. TypeOK /\ TasksInv /\ AcksInv /\ PastInv /\ OnlyAbortedLost
    BY DEF Inv
  <1>2. /\ gateway.state = "down" /\ handler[c] = "none" /\ (holder # None => holder.to # c)
        /\ gateway' = [state |-> "attaching", conn |-> c, pending |-> None]
        /\ open' = open \cup {c} /\ down' = [down EXCEPT ![c] = <<>>]
        /\ up' = [up EXCEPT ![c] = <<>>] /\ handler' = [handler EXCEPT ![c] = "accepting"]
        /\ seen' = <<>>
        /\ log' = log /\ buffer' = buffer /\ notices' = notices /\ gatewayWriter' = gatewayWriter
        /\ holder' = holder /\ waiters' = waiters /\ handled' = handled /\ torn' = torn
        /\ aborted' = aborted /\ used' = used /\ phase' = phase
    BY DEF GatewayStart, store, lock
  <1>3. Ids' = Ids /\ Messages' = Messages
    BY <1>2, SameIds
  <1>4. /\ down \in [Connections -> Seq(Messages)] /\ up \in [Connections -> Seq(Messages)]
        /\ handler \in [Connections -> {"none", "accepting", "waiting", "serving"}]
        /\ <<>> \in Seq(Messages) /\ None \notin Connections
    <2>1. None \notin Connections
      BY ConnectorAssumption
    <2>2. <<>> \in Seq(Messages)
      OBVIOUS
    <2> QED
      BY <1>1, <2>1, <2>2 DEF TypeOK
  <1>5. /\ handler' \in [Connections -> {"none", "accepting", "waiting", "serving"}]
        /\ handler'[c] = "accepting" /\ \A d \in Connections : d # c => handler'[d] = handler[d]
        /\ down' \in [Connections -> Seq(Messages)] /\ down'[c] = <<>>
        /\ up' \in [Connections -> Seq(Messages)] /\ up'[c] = <<>>
        /\ \A d \in Connections : d # c => up'[d] = up[d]
    BY <1>2, <1>4
  <1>6. TasksInv'
    <2>1. \A d \in Connections : handler'[d] \in {"waiting", "serving"} <=> gatewayWriter' = d
      BY <1>1, <1>2, <1>5 DEF TasksInv
    <2>2. \A i \in DOMAIN waiters : waiters[i].who # c
      BY <1>1, <1>2 DEF TasksInv
    <2>3. holder # None => holder.who # c
      BY <1>1, <1>2 DEF TasksInv
    <2>4. open' = {c}
      BY <1>1, <1>2 DEF TasksInv
    <2>5. gateway'.state = "attaching" /\ gateway'.conn = c /\ gateway'.pending = None
      BY <1>2
    <2> QED
      BY <1>1, <1>2, <1>5, <2>1, <2>2, <2>3, <2>4, <2>5 DEF TasksInv, Live
  <1>7. TypeOK'
    <2>1. gatewayWriter' # None => handler'[gatewayWriter'] # "none"
      BY <1>1, <1>2, <1>5 DEF TypeOK
    <2>2. gateway' \in [state : {"down", "attaching", "attached"}, conn : Connections \cup {None},
                        pending : Messages \cup {None}]
      BY <1>2
    <2>3. seen' \in Seq(Messages) /\ open' \subseteq Connections
      BY <1>1, <1>2, <1>4 DEF TypeOK
    <2> QED
      BY <1>1, <1>2, <1>3, <1>5, <2>1, <2>2, <2>3 DEF TypeOK
  <1>8. AcksInv'
    <2>1. \A m : Answer(m)' <=> Answer(m)
      BY <1>2 DEF Answer
    <2>2. \A i \in DOMAIN up'[c] : FALSE
      <3>1. Len(up'[c]) = 0 /\ up'[c] \in Seq(Messages)
        BY <1>4, <1>5, EmptySeq
      <3> QED
        BY <3>1, LenProperties
    <2>3. \A d \in Connections : \A i \in DOMAIN up'[d] : Answer(up'[d][i])
      BY <1>1, <1>5, <2>2 DEF AcksInv
    <2>4. gateway'.pending = None
      BY <1>2
    <2> QED
      BY <2>1, <2>3, <2>4 DEF AcksInv
  <1>9. StreamInv'
    <2>1. Rest' = <<>> /\ gateway'.conn = c /\ gateway'.state = "attaching"
      BY <1>2 DEF Rest
    <2>2. Stream' = <<>> \o <<>>
      BY <1>5, <2>1 DEF Stream
    <2>3. Stream' = <<>>
      BY <1>4, <2>2, ConcatEmptySeq
    <2> QED
      BY <2>1, <2>3 DEF StreamInv, Joined
  <1>10. PastInv'
    <2>1. \A i \in DOMAIN seen' : FALSE
      <3>1. Len(seen') = 0 /\ seen' \in Seq(Messages)
        BY <1>2, <1>4, EmptySeq
      <3> QED
        BY <3>1, LenProperties
    <2>2. Known' = Known
      BY <1>2 DEF Known
    <2> QED
      BY <1>1, <1>2, <2>1, <2>2 DEF PastInv, Rising
  <1>11. OnlyAbortedLost'
    BY <1>1, <1>2, LostKept DEF store
  <1> QED
    BY <1>6, <1>7, <1>8, <1>9, <1>10, <1>11 DEF Inv

(* The Gateway takes the first message of a stream it is attached to.      *)
LEMMA TakeStep ==
  ASSUME Inv, Joined, down[gateway.conn] # <<>>,
         down' = [down EXCEPT ![gateway.conn] = Tail(@)],
         gateway'.state = "attached", gateway'.conn = gateway.conn,
         seen' = seen \/ seen' = Append(seen, Stream[1]),
         Known \subseteq Known', Stream[1].ids \subseteq Known',
         UNCHANGED <<store, gatewayWriter, lock, handler>>
  PROVE  StreamInv' /\ down' \in [Connections -> Seq(Messages)] /\ Stream[1] = Head(down[gateway.conn])
  <1> DEFINE s == down[gateway.conn]
  <1>1. TypeOK /\ TasksInv /\ StreamInv
    BY DEF Inv
  <1>2. /\ log' = log /\ holder' = holder /\ waiters' = waiters /\ handler' = handler
        /\ gatewayWriter' = gatewayWriter
    BY DEF store, lock
  <1>3. Ids' = Ids
    BY <1>2, SameIds
  <1>4. /\ gateway.conn \in Connections /\ s \in Seq(Messages) /\ s # <<>>
        /\ down \in [Connections -> Seq(Messages)] /\ Rest \in Seq(Messages) /\ seen \in Seq(Messages)
    <2>1. gateway.conn \in Connections
      BY <1>1 DEF TasksInv, Joined, Live
    <2>2. Rest \in Seq(Messages)
      BY <1>1 DEF Rest, TypeOK
    <2> QED
      BY <1>1, <2>1, <2>2 DEF TypeOK
  <1>5. down' \in [Connections -> Seq(Messages)] /\ down'[gateway.conn] = Tail(s)
    <2>1. Tail(s) \in Seq(Messages)
      BY <1>4, HeadTailProperties
    <2> QED
      BY <1>4, <2>1
  <1>6. Rest' = Rest
    BY <1>2 DEF Rest
  <1>7. Stream = s \o Rest /\ Stream' = Tail(s) \o Rest
    BY <1>5, <1>6 DEF Stream
  <1> HIDE DEF s
  <1>8. /\ Stream \in Seq(Messages) /\ Stream # <<>> /\ Stream' = Tail(Stream) /\ Stream[1] = Head(s)
        /\ Len(s) \in Nat /\ Len(Tail(s)) = Len(s) - 1
    BY <1>4, <1>7, TailOfConcat
  <1>9. /\ Items(Stream, gateway.state) /\ Rising(Stream) /\ After(Stream, seen)
        /\ Gapless(Stream, Known)
        /\ gatewayWriter = gateway.conn => Complete(Stream, Len(s), Known, Ids, Writer)
        /\ handler[gateway.conn] # "accepting"
        /\ \A i \in DOMAIN waiters : waiters[i].who # gateway.conn
    BY <1>1 DEF StreamInv, s
  <1>10. seen' \in Seq(Messages)
    <2>1. Stream[1] \in Messages
      <3>1. 1 \in 1 .. Len(Stream)
        BY <1>8, LenProperties, EmptySeq
      <3> QED
        BY <1>8, <3>1, ElementOfSeq
    <2>2. seen \in Seq(Messages)
      BY <1>1 DEF TypeOK
    <2>3. Append(seen, Stream[1]) \in Seq(Messages)
      BY <2>1, <2>2, AppendProperties
    <2> QED
      BY <1>4, <2>2, <2>3
  <1>11. /\ Items(Tail(Stream), "attached") /\ Rising(Tail(Stream)) /\ After(Tail(Stream), seen')
         /\ Gapless(Tail(Stream), Known')
    BY <1>4, <1>8, <1>9, <1>10, TakenStream
  <1>12. gatewayWriter = gateway.conn =>
           Complete(Tail(Stream), Len(s) - 1, Known', Ids, Writer)
    BY <1>8, <1>9, TakenComplete
  <1>13. Writer' = Writer
    BY <1>2 DEF Writer
  <1>14. Stream[1] = Head(down[gateway.conn])
    BY <1>8 DEF s
  <1>15. StreamInv'
    BY <1>2, <1>3, <1>5, <1>8, <1>9, <1>11, <1>12, <1>13 DEF StreamInv
  <1> QED
    BY <1>5, <1>14, <1>15

(* The Gateway reads that it is attached.                                  *)
LEMMA GatewayAttachStep ==
  ASSUME Inv, GatewayAttach PROVE Inv'
  <1>1. TypeOK /\ TasksInv /\ AcksInv /\ StreamInv /\ PastInv /\ OnlyAbortedLost
    BY DEF Inv
  <1>2. /\ gateway.state = "attaching" /\ down[gateway.conn] # <<>>
        /\ UNCHANGED <<store, gatewayWriter, lock, handler, up, past, torn, aborted, used, phase>>
    BY DEF GatewayAttach
  <1>3. /\ up' = up /\ seen' = seen /\ handled' = handled /\ aborted' = aborted
        /\ gateway.conn \in Connections /\ open = {gateway.conn}
        /\ up \in [Connections -> Seq(Messages)] /\ seen \in Seq(Messages)
        /\ handled \in [frames : SUBSET Ids, notices : SUBSET SUBSET Ids]
        /\ used' \in [crashes : 0 .. MaxCrashes, aborts : 0 .. MaxAborts]
        /\ gateway \in [state : {"down", "attaching", "attached"}, conn : Connections \cup {None},
                        pending : Messages \cup {None}]
    BY <1>1, <1>2 DEF past, TasksInv, TypeOK, Live
  <1>4. CASE Head(down[gateway.conn]).type = "attached"
    <2>1. /\ gateway' = [gateway EXCEPT !.state = "attached"] /\ open' = open
          /\ down' = [down EXCEPT ![gateway.conn] = Tail(@)]
      BY <1>4 DEF GatewayAttach
    <2>2. /\ gateway'.state = "attached" /\ gateway'.conn = gateway.conn
          /\ gateway'.pending = gateway.pending
          /\ gateway' \in [state : {"down", "attaching", "attached"}, conn : Connections \cup {None},
                           pending : Messages \cup {None}]
      BY <1>3, <2>1
    <2>3. Stream # <<>> /\ Stream[1] = Head(down[gateway.conn])
      <3> DEFINE s == down[gateway.conn]
      <3>1. s \in Seq(Messages) /\ s # <<>> /\ Rest \in Seq(Messages)
        BY <1>1, <1>2, <1>3 DEF TypeOK, Rest
      <3>2. Stream = s \o Rest
        BY DEF Stream
      <3> HIDE DEF s
      <3>3. Stream # <<>> /\ Stream[1] = Head(s)
        BY <3>1, <3>2, TailOfConcat
      <3> QED
        BY <3>3 DEF s
    <2>4. Joined
      BY <1>2, <1>4, <2>3 DEF Joined
    <2>5. Stream[1].ids = {}
      <3>1. Items(Stream, gateway.state) /\ Stream \in Seq(Messages) /\ 1 \in DOMAIN Stream
        <4>1. Stream \in Seq(Messages)
          <5>1. down[gateway.conn] \in Seq(Messages) /\ Rest \in Seq(Messages)
            BY <1>1, <1>3 DEF TypeOK, Rest
          <5> QED
            BY <5>1, ConcatProperties DEF Stream
        <4>2. 1 \in DOMAIN Stream
          BY <2>3, <4>1, LenProperties, EmptySeq
        <4> QED
          BY <1>1, <2>4, <4>1, <4>2 DEF StreamInv
      <3> QED
        BY <1>4, <2>3, <3>1 DEF Items
    <2>6. Known' = Known
      BY <1>3 DEF Known
    <2>7. StreamInv' /\ down' \in [Connections -> Seq(Messages)]
      BY <1>2, <1>3, <2>1, <2>2, <2>4, <2>5, <2>6, TakeStep
    <2>8. TypeOK'
      BY <1>1, <1>2, <1>3, <2>1, <2>2, <2>7, GatewayTypes
    <2>9. TasksInv'
      BY <1>1, <1>2, <1>3, <2>1, <2>2, GatewayTasks
    <2>10. AcksInv' /\ PastInv' /\ OnlyAbortedLost'
      BY <1>1, <1>2, <1>3, <2>2, AcksKept, PastKept, LostKept
    <2> QED
      BY <2>7, <2>8, <2>9, <2>10 DEF Inv
  <1>5. CASE Head(down[gateway.conn]).type # "attached"
    <2>1. gateway' = Down /\ Close(gateway.conn)
      BY <1>5 DEF GatewayAttach
    <2>2. \A c \in Connections : \A i \in DOMAIN up'[c] : Answer(up'[c][i])
      BY <1>1, <1>3 DEF AcksInv
    <2> QED
      BY <1>2, <1>3, <2>1, <2>2, GatewayEnds
  <1> QED
    BY <1>4, <1>5

(* Handling a frame: everything before it was handled.                     *)
LEMMA GatewayHandleStep ==
  ASSUME Inv, GatewayHandle PROVE Inv'
  <1> DEFINE m == Head(down[gateway.conn])
  <1>1. TypeOK /\ TasksInv /\ AcksInv /\ StreamInv /\ PastInv /\ OnlyAbortedLost
    BY DEF Inv
  <1>2. /\ gateway.state = "attached" /\ gateway.pending = None /\ down[gateway.conn] # <<>>
        /\ gateway' = [gateway EXCEPT !.pending = m] /\ seen' = Append(seen, m)
        /\ handled' = IF m.type = "frame"
                      THEN [handled EXCEPT !.frames = @ \cup m.ids]
                      ELSE [handled EXCEPT !.notices = @ \cup {m.ids}]
        /\ down' = [down EXCEPT ![gateway.conn] = Tail(@)]
        /\ UNCHANGED <<store, gatewayWriter, lock, handler, up, open, torn, aborted, used, phase>>
    BY DEF GatewayHandle
  <1>3. Joined
    BY <1>2 DEF Joined
  <1>4. /\ gateway.conn \in Connections /\ open = {gateway.conn}
        /\ up \in [Connections -> Seq(Messages)] /\ seen \in Seq(Messages)
        /\ handled \in [frames : SUBSET Ids, notices : SUBSET SUBSET Ids]
        /\ used' \in [crashes : 0 .. MaxCrashes, aborts : 0 .. MaxAborts]
        /\ gateway \in [state : {"down", "attaching", "attached"}, conn : Connections \cup {None},
                        pending : Messages \cup {None}]
        /\ down[gateway.conn] \in Seq(Messages) /\ Rest \in Seq(Messages)
    <2>1. gateway.conn \in Connections
      BY <1>1, <1>2 DEF TasksInv, Live
    <2> QED
      BY <1>1, <1>2, <2>1 DEF TasksInv, TypeOK, Live, Rest
  <1>5. Stream \in Seq(Messages) /\ Stream[1] = m /\ 1 \in DOMAIN Stream /\ m \in Messages
    <2> DEFINE s == down[gateway.conn]
    <2>1. s \in Seq(Messages) /\ s # <<>> /\ Stream = s \o Rest /\ m = Head(s)
      BY <1>2, <1>4 DEF Stream
    <2> HIDE DEF s, m
    <2>2. Stream \in Seq(Messages) /\ Stream # <<>> /\ Stream[1] = m
      BY <1>4, <2>1, TailOfConcat
    <2>3. Len(Stream) \in Nat /\ Len(Stream) > 0 /\ DOMAIN Stream = 1 .. Len(Stream)
      BY <2>2, LenProperties, EmptySeq
    <2>4. Stream[1] \in Messages
      BY <2>2, <2>3, ElementOfSeq
    <2> QED
      BY <2>2, <2>3, <2>4
  <1>6. Single(m) /\ m.type \in {"frame", "overflow"} /\ m.ids \subseteq Ids
    <2>1. Items(Stream, "attached")
      BY <1>1, <1>2, <1>3 DEF StreamInv
    <2> HIDE DEF m
    <2> QED
      BY <1>5, <2>1 DEF Items, Messages
  <1> HIDE DEF m
  <1>7. /\ handled' \in [frames : SUBSET Ids, notices : SUBSET SUBSET Ids]
        /\ handled.frames \subseteq handled'.frames /\ handled.notices \subseteq handled'.notices
        /\ m.type = "frame" => m.ids \subseteq handled'.frames /\ handled'.frames = handled.frames \cup m.ids
        /\ m.type # "frame" => m.ids \in handled'.notices /\ handled'.frames = handled.frames
    <2>1. CASE m.type = "frame"
      <3>1. handled' = [handled EXCEPT !.frames = @ \cup m.ids]
        BY <1>2, <2>1
      <3> QED
        BY <1>4, <1>6, <2>1, <3>1
    <2>2. CASE m.type # "frame"
      <3>1. handled' = [handled EXCEPT !.notices = @ \cup {m.ids}]
        BY <1>2, <2>2
      <3> QED
        BY <1>4, <1>6, <2>2, <3>1, ZenonT(60)
    <2> QED
      BY <2>1, <2>2
  <1>8. aborted' = aborted /\ up' = up
    BY <1>2
  <1>9. Known \subseteq Known' /\ m.ids \subseteq Known'
    <2>1. Known \subseteq Known'
      BY <1>7, <1>8, KnownGrows
    <2>2. m.ids \subseteq Known'
      BY <1>7 DEF Known
    <2> QED
      BY <2>1, <2>2
  <1>10. /\ gateway'.state = "attached" /\ gateway'.conn = gateway.conn /\ gateway'.pending = m
         /\ gateway' \in [state : {"down", "attaching", "attached"}, conn : Connections \cup {None},
                          pending : Messages \cup {None}]
    BY <1>2, <1>4, <1>5
  <1>11. StreamInv' /\ down' \in [Connections -> Seq(Messages)]
    BY <1>2, <1>3, <1>5, <1>9, <1>10, TakeStep
  <1>12. seen' \in Seq(Messages) /\ Len(seen') = Len(seen) + 1
    BY <1>2, <1>4, <1>5, AppendProperties
  <1>13. TypeOK'
    BY <1>1, <1>2, <1>4, <1>7, <1>10, <1>11, <1>12, GatewayTypes
  <1>14. TasksInv'
    BY <1>1, <1>2, <1>4, <1>10, GatewayTasks
  <1>15. AcksInv'
    <2>1. \A x : Answer(x) => Answer(x)'
      BY <1>7 DEF Answer
    <2>2. \/ m.type = "frame" /\ \E c \in handled'.frames : m.ids = {c}
          \/ m.type # "frame" /\ m.ids \in handled'.notices
      <3>1. CASE m.type = "frame"
        BY <1>6, <1>7, <3>1 DEF Single
      <3>2. CASE m.type # "frame"
        BY <1>7, <3>2
      <3> QED
        BY <3>1, <3>2
    <2>3. \A d \in Connections : \A i \in DOMAIN up'[d] : Answer(up[d][i])'
      BY <1>1, <1>8, <2>1 DEF AcksInv
    <2>4. Owed(gateway.pending)'
      BY <1>10, <2>2 DEF Owed
    <2> QED
      BY <2>3, <2>4 DEF AcksInv
  <1>16. PastInv'
    <2>1. /\ \A i \in 1 .. Len(seen) : seen'[i] = seen[i]
          /\ seen'[Len(seen) + 1] = m
      BY <1>2, <1>4, <1>5, AppendProperties
    <2>2. /\ DOMAIN seen = 1 .. Len(seen) /\ Len(seen) \in Nat
          /\ DOMAIN seen' = 1 .. Len(seen) + 1
      BY <1>4, <1>12, LenProperties
    <2>3. \A i \in DOMAIN seen' : \/ i \in DOMAIN seen /\ seen'[i] = seen[i]
                                  \/ i = Len(seen) + 1 /\ seen'[i] = m
      BY <2>1, <2>2
    <2>4. \A i \in DOMAIN seen' : Single(seen'[i])
      BY <1>1, <1>6, <2>3 DEF PastInv
    <2>5. After(Stream, seen)
      BY <1>1, <1>3 DEF StreamInv
    <2>6. Rising(seen')
      <3> SUFFICES ASSUME NEW i \in DOMAIN seen', NEW j \in DOMAIN seen', i < j,
                          seen'[i].type = "frame", seen'[j].type = "frame",
                          NEW a \in seen'[i].ids, NEW b \in seen'[j].ids
                   PROVE  a < b
        BY DEF Rising
      <3>1. i \in DOMAIN seen /\ seen'[i] = seen[i]
        BY <2>2, <2>3
      <3>2. CASE j \in DOMAIN seen /\ seen'[j] = seen[j]
        BY <1>1, <3>1, <3>2 DEF PastInv, Rising
      <3>3. CASE seen'[j] = m
        BY <1>5, <2>5, <3>1, <3>3 DEF After
      <3> QED
        BY <2>3, <3>2, <3>3
    <2>7. \A c \in handled'.frames : 1 .. c - 1 \subseteq Known'
      <3> SUFFICES ASSUME NEW c \in handled'.frames PROVE 1 .. c - 1 \subseteq Known'
        OBVIOUS
      <3>1. CASE c \in handled.frames
        BY <1>1, <1>9, <3>1 DEF PastInv
      <3>2. CASE c \notin handled.frames
        <4>1. m.type = "frame" /\ c \in m.ids
          BY <1>7, <3>2
        <4>2. Gapless(Stream, Known)
          BY <1>1, <1>3 DEF StreamInv
        <4>3. \A d \in 1 .. c - 1 : d \in Known \/ \E j \in DOMAIN Stream : j < 1 /\ d \in Stream[j].ids
          BY <1>5, <4>1, <4>2 DEF Gapless
        <4>4. \A j \in DOMAIN Stream : ~(j < 1)
          BY <1>5, LenProperties
        <4> QED
          BY <1>9, <4>3, <4>4
      <3> QED
        BY <3>1, <3>2
    <2> QED
      BY <2>4, <2>6, <2>7 DEF PastInv
  <1>17. OnlyAbortedLost'
    BY <1>1, <1>2, <1>7, LostKept
  <1> QED
    BY <1>11, <1>13, <1>14, <1>15, <1>16, <1>17 DEF Inv

(* The Gateway writes an acknowledgement, or asks for the shutdown.        *)
LEMMA WrittenUp ==
  ASSUME up \in [Connections -> Seq(Messages)], NEW c \in Connections, NEW m \in Messages,
         \A d \in Connections : \A i \in DOMAIN up[d] : Answer(up[d][i]), Answer(m),
         up' = [up EXCEPT ![c] = Append(@, m)], handled' = handled
  PROVE  /\ up' \in [Connections -> Seq(Messages)]
         /\ \A d \in Connections : \A i \in DOMAIN up'[d] : Answer(up'[d][i]) /\ Answer(up[d][i])'
  <1> DEFINE q == up[c]
             r == Append(q, m)
  <1>1. q \in Seq(Messages)
    OBVIOUS
  <1>2. up'[c] = r /\ \A d \in Connections : d # c => up'[d] = up[d]
    OBVIOUS
  <1> HIDE DEF q
  <1>3. r \in Seq(Messages) /\ Len(r) = Len(q) + 1
    BY <1>1, AppendProperties
  <1>4. (\A i \in 1 .. Len(q) : r[i] = q[i]) /\ r[Len(q) + 1] = m
    BY <1>1, AppendProperties
  <1> HIDE DEF r
  <1>5. DOMAIN q = 1 .. Len(q) /\ Len(q) \in Nat /\ DOMAIN r = 1 .. Len(q) + 1
    BY <1>1, <1>3, LenProperties
  <1>6. \A i \in DOMAIN r : (i \in DOMAIN q /\ r[i] = q[i]) \/ r[i] = m
    BY <1>4, <1>5
  <1>7. \A i \in DOMAIN r : Answer(r[i])
    <2>1. \A i \in DOMAIN q : Answer(q[i])
      BY DEF q
    <2> QED
      BY <1>6, <2>1
  <1>8. \A d \in Connections : \A i \in DOMAIN up'[d] : Answer(up'[d][i])
    BY <1>2, <1>7
  <1>9. \A x : Answer(x)' <=> Answer(x)
    BY DEF Answer
  <1>10. up' \in [Connections -> Seq(Messages)]
    BY <1>3 DEF r, q
  <1>11. \A d \in Connections : \A i \in DOMAIN up'[d] : Answer(up[d][i])'
    BY <1>8, <1>9
  <1> QED
    BY <1>8, <1>10, <1>11

(* The Gateway has handled a message and acknowledges it.                  *)
LEMMA GatewayAcknowledgeStep ==
  ASSUME Inv, GatewayAcknowledge PROVE Inv'
  <1> DEFINE p == gateway.pending
             m == Message(IF p.type = "frame" THEN "ack" ELSE "ack_overflow", p.ids)
  <1>1. TypeOK /\ TasksInv /\ AcksInv /\ StreamInv /\ PastInv /\ OnlyAbortedLost
    BY DEF Inv
  <1>2. /\ gateway.state = "attached" /\ p # None
        /\ gateway' = [gateway EXCEPT !.pending = None]
        /\ up' = [up EXCEPT ![gateway.conn] = Append(@, m)]
        /\ UNCHANGED <<store, gatewayWriter, lock, handler, down, open, past, torn, aborted, used,
                       phase>>
    BY DEF GatewayAcknowledge
  <1>3. /\ gateway.conn \in Connections /\ open = {gateway.conn}
        /\ up \in [Connections -> Seq(Messages)] /\ seen \in Seq(Messages)
        /\ handled \in [frames : SUBSET Ids, notices : SUBSET SUBSET Ids]
        /\ used' \in [crashes : 0 .. MaxCrashes, aborts : 0 .. MaxAborts]
        /\ gateway \in [state : {"down", "attaching", "attached"}, conn : Connections \cup {None},
                        pending : Messages \cup {None}]
        /\ down \in [Connections -> Seq(Messages)] /\ p \in Messages
    BY <1>1, <1>2 DEF TasksInv, TypeOK, Live
  <1>4. seen' = seen /\ handled' = handled /\ down' = down /\ open' = open /\ aborted' = aborted
    BY <1>2 DEF past
  <1>5. /\ gateway'.state = "attached" /\ gateway'.conn = gateway.conn /\ gateway'.pending = None
        /\ gateway' \in [state : {"down", "attaching", "attached"}, conn : Connections \cup {None},
                         pending : Messages \cup {None}]
    BY <1>2, <1>3
  <1>6. m \in Messages /\ Answer(m)
    <2>1. Owed(p)
      BY <1>1, <1>2 DEF AcksInv
    <2>2. m.ids = p.ids /\ m.type = IF p.type = "frame" THEN "ack" ELSE "ack_overflow"
      BY DEF Message
    <2>3. m \in Messages
      BY <1>3 DEF Message, Messages, MessageTypes
    <2>4. Answer(m)
      BY <2>1, <2>2 DEF Owed, Answer
    <2> QED
      BY <2>3, <2>4
  <1> HIDE DEF m, p
  <1>7. /\ up' \in [Connections -> Seq(Messages)]
        /\ \A d \in Connections : \A i \in DOMAIN up'[d] : Answer(up[d][i])'
    <2>1. \A d \in Connections : \A i \in DOMAIN up[d] : Answer(up[d][i])
      BY <1>1 DEF AcksInv
    <2> QED
      BY <1>2, <1>3, <1>4, <1>6, <2>1, WrittenUp
  <1>8. TypeOK'
    <2>1. open' \subseteq Connections
      BY <1>3, <1>4
    <2> QED
      BY <1>1, <1>2, <1>3, <1>4, <1>5, <1>7, <2>1, GatewayTypes
  <1>9. TasksInv'
    BY <1>1, <1>2, <1>3, <1>4, <1>5, GatewayTasks
  <1>10. AcksInv'
    BY <1>5, <1>7 DEF AcksInv
  <1>11. StreamInv'
    <2>1. holder' = holder /\ waiters' = waiters /\ handler' = handler /\ gatewayWriter' = gatewayWriter
          /\ log' = log
      BY <1>2 DEF lock, store
    <2>2. Known' = Known /\ Stream' = Stream /\ Writer' = Writer
      BY <1>4, <1>5, <2>1 DEF Known, Stream, Rest, Writer
    <2>3. Joined => /\ handler'[gateway.conn] # "accepting"
                    /\ \A i \in DOMAIN waiters' : waiters'[i].who # gateway.conn
      BY <1>1, <2>1 DEF StreamInv
    <2> QED
      BY <1>1, <1>2, <1>4, <1>5, <2>1, <2>2, <2>3, StreamKept, SameIds
  <1>12. PastInv' /\ OnlyAbortedLost'
    BY <1>1, <1>2, <1>4, PastKept, LostKept
  <1> QED
    BY <1>8, <1>9, <1>10, <1>11, <1>12 DEF Inv

(* The count of the failures of the Gateway stays within its bound.        *)
LEMMA UsedUp ==
  ASSUME TypeOK, used.crashes < MaxCrashes, used' = [used EXCEPT !.crashes = @ + 1]
  PROVE  used' \in [crashes : 0 .. MaxCrashes, aborts : 0 .. MaxAborts]
  <1>1. /\ used \in [crashes : 0 .. MaxCrashes, aborts : 0 .. MaxAborts]
        /\ MaxCrashes \in Nat
    BY ConnectorAssumption DEF TypeOK
  <1>2. used.crashes + 1 \in 0 .. MaxCrashes
    BY <1>1
  <1> QED
    BY <1>1, <1>2

(* The Gateway ends or loses its connection.                               *)
LEMMA GatewayGoneStep ==
  ASSUME Inv, GatewayCrash \/ GatewayShutdown \/ GatewayLost PROVE Inv'
  <1>1. TypeOK /\ TasksInv /\ AcksInv
    BY DEF Inv
  <1>2. /\ up \in [Connections -> Seq(Messages)]
        /\ used \in [crashes : 0 .. MaxCrashes, aborts : 0 .. MaxAborts]
        /\ \A c \in Connections : \A i \in DOMAIN up[c] : Answer(up[c][i])
    BY <1>1 DEF TypeOK, AcksInv
  <1>3. CASE GatewayCrash
    <2>1. used' \in [crashes : 0 .. MaxCrashes, aborts : 0 .. MaxAborts]
      BY <1>1, <1>3, UsedUp DEF GatewayCrash
    <2> QED
      BY <1>2, <1>3, <2>1, GatewayEnds DEF GatewayCrash
  <1>4. CASE GatewayShutdown
    <2> DEFINE m == Message("shutdown", {})
    <2>1. used' \in [crashes : 0 .. MaxCrashes, aborts : 0 .. MaxAborts]
      BY <1>1, <1>4, UsedUp DEF GatewayShutdown
    <2>2. /\ gateway.state = "attached" /\ up' = [up EXCEPT ![gateway.conn] = Append(@, m)]
          /\ gateway' = Down /\ Close(gateway.conn)
          /\ UNCHANGED <<store, gatewayWriter, lock, handler, past, torn, aborted, phase>>
      BY <1>4 DEF GatewayShutdown
    <2>3. m \in Messages /\ Answer(m)
      BY DEF Message, Messages, MessageTypes, Answer
    <2>4. gateway.conn \in Connections /\ handled' = handled
      BY <1>1, <2>2 DEF TasksInv, Live, past
    <2> HIDE DEF m
    <2>5. /\ up' \in [Connections -> Seq(Messages)]
          /\ \A d \in Connections : \A i \in DOMAIN up'[d] : Answer(up'[d][i])
      BY <1>2, <2>2, <2>3, <2>4, WrittenUp
    <2> QED
      BY <2>1, <2>2, <2>5, GatewayEnds
  <1>5. CASE GatewayLost
    BY <1>2, <1>5, GatewayEnds DEF GatewayLost
  <1> QED
    BY <1>3, <1>4, <1>5

(* The connector ends.                                                     *)
LEMMA ExpireStep ==
  ASSUME Inv, Expire \/ Exit \/ UNCHANGED vars PROVE Inv'
  <1>1. TypeOK /\ TasksInv /\ AcksInv /\ StreamInv /\ PastInv /\ OnlyAbortedLost
    BY DEF Inv
  <1>2. /\ UNCHANGED <<store, gatewayWriter, lock, handler, wires, gateway, past, torn, aborted, used>>
        /\ phase' \in {"running", "expired", "exited"}
    BY <1>1 DEF Expire, Exit, vars, TypeOK
  <1>3. /\ log' = log /\ buffer' = buffer /\ notices' = notices /\ up' = up /\ down' = down
        /\ open' = open /\ gateway' = gateway /\ seen' = seen /\ handled' = handled
        /\ holder' = holder /\ waiters' = waiters /\ handler' = handler /\ torn' = torn
        /\ gatewayWriter' = gatewayWriter /\ aborted' = aborted /\ used' = used
    BY <1>2 DEF store, lock, wires, past
  <1>4. TypeOK'
    BY <1>1, <1>2, <1>3, SameIds DEF TypeOK
  <1>5. TasksInv'
    BY <1>1, <1>3 DEF TasksInv, Live
  <1>6. StreamInv'
    <2>1. Known' = Known /\ Stream' = Stream /\ Writer' = Writer
      BY <1>3 DEF Known, Stream, Rest, Writer
    <2>2. Joined => /\ handler'[gateway.conn] # "accepting"
                    /\ \A i \in DOMAIN waiters' : waiters'[i].who # gateway.conn
      BY <1>1, <1>3 DEF StreamInv
    <2> QED
      BY <1>1, <1>3, <2>1, <2>2, StreamKept, SameIds
  <1>7. AcksInv' /\ PastInv' /\ OnlyAbortedLost'
    BY <1>1, <1>2, <1>3, AcksKept, PastKept, LostKept
  <1> QED
    BY <1>4, <1>5, <1>6, <1>7 DEF Inv
-----------------------------------------------------------------------------
(* The specification.                                                      *)

LEMMA InitInv == Init => Inv
  <1> SUFFICES ASSUME Init PROVE Inv
    OBVIOUS
  <1> USE DEF Init
  <1>1. Len(log) = 0 /\ Ids = {} /\ None \notin Connections
    <2>1. Len(log) = 0
      BY EmptySeq
    <2> QED
      BY <2>1, ConnectorAssumption DEF Ids
  <1>2. \A i \in DOMAIN <<>> : FALSE
    OBVIOUS
  <1>3. TypeOK
    <2>1. used \in [crashes : 0 .. MaxCrashes, aborts : 0 .. MaxAborts]
      BY ConnectorAssumption
    <2>2. gateway \in [state : {"down", "attaching", "attached"}, conn : Connections \cup {None},
                       pending : Messages \cup {None}]
      BY DownIsDown
    <2> QED
      BY <1>1, <2>1, <2>2 DEF TypeOK
  <1>4. TasksInv
    BY <1>1, <1>2, DownIsDown DEF TasksInv, Distinct, Live
  <1>5. AcksInv
    BY <1>2, DownIsDown DEF AcksInv
  <1>6. StreamInv
    BY DownIsDown DEF StreamInv, Joined
  <1>7. PastInv
    BY <1>2 DEF PastInv, Rising
  <1>8. OnlyAbortedLost
    BY <1>1 DEF OnlyAbortedLost, Lost
  <1> QED
    BY <1>3, <1>4, <1>5, <1>6, <1>7, <1>8 DEF Inv

(* Every step preserves the invariant.                                     *)
LEMMA NextInv == Inv /\ [Next]_vars => Inv'
  <1> SUFFICES ASSUME Inv, [Next]_vars PROVE Inv'
    OBVIOUS
  <1>1. ASSUME NEW w \in Worlds, NEW size \in Sizes, Publish(w, size) PROVE Inv'
    BY <1>1, PublishStep
  <1>2. ASSUME NEW w \in Worlds, Abort(w) PROVE Inv'
    BY <1>2, AbortStep
  <1>3. CASE ConnectorStep
    BY <1>3, AcquireStep, DrainedStep, AcceptStep, HandleMessageStep, EndStep DEF ConnectorStep
  <1>4. CASE GatewayStep
    BY <1>4, GatewayStartStep, GatewayAttachStep, GatewayHandleStep, GatewayAcknowledgeStep,
       GatewayGoneStep DEF GatewayStep
  <1>5. CASE GatewayCrash \/ GatewayShutdown
    BY <1>5, GatewayGoneStep
  <1>6. CASE Expire \/ Exit \/ UNCHANGED vars
    BY <1>6, ExpireStep
  <1> QED
    BY <1>1, <1>2, <1>3, <1>4, <1>5, <1>6 DEF Next

(* The inductive invariant holds in every behaviour.                       *)
LEMMA SpecInv == Spec => []Inv
  BY InitInv, NextInv, PTL DEF Spec

(* The variables of the connector and of the Gateway keep their types, and *)
(* the connection that holds the Gateway's place always has a task that    *)
(* will give it up.                                                        *)
THEOREM ConnectorTypes == Spec => []TypeOK
  <1>1. Inv => TypeOK
    BY DEF Inv
  <1> QED
    BY <1>1, SpecInv, PTL

(* Whatever the limits, the crashes and the pace of the Gateways: a frame  *)
(* is in the replay buffer, was handled or is named by a notice that is    *)
(* pending or was handled, unless its publisher was cancelled.             *)
THEOREM NothingLostSilently == Spec => []OnlyAbortedLost
  <1>1. Inv => OnlyAbortedLost
    BY DEF Inv
  <1> QED
    BY <1>1, SpecInv, PTL

(* A Gateway handles frames in the order of their numbers and none twice.  *)
THEOREM HandledInOrder == Spec => []SeenInOrder
  <1>1. Inv => SeenInOrder
    <2> SUFFICES ASSUME Inv, NEW i \in DOMAIN seen, NEW j \in DOMAIN seen, i < j,
                        seen[i].type = "frame", seen[j].type = "frame"
                 PROVE  Max(seen[i].ids) < Max(seen[j].ids)
      BY DEF SeenInOrder
    <2>1. PICK a \in Nat : seen[i].ids = {a}
      BY DEF Inv, PastInv, Single
    <2>2. PICK b \in Nat : seen[j].ids = {b}
      BY DEF Inv, PastInv, Single
    <2>3. a < b
      BY <2>1, <2>2 DEF Inv, PastInv, Rising
    <2>4. Max({a}) = a /\ Max({b}) = b
      BY MaxOfOne
    <2> QED
      BY <2>1, <2>2, <2>3, <2>4
  <1> QED
    BY <1>1, SpecInv, PTL

(* When a Gateway handled a frame, every earlier frame of its world was    *)
(* handled, is named by a notice that was, or its publisher was cancelled. *)
THEOREM GapsAreAnnounced == Spec => []GapAnnouncedFirst
  <1>1. Inv => GapAnnouncedFirst
    BY DEF Inv, PastInv, Known, GapAnnouncedFirst, OfWorld
  <1> QED
    BY <1>1, SpecInv, PTL
=============================================================================
