------------------------ MODULE WorldCommandsProofs ------------------------
(***************************************************************************)
(* The session of a world.  TelnetText: what is shown is what it sent.     *)
(* WorldCommands: types, the order of what a world receives and what the   *)
(* Gateway knows of it.  For every choice of their constants.              *)
(***************************************************************************)
EXTENDS WorldCommands, TelnetText, FiniteSetTheorems, SequenceTheorems, TLAPS

-----------------------------------------------------------------------------
(* The text of a world: TelnetText.                                        *)

\* A set of numbers that is not empty has a least element.
LEMMA LeastOfNats ==
  ASSUME NEW K \in SUBSET Nat, K # {}
  PROVE  \E m \in K : \A x \in K : m <= x
<1>1. PICK m \in K : \A x \in K : ~(<<x, m>> \in OpToRel(<, Nat))  BY NatLessThanWellFounded, WFMin, Zenon
<1>2. \A x \in K : ~(x < m)  BY <1>1 DEF OpToRel
<1>3. \A x \in K : x \in Int /\ m \in Int  OBVIOUS
<1>4. QED  BY <1>2, <1>3

\* What holds of 0 and passes from each number to the next holds up to n.
LEMMA CountUp ==
  ASSUME NEW n \in Nat, NEW Good, 0 \in Good,
         \A i \in Nat : i < n /\ i \in Good => i + 1 \in Good
  PROVE  \A i \in 0..n : i \in Good
<1>1. PICK bad \in SUBSET Nat : bad = {i \in 0..n : i \notin Good}
  <2>1. {i \in 0..n : i \notin Good} \in SUBSET Nat  OBVIOUS
  <2>2. QED  BY <2>1
<1>2. ASSUME bad # {} PROVE FALSE
  <2>1. PICK k \in bad : \A x \in bad : k <= x  BY <1>2, LeastOfNats
  <2>2. k \in 0..n /\ k \notin Good  BY <1>1
  <2>3. PICK l \in Nat : l + 1 = k
    <3>1. k - 1 \in Nat /\ (k - 1) + 1 = k  BY <2>2
    <3>2. QED  BY <3>1
  <2>4. l \in 0..n /\ l < n /\ l \notin bad  BY <2>1, <2>2, <2>3
  <2>5. QED  BY <1>1, <2>2, <2>3, <2>4
<1>3. QED  BY <1>1, <1>2

\* A run of n steps from `first`, each by the step function.
Runs(h, n, first, step) == h[0] = first /\ \A i \in 0..n : i < n => h[i + 1] = step[<<i, h[i]>>]

\* There is one, and only one.
LEMMA RunExists ==
  ASSUME NEW T, NEW n \in Nat, NEW first \in T, NEW step \in [Nat \X T -> T]
  PROVE  \E h \in [0..n -> T] : Runs(h, n, first, step)
<1>1. PICK Good : Good = {i \in Nat : \E h \in [0..i -> T] : Runs(h, i, first, step)}  OBVIOUS
<1>2. 0 \in Good
  <2>1. PICK h : h = [i \in 0..0 |-> first]  OBVIOUS
  <2>2. h \in [0..0 -> T] /\ h[0] = first  BY <2>1
  <2>3. Runs(h, 0, first, step)  BY <2>2 DEF Runs
  <2>4. QED  BY <1>1, <2>2, <2>3
<1>3. ASSUME NEW i \in Nat, i \in Good PROVE i + 1 \in Good
  <2>1. PICK h \in [0..i -> T] : Runs(h, i, first, step)  BY <1>1, <1>3
  <2>2. PICK e \in T : e = step[<<i, h[i]>>]
    <3>1. h[i] \in T  OBVIOUS
    <3>2. step[<<i, h[i]>>] \in T  BY <3>1
    <3>3. QED  BY <3>2
  <2>3. PICK g : g = [j \in 0..(i + 1) |-> IF j = i + 1 THEN e ELSE h[j]]  OBVIOUS
  <2>4. g \in [0..(i + 1) -> T]
    <3>1. \A j \in 0..(i + 1) : j # i + 1 => j \in 0..i  OBVIOUS
    <3>2. \A j \in 0..(i + 1) : (IF j = i + 1 THEN e ELSE h[j]) \in T  BY <3>1
    <3>3. QED  BY <2>3, <3>2
  <2>5. g[i + 1] = e /\ \A j \in 0..i : g[j] = h[j]
    <3>1. \A j \in 0..i : j \in 0..(i + 1) /\ j # i + 1  OBVIOUS
    <3>2. i + 1 \in 0..(i + 1)  OBVIOUS
    <3>3. QED  BY <2>3, <3>1, <3>2
  <2>6. Runs(g, i + 1, first, step)
    <3>1. g[0] = first  BY <2>1, <2>5 DEF Runs
    <3>2. ASSUME NEW j \in 0..(i + 1), j < i + 1 PROVE g[j + 1] = step[<<j, g[j]>>]
      <4>1. j \in 0..i /\ g[j] = h[j]  BY <2>5, <3>2
      <4>2. CASE j = i  BY <2>2, <2>5, <4>1, <4>2
      <4>3. CASE j < i
        <5>1. h[j + 1] = step[<<j, h[j]>>]  BY <2>1, <4>1, <4>3 DEF Runs
        <5>2. j + 1 \in 0..i  BY <4>1, <4>3
        <5>3. QED  BY <2>5, <4>1, <5>1, <5>2
      <4>4. QED  BY <3>2, <4>2, <4>3
    <3>3. QED  BY <3>1, <3>2 DEF Runs
  <2>7. QED  BY <1>1, <2>4, <2>6
<1>4. \A i \in 0..n : i \in Good  BY <1>2, <1>3, CountUp
<1>5. QED  BY <1>1, <1>4

LEMMA RunUnique ==
  ASSUME NEW n \in Nat, NEW first, NEW step, NEW g, NEW h,
         Runs(g, n, first, step), Runs(h, n, first, step)
  PROVE  \A i \in 0..n : g[i] = h[i]
<1>1. PICK Good : Good = {i \in Nat : i <= n => g[i] = h[i]}  OBVIOUS
<1>2. 0 \in Good  BY <1>1 DEF Runs
<1>3. ASSUME NEW i \in Nat, i < n /\ i \in Good PROVE i + 1 \in Good
  <2>1. i \in 0..n  BY <1>3
  <2>2. g[i + 1] = step[<<i, g[i]>>] /\ h[i + 1] = step[<<i, h[i]>>]  BY <1>3, <2>1 DEF Runs
  <2>3. QED  BY <1>1, <1>3, <2>2
<1>4. \A i \in 0..n : i \in Good  BY <1>2, <1>3, CountUp
<1>5. QED  BY <1>1, <1>4

(* FlattenSeq: the sums of the first sequences. *)
Sums(J, ss) == J[0] = <<>> /\ \A i \in 1..Len(ss) : J[i] = J[i - 1] \o ss[i]

LEMMA SumsExist ==
  ASSUME NEW S, NEW ss \in Seq(Seq(S)), NEW n, n = Len(ss)
  PROVE  \E J \in [0..n -> Seq(S)] : Sums(J, ss)
<1>1. n \in Nat /\ \A i \in 1..n : ss[i] \in Seq(S)  BY LenProperties, ElementOfSeq
<1>2. PICK step : step = [p \in Nat \X Seq(S) |-> IF p[1] < n THEN p[2] \o ss[p[1] + 1] ELSE p[2]]
  OBVIOUS
<1>3. \A i \in Nat, s \in Seq(S) : step[<<i, s>>] = IF i < n THEN s \o ss[i + 1] ELSE s  BY <1>2
<1>4. step \in [Nat \X Seq(S) -> Seq(S)]
  <2>1. ASSUME NEW i \in Nat, NEW s \in Seq(S) PROVE (IF i < n THEN s \o ss[i + 1] ELSE s) \in Seq(S)
    <3>1. CASE i < n
      <4>1. ss[i + 1] \in Seq(S)  BY <1>1, <3>1
      <4>2. QED  BY <3>1, <4>1, ConcatProperties
    <3>2. QED  BY <3>1
  <2>2. QED  BY <1>2, <2>1
<1>5. <<>> \in Seq(S)  BY EmptySeq
<1>6. PICK J \in [0..n -> Seq(S)] : Runs(J, n, <<>>, step)  BY <1>1, <1>4, <1>5, RunExists
<1>7. ASSUME NEW i \in 1..n PROVE J[i] = J[i - 1] \o ss[i]
  <2>1. PICK k \in Nat : k = i - 1  BY <1>1
  <2>2. k \in 0..n /\ k < n /\ i = k + 1  BY <1>1, <2>1
  <2>3. J[k + 1] = step[<<k, J[k]>>] /\ J[k] \in Seq(S)  BY <1>6, <2>2 DEF Runs
  <2>4. QED  BY <1>3, <2>1, <2>2, <2>3
<1>8. J[0] = <<>>  BY <1>6 DEF Runs
<1>9. Sums(J, ss)  BY <1>7, <1>8 DEF Sums
<1>10. QED  BY <1>6, <1>9

\* Whoever adds them up gets what FlattenSeq gets.
LEMMA FlattenIsSum ==
  ASSUME NEW S, NEW ss \in Seq(Seq(S)), NEW n, n = Len(ss), NEW J, Sums(J, ss)
  PROVE  FlattenSeq(ss) = J[n]
<1>1. n \in Nat /\ \A i \in 1..n : ss[i] \in Seq(S)  BY LenProperties, ElementOfSeq
<1>2. CASE n = 0
  <2>1. ss = <<>>  BY <1>2, EmptySeq
  <2>2. FlattenSeq(ss) = ss  BY <1>2 DEF FlattenSeq
  <2>3. QED  BY <1>2, <2>1, <2>2 DEF Sums
<1>3. CASE n # 0
  <2>1. PICK g : g = CHOOSE f : f = [i \in 1..Len(ss) |-> IF i = 1 THEN ss[i] ELSE f[i - 1] \o ss[i]]
    OBVIOUS
  <2>2. FlattenSeq(ss) = g[Len(ss)]  BY <1>3, <2>1 DEF FlattenSeq
  <2>3. PICK f : f = [i \in 1..Len(ss) |-> J[i]]  OBVIOUS
  <2>4. ASSUME NEW i \in 1..Len(ss)
        PROVE  J[i] = IF i = 1 THEN ss[i] ELSE f[i - 1] \o ss[i]
    <3>1. J[i] = J[i - 1] \o ss[i]  BY DEF Sums
    <3>2. CASE i = 1
      <4>1. J[i - 1] = <<>>  BY <3>2 DEF Sums
      <4>2. ss[i] \in Seq(S)  BY <1>1
      <4>3. QED  BY <3>1, <3>2, <4>1, <4>2, ConcatEmptySeq
    <3>3. CASE i # 1
      <4>1. i - 1 \in 1..Len(ss)  BY <1>1, <3>3
      <4>2. f[i - 1] = J[i - 1]  BY <2>3, <4>1
      <4>3. QED  BY <3>1, <3>3, <4>2
    <3>4. QED  BY <3>2, <3>3
  <2>5. f = [i \in 1..Len(ss) |-> IF i = 1 THEN ss[i] ELSE f[i - 1] \o ss[i]]  BY <2>3, <2>4
  <2>6. g = [i \in 1..Len(ss) |-> IF i = 1 THEN ss[i] ELSE g[i - 1] \o ss[i]]  BY <2>1, <2>5
  <2>7. PICK Good : Good = {i \in Nat : i \in 1..n => g[i] = f[i]}  OBVIOUS
  <2>8. 0 \in Good  BY <2>7
  <2>9. ASSUME NEW i \in Nat, i < n /\ i \in Good PROVE i + 1 \in Good
    <3>1. i + 1 \in 1..Len(ss)  BY <1>1, <2>9
    <3>2. g[i + 1] = IF i + 1 = 1 THEN ss[i + 1] ELSE g[(i + 1) - 1] \o ss[i + 1]  BY <2>6, <3>1
    <3>3. f[i + 1] = IF i + 1 = 1 THEN ss[i + 1] ELSE f[(i + 1) - 1] \o ss[i + 1]  BY <2>5, <3>1
    <3>4. i + 1 # 1 => i \in 1..n /\ (i + 1) - 1 = i  BY <2>9
    <3>5. QED  BY <2>7, <2>9, <3>1, <3>2, <3>3, <3>4
  <2>10. \A i \in 0..n : i \in Good  BY <1>1, <2>8, <2>9, CountUp
  <2>11. n \in 0..n /\ n \in 1..n  BY <1>1, <1>3
  <2>12. g[n] = f[n] /\ f[n] = J[n]  BY <2>3, <2>7, <2>10, <2>11
  <2>13. QED  BY <2>2, <2>12
<1>4. QED  BY <1>2, <1>3

LEMMA FlattenType ==
  ASSUME NEW S, NEW ss \in Seq(Seq(S))
  PROVE  FlattenSeq(ss) \in Seq(S)
<1>1. PICK n \in Nat : n = Len(ss)  BY LenProperties
<1>2. PICK J \in [0..n -> Seq(S)] : Sums(J, ss)  BY <1>1, SumsExist
<1>3. FlattenSeq(ss) = J[n]  BY <1>1, <1>2, FlattenIsSum
<1>4. n \in 0..n  BY <1>1
<1>5. QED  BY <1>2, <1>3, <1>4

LEMMA FlattenOne ==
  ASSUME NEW S, NEW s \in Seq(S)
  PROVE  FlattenSeq(<<>>) = <<>> /\ FlattenSeq(<<s>>) = s
<1>1. PICK J : J = [i \in 0..1 |-> IF i = 0 THEN <<>> ELSE s]  OBVIOUS
<1>2. J[0] = <<>> /\ J[1] = s  BY <1>1
<1>3. <<s>> \in Seq(Seq(S)) /\ Len(<<s>>) = 1 /\ <<s>>[1] = s  OBVIOUS
<1>4. \A i \in 1..Len(<<s>>) : J[i] = J[i - 1] \o <<s>>[i]
  <2>1. <<>> \o s = s  BY ConcatEmptySeq
  <2>2. QED  BY <1>2, <1>3, <2>1
<1>5. Sums(J, <<s>>)  BY <1>2, <1>4 DEF Sums
<1>6. FlattenSeq(<<s>>) = s  BY <1>2, <1>3, <1>5, FlattenIsSum
<1>7. FlattenSeq(<<>>) = <<>>  BY EmptySeq DEF FlattenSeq
<1>8. QED  BY <1>6, <1>7

SameSteps(S, t, n, L, K) ==
    \A i \in 0..n : i < n => /\ t[i + 1] \in Seq(S)
                            /\ L[i + 1] = L[i] \o t[i + 1] /\ K[i + 1] = K[i] \o t[i + 1]

\* Sums that start from `base` are those that start from nothing, with `base` in front.
LEMMA SumsFrom ==
  ASSUME NEW S, NEW base \in Seq(S), NEW n \in Nat, NEW t, NEW L, NEW K,
         L[0] = base, K[0] = <<>>,
         \A i \in 0..n : K[i] \in Seq(S), SameSteps(S, t, n, L, K)
  PROVE  L[n] = base \o K[n]
<1>1. PICK Good : Good = {j \in Nat : j <= n => L[j] = base \o K[j]}  OBVIOUS
<1>2. 0 \in Good
  <2>1. base \o <<>> = base  BY ConcatEmptySeq
  <2>2. QED  BY <1>1, <2>1
<1>3. ASSUME NEW j \in Nat, j < n /\ j \in Good PROVE j + 1 \in Good
  <2>1. L[j] = base \o K[j]  BY <1>1, <1>3
  <2>2. j \in 0..n  BY <1>3
  <2>3. L[j + 1] = L[j] \o t[j + 1] /\ K[j + 1] = K[j] \o t[j + 1]  BY <1>3, <2>2 DEF SameSteps
  <2>4. K[j] \in Seq(S) /\ t[j + 1] \in Seq(S)  BY <1>3, <2>2 DEF SameSteps
  <2>5. PICK a \in Seq(S), c \in Seq(S) : a = K[j] /\ c = t[j + 1]  BY <2>4
  <2>6. (base \o a) \o c = base \o (a \o c)  BY ConcatAssociative
  <2>7. L[j + 1] = base \o K[j + 1]  BY <2>1, <2>3, <2>5, <2>6
  <2>8. QED  BY <1>1, <2>7
<1>4. \A j \in 0..n : j \in Good  BY <1>2, <1>3, CountUp
<1>5. n \in Good  BY <1>4
<1>6. QED  BY <1>1, <1>5

LEMMA FlattenConcat ==
  ASSUME NEW S, NEW s \in Seq(Seq(S)), NEW t \in Seq(Seq(S))
  PROVE  FlattenSeq(s \o t) = FlattenSeq(s) \o FlattenSeq(t)
<1>1. PICK m \in Nat, n \in Nat : m = Len(s) /\ n = Len(t)  BY LenProperties
<1>2. PICK u : u = s \o t  OBVIOUS
<1>3. /\ u \in Seq(Seq(S)) /\ Len(u) = m + n
      /\ \A i \in 1..(m + n) : u[i] = IF i <= m THEN s[i] ELSE t[i - m]
  BY <1>1, <1>2, ConcatProperties
<1>4. PICK l \in Nat : l = m + n  OBVIOUS
<1>5. PICK J : J \in [0..l -> Seq(S)] /\ Sums(J, u)  BY <1>3, <1>4, SumsExist
<1>6. PICK K : K \in [0..n -> Seq(S)] /\ Sums(K, t)  BY <1>1, SumsExist
<1>7. Sums(J, s)
  <2>1. \A i \in 1..m : i \in 1..(m + n) /\ i <= m  OBVIOUS
  <2>2. \A i \in 1..m : J[i] = J[i - 1] \o s[i]  BY <1>3, <1>5, <2>1 DEF Sums
  <2>3. QED  BY <1>1, <1>5, <2>2 DEF Sums
<1>8. FlattenSeq(u) = J[l]  BY <1>3, <1>4, <1>5, FlattenIsSum
<1>9. FlattenSeq(s) = J[m]  BY <1>1, <1>7, FlattenIsSum
<1>10. FlattenSeq(t) = K[n]  BY <1>1, <1>6, FlattenIsSum
<1>11. PICK L : L = [j \in 0..n |-> J[m + j]]  OBVIOUS
<1>12. PICK base : base = J[m]  OBVIOUS
<1>13. base \in Seq(S)
  <2>1. m \in 0..l  BY <1>4
  <2>2. QED  BY <1>5, <1>12, <2>1
<1>14. L[0] = base /\ K[0] = <<>>
  <2>1. 0 \in 0..n /\ m + 0 = m  OBVIOUS
  <2>2. QED  BY <1>6, <1>11, <1>12, <2>1 DEF Sums
<1>15. ASSUME NEW i \in 0..n, i < n
       PROVE  /\ t[i + 1] \in Seq(S)
              /\ L[i + 1] = L[i] \o t[i + 1] /\ K[i + 1] = K[i] \o t[i + 1]
  <2>1. i + 1 \in 1..n /\ (i + 1) - 1 = i /\ i + 1 \in 0..n  BY <1>15
  <2>2. t[i + 1] \in Seq(S)  BY <1>1, <2>1, ElementOfSeq
  <2>3. K[i + 1] = K[i] \o t[i + 1]  BY <1>1, <1>6, <2>1 DEF Sums
  <2>4. PICK p \in Nat : p = m + (i + 1)  OBVIOUS
  <2>5. p \in 1..(m + n) /\ ~(p <= m) /\ p - m = i + 1 /\ p - 1 = m + i  BY <2>1, <2>4
  <2>6. u[p] = t[i + 1]  BY <1>3, <2>5
  <2>7. J[p] = J[p - 1] \o u[p]  BY <1>3, <1>5, <2>5 DEF Sums
  <2>8. L[i + 1] = J[p] /\ L[i] = J[m + i]  BY <1>11, <2>1, <2>4
  <2>9. QED  BY <2>2, <2>3, <2>5, <2>6, <2>7, <2>8
<1>16. \A i \in 0..n : K[i] \in Seq(S)  BY <1>6
<1>17. L[n] = base \o K[n]
  <2>1. SameSteps(S, t, n, L, K)  BY <1>15, Zenon DEF SameSteps
  <2>2. QED  BY <1>13, <1>14, <1>16, <2>1, SumsFrom, SMTT(30)
<1>18. L[n] = J[l]  BY <1>4, <1>11
<1>19. QED  BY <1>2, <1>8, <1>9, <1>10, <1>12, <1>17, <1>18, Zenon

(* The codec: the states it goes through, and what it says of each byte. *)
TelnetByte == {"text", "cr", "lf", "iac", "nop", "do", "sb", "se"} \cup Supported \cup Unsupported
WireByte == [byte : TelnetByte, text : Seq(TelnetByte)]
CodecStates == {"data", "iac", "negotiation", "option", "sub", "sub iac"}
Answers == {"will", "wont"}
CodecRead == [state : CodecStates, taken : SUBSET Supported, text : Seq(TelnetByte),
              replies : Seq(Answers)]

StateAfter(s, b) ==
    IF s = "data" THEN (IF b = "iac" THEN "iac" ELSE "data")
    ELSE IF s = "iac" THEN (IF b = "do" THEN "negotiation" ELSE IF b = "sb" THEN "option" ELSE "data")
    ELSE IF s = "negotiation" THEN "data"
    ELSE IF s = "option" THEN "sub"
    ELSE IF s = "sub" THEN (IF b = "iac" THEN "sub iac" ELSE "sub")
    ELSE (IF b = "se" THEN "data" ELSE "sub")

TextOf(s, b) == IF (s = "data" /\ b # "iac") \/ (s = "iac" /\ b = "iac") THEN <<b>> ELSE <<>>

LEMMA StateAfterType ==
  ASSUME NEW s \in CodecStates, NEW b
  PROVE  StateAfter(s, b) \in CodecStates
BY DEF CodecStates, StateAfter

LEMMA ReadByteIs ==
  ASSUME NEW c \in CodecRead, NEW b \in TelnetByte
  PROVE  /\ ReadByte(c, b) \in CodecRead
         /\ ReadByte(c, b).state = StateAfter(c.state, b)
         /\ ReadByte(c, b).text = c.text \o TextOf(c.state, b)
<1> DEFINE r == ReadByte(c, b)
<1>1. /\ c.state \in CodecStates /\ c.taken \in SUBSET Supported
      /\ c.text \in Seq(TelnetByte) /\ c.replies \in Seq(Answers)
  BY DEF CodecRead
<1>2. c.text \o <<>> = c.text  BY <1>1, ConcatEmptySeq
<1>3. Append(c.text, b) = c.text \o <<b>> /\ Append(c.text, b) \in Seq(TelnetByte)
  BY <1>1, AppendIsConcat, AppendProperties
<1>4. ASSUME NEW s \in CodecStates PROVE [c EXCEPT !.state = s] \in CodecRead
  BY <1>4 DEF CodecRead
<1>5. ASSUME NEW s \in CodecStates PROVE [c EXCEPT !.state = s, !.text = Append(@, b)] \in CodecRead
  BY <1>3, <1>5 DEF CodecRead
<1>6. CASE c.state = "data"
  <2>1. r = IF b = "iac" THEN [c EXCEPT !.state = "iac"] ELSE [c EXCEPT !.text = Append(@, b)]
    BY <1>6 DEF ReadByte
  <2>2. CASE b = "iac"
    <3>1. r = [c EXCEPT !.state = "iac"]  BY <2>1, <2>2
    <3>2. r.state = "iac" /\ r.text = c.text  BY <3>1 DEF CodecRead
    <3>3. r \in CodecRead  BY <3>1, <1>4 DEF CodecStates
    <3>4. StateAfter(c.state, b) = "iac" /\ TextOf(c.state, b) = <<>>
      BY <1>6, <2>2 DEF StateAfter, TextOf
    <3>5. QED  BY <1>2, <3>2, <3>3, <3>4
  <2>3. CASE b # "iac"
    <3>1. r = [c EXCEPT !.text = Append(@, b)]  BY <2>1, <2>3
    <3>2. r.state = "data" /\ r.text = Append(c.text, b)  BY <1>6, <3>1 DEF CodecRead
    <3>3. r \in CodecRead  BY <3>1, <1>3 DEF CodecRead
    <3>4. StateAfter(c.state, b) = "data" /\ TextOf(c.state, b) = <<b>>
      BY <1>6, <2>3 DEF StateAfter, TextOf
    <3>5. QED  BY <1>3, <3>2, <3>3, <3>4
  <2>4. QED  BY <2>2, <2>3
<1>7. CASE c.state = "iac"
  <2>1. CASE b = "iac"
    <3>1. r = [c EXCEPT !.state = "data", !.text = Append(@, b)]  BY <1>7, <2>1 DEF ReadByte
    <3>2. r.state = "data" /\ r.text = Append(c.text, b)  BY <3>1 DEF CodecRead
    <3>3. r \in CodecRead  BY <3>1, <1>5 DEF CodecStates
    <3>4. StateAfter(c.state, b) = "data" /\ TextOf(c.state, b) = <<b>>
      BY <1>7, <2>1 DEF StateAfter, TextOf
    <3>5. QED  BY <1>3, <3>2, <3>3, <3>4
  <2>2. CASE b # "iac"
    <3>1. PICK s \in CodecStates : s = StateAfter("iac", b)  BY StateAfterType DEF CodecStates
    <3>2. r = [c EXCEPT !.state = s]
      <4>1. CASE b = "do"  BY <1>7, <4>1, <3>1 DEF ReadByte, StateAfter
      <4>2. CASE b = "sb"  BY <1>7, <4>2, <3>1 DEF ReadByte, StateAfter
      <4>3. CASE b # "do" /\ b # "sb"  BY <1>7, <2>2, <4>3, <3>1 DEF ReadByte, StateAfter
      <4>4. QED  BY <4>1, <4>2, <4>3
    <3>3. r.state = s /\ r.text = c.text  BY <3>2 DEF CodecRead
    <3>4. r \in CodecRead  BY <3>2, <1>4
    <3>5. TextOf(c.state, b) = <<>>  BY <1>7, <2>2 DEF TextOf
    <3>6. QED  BY <1>2, <1>7, <3>1, <3>3, <3>4, <3>5
  <2>3. QED  BY <2>1, <2>2
<1>8. CASE c.state = "negotiation"
  <2>1. r = Negotiated(c, b)  BY <1>8 DEF ReadByte
  <2>2. PICK reply \in Seq(Answers) :
            reply = IF b \notin Supported THEN <<"wont">>
                     ELSE IF b \in c.taken THEN <<>> ELSE <<"will">>
    <3>1. \A a \in Answers : <<a>> \in Seq(Answers)  OBVIOUS
    <3>2. <<"wont">> \in Seq(Answers) /\ <<"will">> \in Seq(Answers)  BY <3>1 DEF Answers
    <3>3. <<>> \in Seq(Answers)  BY EmptySeq
    <3>4. QED  BY <3>2, <3>3, Zenon
  <2>3. PICK taken \in SUBSET Supported :
            taken = IF b \in Supported THEN c.taken \cup {b} ELSE c.taken
    BY <1>1
  <2>4. PICK said \in Seq(Answers) : said = c.replies \o reply  BY <1>1, ConcatProperties
  <2>5. r = [c EXCEPT !.state = "data", !.taken = taken, !.replies = said]
    BY <2>1, <2>2, <2>3, <2>4 DEF Negotiated
  <2>6. r.state = "data" /\ r.text = c.text  BY <2>5 DEF CodecRead
  <2>7. r \in CodecRead  BY <2>5 DEF CodecRead, CodecStates
  <2>8. StateAfter(c.state, b) = "data" /\ TextOf(c.state, b) = <<>>  BY <1>8 DEF StateAfter, TextOf
  <2>9. QED  BY <1>2, <2>6, <2>7, <2>8
<1>9. CASE c.state \in {"option", "sub", "sub iac"}
  <2>1. PICK s \in CodecStates : s = StateAfter(c.state, b)  BY <1>1, StateAfterType
  <2>2. r = [c EXCEPT !.state = s]
    <3>1. CASE c.state = "option"  BY <3>1, <2>1 DEF ReadByte, StateAfter
    <3>2. CASE c.state = "sub" /\ b = "iac"  BY <3>2, <2>1 DEF ReadByte, StateAfter
    <3>3. CASE c.state = "sub" /\ b # "iac"
      <4>1. r = c /\ s = c.state  BY <3>3, <2>1 DEF ReadByte, StateAfter
      <4>2. QED  BY <4>1 DEF CodecRead
    <3>4. CASE c.state = "sub iac"  BY <3>4, <2>1 DEF ReadByte, StateAfter
    <3>5. QED  BY <1>9, <3>1, <3>2, <3>3, <3>4
  <2>3. r.state = s /\ r.text = c.text  BY <2>2 DEF CodecRead
  <2>4. r \in CodecRead  BY <2>2, <1>4
  <2>5. TextOf(c.state, b) = <<>>  BY <1>9 DEF TextOf
  <2>6. QED  BY <1>2, <2>1, <2>3, <2>4, <2>5
<1>10. QED  BY <1>1, <1>6, <1>7, <1>8, <1>9 DEF CodecStates

\* A way for the codec through bytes, state by state, that says what they stand for.
Path(st, w) ==
    /\ st \in [0..Len(w) -> CodecStates]
    /\ \A i \in 0..Len(w) : i < Len(w) =>
           st[i + 1] = StateAfter(st[i], w[i + 1].byte) /\ w[i + 1].text = TextOf(st[i], w[i + 1].byte)

\* The texts that bytes stand for.
TextsOf(w) == [i \in 1..Len(w) |-> w[i].text]

LEMMA WireBytes ==
  ASSUME NEW w \in Seq(WireByte)
  PROVE  \A i \in 1..Len(w) : /\ w[i] \in WireByte /\ w[i].byte \in TelnetByte
                              /\ w[i].text \in Seq(TelnetByte)
<1>1. \A i \in 1..Len(w) : w[i] \in WireByte  BY ElementOfSeq
<1>2. \A x \in WireByte : x.byte \in TelnetByte /\ x.text \in Seq(TelnetByte)  BY DEF WireByte
<1>3. QED  BY <1>1, <1>2

LEMMA SeqOfFunction ==
  ASSUME NEW S, NEW n \in Nat, NEW f \in [1..n -> S]
  PROVE  f \in Seq(S) /\ Len(f) = n
OBVIOUS

LEMMA TextsOfType ==
  ASSUME NEW w \in Seq(WireByte)
  PROVE  /\ TextsOf(w) \in Seq(Seq(TelnetByte)) /\ Len(TextsOf(w)) = Len(w)
         /\ \A i \in 1..Len(w) : TextsOf(w)[i] = w[i].text
<1>1. PICK n \in Nat : n = Len(w)  BY LenProperties
<1>2. \A i \in 1..n : w[i].text \in Seq(TelnetByte)  BY <1>1, WireBytes
<1>3. PICK t : t = [i \in 1..n |-> w[i].text]  OBVIOUS
<1>4. t \in [1..n -> Seq(TelnetByte)]  BY <1>2, <1>3
<1>5. t \in Seq(Seq(TelnetByte)) /\ Len(t) = n  BY <1>4
<1>6. QED  BY <1>1, <1>3, <1>5 DEF TextsOf

\* What the codec makes of a chunk: the text that its bytes stand for.
LEMMA FeedCodecIs ==
  ASSUME NEW w \in Seq(WireByte), NEW st, Path(st, w), st[0] = codec.state,
         codec.state \in CodecStates, codec.taken \in SUBSET Supported
  PROVE  /\ FeedCodec(w).state = st[Len(w)]
         /\ FeedCodec(w).taken \in SUBSET Supported
         /\ FeedCodec(w).text = FlattenSeq(TextsOf(w))
<1>1. PICK n \in Nat : n = Len(w)  BY LenProperties
<1>2. \A i \in 1..n : w[i] \in WireByte /\ w[i].byte \in TelnetByte  BY <1>1, WireBytes
<1>3. PICK first : first = [state |-> codec.state, taken |-> codec.taken, text |-> <<>>, replies |-> <<>>]
  OBVIOUS
<1>4. first \in CodecRead /\ first.state = st[0] /\ first.text = <<>>  BY <1>3, EmptySeq DEF CodecRead
<1>5. PICK step : step = [p \in Nat \X CodecRead |->
                              IF p[1] < n THEN ReadByte(p[2], w[p[1] + 1].byte) ELSE p[2]]
  OBVIOUS
<1>6. \A i \in Nat, c \in CodecRead :
          step[<<i, c>>] = IF i < n THEN ReadByte(c, w[i + 1].byte) ELSE c
  BY <1>5
<1>7. step \in [Nat \X CodecRead -> CodecRead]
  <2>1. ASSUME NEW i \in Nat, NEW c \in CodecRead
        PROVE  (IF i < n THEN ReadByte(c, w[i + 1].byte) ELSE c) \in CodecRead
    <3>1. i < n => w[i + 1].byte \in TelnetByte  BY <1>2
    <3>2. QED  BY <3>1, ReadByteIs
  <2>2. QED  BY <1>5, <2>1
<1>8. PICK h : h \in [0..n -> CodecRead] /\ Runs(h, n, first, step)  BY <1>4, <1>7, RunExists
<1>9. \A i \in 0..n : i < n => h[i + 1] = ReadByte(h[i], w[i + 1].byte)
  <2>1. ASSUME NEW i \in 0..n, i < n PROVE h[i + 1] = ReadByte(h[i], w[i + 1].byte)
    <3>1. h[i + 1] = step[<<i, h[i]>>] /\ h[i] \in CodecRead /\ i \in Nat  BY <1>8, <2>1 DEF Runs
    <3>2. QED  BY <1>6, <2>1, <3>1
  <2>2. QED  BY <2>1
<1>10. h[0] = first  BY <1>8 DEF Runs
<1>11. h = [i \in 0..n |-> IF i = 0 THEN first ELSE ReadByte(h[i - 1], w[i].byte)]
  <2>1. ASSUME NEW i \in 0..n, i # 0 PROVE h[i] = ReadByte(h[i - 1], w[i].byte)
    <3>1. i - 1 \in 0..n /\ i - 1 < n /\ (i - 1) + 1 = i  BY <2>1
    <3>2. QED  BY <1>9, <3>1
  <2>2. \A i \in 0..n : h[i] = IF i = 0 THEN first ELSE ReadByte(h[i - 1], w[i].byte)  BY <1>10, <2>1
  <2>3. h = [i \in 0..n |-> h[i]]  BY <1>8
  <2>4. QED  BY <2>2, <2>3
<1>12. PICK g : g = CHOOSE f : f = [i \in 0..n |-> IF i = 0 THEN first ELSE ReadByte(f[i - 1], w[i].byte)]
  OBVIOUS
<1>13. FeedCodec(w) = g[n]  BY <1>1, <1>3, <1>12 DEF FeedCodec
<1>14. g = [i \in 0..n |-> IF i = 0 THEN first ELSE ReadByte(g[i - 1], w[i].byte)]  BY <1>11, <1>12
<1>15. PICK ts : ts = TextsOf(w)  OBVIOUS
<1>16. ts \in Seq(Seq(TelnetByte)) /\ Len(ts) = n /\ \A i \in 1..n : ts[i] = w[i].text
  BY <1>1, <1>15, TextsOfType
<1>17. PICK J : J \in [0..n -> Seq(TelnetByte)] /\ Sums(J, ts)  BY <1>16, SumsExist
<1>18. PICK Good : Good = {i \in Nat : i <= n => g[i] \in CodecRead /\ g[i].state = st[i] /\ g[i].text = J[i]}
  OBVIOUS
<1>19. 0 \in Good
  <2>1. 0 \in 0..n  OBVIOUS
  <2>2. g[0] = first  BY <1>14, <2>1
  <2>3. J[0] = <<>>  BY <1>17 DEF Sums
  <2>4. QED  BY <1>4, <1>18, <2>2, <2>3
<1>20. ASSUME NEW i \in Nat, i < n /\ i \in Good PROVE i + 1 \in Good
  <2>1. i + 1 \in 0..n /\ i + 1 # 0 /\ (i + 1) - 1 = i /\ i + 1 \in 1..n /\ i \in 0..n  BY <1>20
  <2>2. PICK c \in CodecRead : c = g[i]  BY <1>18, <1>20
  <2>3. c.state = st[i] /\ c.text = J[i]  BY <1>18, <1>20, <2>2
  <2>4. PICK b \in TelnetByte : b = w[i + 1].byte  BY <1>2, <2>1
  <2>5. g[i + 1] = ReadByte(c, b)  BY <1>14, <2>1, <2>2, <2>4
  <2>6. st[i + 1] = StateAfter(st[i], b) /\ w[i + 1].text = TextOf(st[i], b)
    BY <1>1, <1>20, <2>1, <2>4 DEF Path
  <2>7. J[i + 1] = J[i] \o ts[i + 1]  BY <1>16, <1>17, <2>1 DEF Sums
  <2>8. ts[i + 1] = TextOf(st[i], b)  BY <1>16, <2>1, <2>6
  <2>9. g[i + 1] \in CodecRead /\ g[i + 1].state = st[i + 1] /\ g[i + 1].text = J[i + 1]
    <3>1. /\ ReadByte(c, b) \in CodecRead /\ ReadByte(c, b).state = StateAfter(c.state, b)
          /\ ReadByte(c, b).text = c.text \o TextOf(c.state, b)
      BY ReadByteIs
    <3>2. QED  BY <2>3, <2>5, <2>6, <2>7, <2>8, <3>1, Zenon
  <2>10. QED  BY <1>18, <2>9
<1>21. n \in Good
  <2>1. \A i \in 0..n : i \in Good  BY <1>19, <1>20, CountUp
  <2>2. QED  BY <2>1
<1>22. g[n] \in CodecRead /\ g[n].state = st[n] /\ g[n].text = J[n]  BY <1>18, <1>21
<1>23. FlattenSeq(ts) = J[n]  BY <1>16, <1>17, FlattenIsSum
<1>24. g[n].taken \in SUBSET Supported  BY <1>22 DEF CodecRead
<1>25. QED  BY <1>1, <1>13, <1>15, <1>22, <1>23, <1>24

\* The bytes on their way lead the codec back to the plain text.
WireDecodes == \E st : Path(st, wire) /\ st[0] = codec.state /\ st[Len(wire)] = "data"

\* What the world sends takes the codec from plain text to plain text.
LEMMA ItemDecodes ==
  ASSUME NEW item \in WorldItems
  PROVE  /\ item \in Seq(WireByte)
         /\ \E st : Path(st, item) /\ st[0] = "data" /\ st[Len(item)] = "data"
<1>1. <<>> \in Seq(TelnetByte) /\ \A b \in TelnetByte : <<b>> \in Seq(TelnetByte)
  BY EmptySeq
<1>2. CASE item \in {<<Byte(c, <<c>>)>> : c \in {"text", "cr", "lf"}}
  <2>1. PICK c \in {"text", "cr", "lf"} : item = <<Byte(c, <<c>>)>>  BY <1>2
  <2>2. c \in TelnetByte /\ Byte(c, <<c>>) \in WireByte  BY <1>1 DEF Byte, WireByte, TelnetByte
  <2>3. item \in Seq(WireByte) /\ Len(item) = 1 /\ item[1] = Byte(c, <<c>>)  BY <2>1, <2>2
  <2>4. PICK st : st = [i \in 0..1 |-> "data"]  OBVIOUS
  <2>5. st[0] = "data" /\ st[1] = "data"  BY <2>4
  <2>6. item[1].byte = c /\ item[1].text = <<c>>  BY <2>3 DEF Byte
  <2>7. StateAfter("data", c) = "data" /\ TextOf("data", c) = <<c>>  BY DEF StateAfter, TextOf
  <2>8. \A i \in 0..1 : i < 1 => i = 0  OBVIOUS
  <2>9. st \in [0..1 -> CodecStates]  BY <2>4 DEF CodecStates
  <2>10. Path(st, item)  BY <2>3, <2>5, <2>6, <2>7, <2>8, <2>9 DEF Path
  <2>11. QED  BY <2>3, <2>5, <2>10
<1>3. CASE item = <<Byte("iac", <<>>), Byte("iac", <<"iac">>)>>
  <2>1. "iac" \in TelnetByte  BY DEF TelnetByte
  <2>2. Byte("iac", <<>>) \in WireByte /\ Byte("iac", <<"iac">>) \in WireByte
    BY <1>1, <2>1 DEF Byte, WireByte
  <2>3. /\ item \in Seq(WireByte) /\ Len(item) = 2
        /\ item[1] = Byte("iac", <<>>) /\ item[2] = Byte("iac", <<"iac">>)
    BY <1>3, <2>2
  <2>4. PICK st : st = [i \in 0..2 |-> IF i = 1 THEN "iac" ELSE "data"]  OBVIOUS
  <2>5. st[0] = "data" /\ st[1] = "iac" /\ st[2] = "data"  BY <2>4
  <2>6. item[1].byte = "iac" /\ item[1].text = <<>> /\ item[2].byte = "iac" /\ item[2].text = <<"iac">>
    BY <2>3 DEF Byte
  <2>7. /\ StateAfter("data", "iac") = "iac" /\ TextOf("data", "iac") = <<>>
        /\ StateAfter("iac", "iac") = "data" /\ TextOf("iac", "iac") = <<"iac">>
    BY DEF StateAfter, TextOf
  <2>8. \A i \in 0..2 : i < 2 => i = 0 \/ i = 1  OBVIOUS
  <2>9. st \in [0..2 -> CodecStates]  BY <2>4 DEF CodecStates
  <2>10. Path(st, item)  BY <2>3, <2>5, <2>6, <2>7, <2>8, <2>9 DEF Path
  <2>11. QED  BY <2>3, <2>5, <2>10
<1>4. CASE item = ControlBytes(<<"iac", "nop">>)
  <2>1. "iac" \in TelnetByte /\ "nop" \in TelnetByte  BY DEF TelnetByte
  <2>2. Byte("iac", <<>>) \in WireByte /\ Byte("nop", <<>>) \in WireByte  BY <1>1, <2>1 DEF Byte, WireByte
  <2>3. item = [i \in 1..2 |-> Byte(<<"iac", "nop">>[i], <<>>)]  BY <1>4 DEF ControlBytes
  <2>4. item[1] = Byte("iac", <<>>) /\ item[2] = Byte("nop", <<>>)  BY <2>3
  <2>5. item \in [1..2 -> WireByte]
    <3>1. \A i \in 1..2 : i = 1 \/ i = 2  OBVIOUS
    <3>2. \A i \in 1..2 : item[i] \in WireByte  BY <2>2, <2>4, <3>1
    <3>3. QED  BY <2>3, <3>2
  <2>6. item \in Seq(WireByte) /\ Len(item) = 2  BY <2>5, SeqOfFunction
  <2>7. PICK st : st = [i \in 0..2 |-> IF i = 1 THEN "iac" ELSE "data"]  OBVIOUS
  <2>8. st[0] = "data" /\ st[1] = "iac" /\ st[2] = "data"  BY <2>7
  <2>9. item[1].byte = "iac" /\ item[1].text = <<>> /\ item[2].byte = "nop" /\ item[2].text = <<>>
    BY <2>4 DEF Byte
  <2>10. /\ StateAfter("data", "iac") = "iac" /\ TextOf("data", "iac") = <<>>
         /\ StateAfter("iac", "nop") = "data" /\ TextOf("iac", "nop") = <<>>
    BY DEF StateAfter, TextOf
  <2>11. \A i \in 0..2 : i < 2 => i = 0 \/ i = 1  OBVIOUS
  <2>12. st \in [0..2 -> CodecStates]  BY <2>7 DEF CodecStates
  <2>13. Path(st, item)  BY <2>6, <2>8, <2>9, <2>10, <2>11, <2>12 DEF Path
  <2>14. QED  BY <2>6, <2>8, <2>13
<1>5. CASE item = ControlBytes(<<"iac", "sb", "text", "iac", "iac", "text", "iac", "se">>)
  <2>1. PICK s : s = <<"iac", "sb", "text", "iac", "iac", "text", "iac", "se">>  OBVIOUS
  <2>2. /\ s \in Seq(TelnetByte) /\ Len(s) = 8 /\ DOMAIN s = 1..8
        /\ s[1] = "iac" /\ s[2] = "sb" /\ s[3] = "text" /\ s[4] = "iac"
        /\ s[5] = "iac" /\ s[6] = "text" /\ s[7] = "iac" /\ s[8] = "se"
    BY <2>1 DEF TelnetByte
  <2>3. item = [i \in 1..8 |-> Byte(s[i], <<>>)]  BY <1>5, <2>1, <2>2 DEF ControlBytes
  <2>4. \A i \in 1..8 : Byte(s[i], <<>>) \in WireByte
    <3>1. \A i \in 1..8 : s[i] \in TelnetByte  BY <2>2, ElementOfSeq
    <3>2. QED  BY <1>1, <3>1 DEF Byte, WireByte
  <2>5. item \in [1..8 -> WireByte]  BY <2>3, <2>4
  <2>6. item \in Seq(WireByte) /\ Len(item) = 8  BY <2>5, SeqOfFunction
  <2>7. \A i \in 1..8 : item[i].byte = s[i] /\ item[i].text = <<>>  BY <2>3 DEF Byte
  <2>8. PICK p : p = <<"data", "iac", "option", "sub", "sub iac", "sub", "sub", "sub iac", "data">>
    OBVIOUS
  <2>9. PICK st : /\ st = [i \in 0..8 |-> p[i + 1]]
                  /\ st[0] = "data" /\ st[1] = "iac" /\ st[2] = "option" /\ st[3] = "sub"
                  /\ st[4] = "sub iac" /\ st[5] = "sub" /\ st[6] = "sub" /\ st[7] = "sub iac"
                  /\ st[8] = "data"
    <3>1. PICK st : st = [i \in 0..8 |-> p[i + 1]]  OBVIOUS
    <3>2. st[0] = p[1] /\ st[1] = p[2] /\ st[2] = p[3] /\ st[3] = p[4] /\ st[4] = p[5]
      BY <3>1
    <3>3. st[5] = p[6] /\ st[6] = p[7] /\ st[7] = p[8] /\ st[8] = p[9]
      BY <3>1
    <3>4. p[1] = "data" /\ p[2] = "iac" /\ p[3] = "option" /\ p[4] = "sub" /\ p[5] = "sub iac"
      BY <2>8
    <3>5. p[6] = "sub" /\ p[7] = "sub" /\ p[8] = "sub iac" /\ p[9] = "data"
      BY <2>8
    <3>6. /\ st[0] = "data" /\ st[1] = "iac" /\ st[2] = "option" /\ st[3] = "sub"
          /\ st[4] = "sub iac"
      BY <3>2, <3>4
    <3>7. st[5] = "sub" /\ st[6] = "sub" /\ st[7] = "sub iac" /\ st[8] = "data"
      BY <3>3, <3>5
    <3>8. QED  BY <3>1, <3>6, <3>7
  <2>10. \A i \in 0..8 : i \in {0, 1, 2, 3, 4, 5, 6, 7, 8}  OBVIOUS
  <2>11. st \in [0..8 -> CodecStates]
    <3>1. \A i \in 0..8 : st[i] \in CodecStates  BY <2>9, <2>10 DEF CodecStates
    <3>2. QED  BY <2>9, <3>1
  <2>12. /\ StateAfter("data", "iac") = "iac" /\ TextOf("data", "iac") = <<>>
         /\ StateAfter("iac", "sb") = "option" /\ TextOf("iac", "sb") = <<>>
         /\ StateAfter("option", "text") = "sub" /\ TextOf("option", "text") = <<>>
         /\ StateAfter("sub", "iac") = "sub iac" /\ TextOf("sub", "iac") = <<>>
         /\ StateAfter("sub iac", "iac") = "sub" /\ TextOf("sub iac", "iac") = <<>>
         /\ StateAfter("sub", "text") = "sub" /\ TextOf("sub", "text") = <<>>
         /\ StateAfter("sub iac", "se") = "data" /\ TextOf("sub iac", "se") = <<>>
    BY DEF StateAfter, TextOf
  <2>13. ASSUME NEW i \in 0..8, i < 8
         PROVE  st[i + 1] = StateAfter(st[i], s[i + 1]) /\ TextOf(st[i], s[i + 1]) = <<>>
    <3>1. i \in {0, 1, 2, 3, 4, 5, 6, 7}  BY <2>13
    <3>2. CASE i = 0
      <4>1. i + 1 = 1  BY <3>2
      <4>2. QED  BY <2>2, <2>9, <2>12, <3>2, <4>1
    <3>3. CASE i = 1
      <4>1. i + 1 = 2  BY <3>3
      <4>2. QED  BY <2>2, <2>9, <2>12, <3>3, <4>1
    <3>4. CASE i = 2
      <4>1. i + 1 = 3  BY <3>4
      <4>2. QED  BY <2>2, <2>9, <2>12, <3>4, <4>1
    <3>5. CASE i = 3
      <4>1. i + 1 = 4  BY <3>5
      <4>2. QED  BY <2>2, <2>9, <2>12, <3>5, <4>1
    <3>6. CASE i = 4
      <4>1. i + 1 = 5  BY <3>6
      <4>2. QED  BY <2>2, <2>9, <2>12, <3>6, <4>1
    <3>7. CASE i = 5
      <4>1. i + 1 = 6  BY <3>7
      <4>2. QED  BY <2>2, <2>9, <2>12, <3>7, <4>1
    <3>8. CASE i = 6
      <4>1. i + 1 = 7  BY <3>8
      <4>2. QED  BY <2>2, <2>9, <2>12, <3>8, <4>1
    <3>9. CASE i = 7
      <4>1. i + 1 = 8  BY <3>9
      <4>2. QED  BY <2>2, <2>9, <2>12, <3>9, <4>1
    <3>10. QED  BY <3>1, <3>2, <3>3, <3>4, <3>5, <3>6, <3>7, <3>8, <3>9
  <2>14. Path(st, item)
    <3>1. \A i \in 0..8 : i < 8 => i + 1 \in 1..8  OBVIOUS
    <3>2. QED  BY <2>6, <2>7, <2>11, <2>13, <3>1 DEF Path
  <2>15. QED  BY <2>6, <2>9, <2>14
<1>6. CASE item \in {ControlBytes(<<"iac", "do", o>>) : o \in Supported \cup Unsupported}
  <2>1. PICK o \in TelnetByte : item = ControlBytes(<<"iac", "do", o>>)  BY <1>6 DEF TelnetByte
  <2>2. PICK s : s = <<"iac", "do", o>>  OBVIOUS
  <2>3. "iac" \in TelnetByte /\ "do" \in TelnetByte  BY DEF TelnetByte
  <2>4. DOMAIN s = 1..3 /\ s[1] = "iac" /\ s[2] = "do" /\ s[3] = o  BY <2>2
  <2>5. item = [i \in 1..3 |-> Byte(s[i], <<>>)]  BY <2>1, <2>2, <2>4 DEF ControlBytes
  <2>6. \A i \in 1..3 : Byte(s[i], <<>>) \in WireByte
    <3>1. \A i \in 1..3 : i = 1 \/ i = 2 \/ i = 3  OBVIOUS
    <3>2. \A i \in 1..3 : s[i] \in TelnetByte  BY <2>3, <2>4, <3>1
    <3>3. QED  BY <1>1, <3>2 DEF Byte, WireByte
  <2>7. item \in [1..3 -> WireByte]  BY <2>5, <2>6
  <2>8. item \in Seq(WireByte) /\ Len(item) = 3  BY <2>7, SeqOfFunction
  <2>9. \A i \in 1..3 : item[i].byte = s[i] /\ item[i].text = <<>>  BY <2>5 DEF Byte
  <2>10. PICK st : st = [i \in 0..3 |-> IF i = 1 THEN "iac" ELSE IF i = 2 THEN "negotiation" ELSE "data"]
    OBVIOUS
  <2>11. st[0] = "data" /\ st[1] = "iac" /\ st[2] = "negotiation" /\ st[3] = "data"  BY <2>10
  <2>12. st \in [0..3 -> CodecStates]  BY <2>10 DEF CodecStates
  <2>13. /\ StateAfter("data", "iac") = "iac" /\ TextOf("data", "iac") = <<>>
         /\ StateAfter("iac", "do") = "negotiation" /\ TextOf("iac", "do") = <<>>
         /\ StateAfter("negotiation", o) = "data" /\ TextOf("negotiation", o) = <<>>
    BY DEF StateAfter, TextOf
  <2>14. ASSUME NEW i \in 0..3, i < 3
         PROVE  st[i + 1] = StateAfter(st[i], s[i + 1]) /\ TextOf(st[i], s[i + 1]) = <<>>
    <3>1. i = 0 \/ i = 1 \/ i = 2  BY <2>14
    <3>2. QED  BY <2>4, <2>11, <2>13, <3>1
  <2>15. Path(st, item)
    <3>1. \A i \in 0..3 : i < 3 => i + 1 \in 1..3  OBVIOUS
    <3>2. QED  BY <2>8, <2>9, <2>12, <2>14, <3>1 DEF Path
  <2>16. QED  BY <2>8, <2>11, <2>15
<1>7. QED  BY <1>2, <1>3, <1>4, <1>5, <1>6 DEF WorldItems

(* The framer: what is cut when the characters have been seen one by one. *)
CutState == [start : Nat \ {0}, out : Seq(Seq(TelnetByte))]
NothingCut == [start |-> 1, out |-> <<>>]
Cuts(R, text) == /\ R[0] = NothingCut
                 /\ \A i \in 0..Len(text) : i < Len(text) => R[i + 1] = CutAt(text, R[i], i + 1)

\* The two halves of a step: a full frame is cut before the character, a line end closes its
\* frame.
Filled(text, f, i) ==
    IF i - f.start >= FrameLimit
    THEN [start |-> i, out |-> Append(f.out, SubSeq(text, f.start, i - 1))] ELSE f
Ends(text, i) == text[i] = "lf" \/ (text[i] = "cr" /\ i < Len(text))
EndAt(text, i) == IF text[i] = "cr" /\ i < Len(text) /\ text[i + 1] = "lf" THEN i + 1 ELSE i
Closed(text, g, i) ==
    IF Ends(text, i)
    THEN [start |-> EndAt(text, i) + 1, out |-> Append(g.out, SubSeq(text, g.start, EndAt(text, i)))]
    ELSE g

LEMMA CutAtIs ==
  ASSUME NEW text, NEW f, NEW i
  PROVE  CutAt(text, f, i) = IF i < f.start THEN f ELSE Closed(text, Filled(text, f, i), i)
BY DEF CutAt, Closed, Filled, Ends, EndAt

LEMMA PieceType ==
  ASSUME NEW text \in Seq(TelnetByte), NEW a \in Nat \ {0}, NEW b \in Nat, b <= Len(text)
  PROVE  SubSeq(text, a, b) \in Seq(TelnetByte)
<1>1. \A i \in a..b : text[i] \in TelnetByte
  <2>1. Len(text) \in Nat  BY LenProperties
  <2>2. \A i \in a..b : i \in 1..Len(text)  BY <2>1
  <2>3. QED  BY <2>2, ElementOfSeq
<1>2. a \in Int /\ b \in Int  OBVIOUS
<1>3. QED  BY <1>1, <1>2, SubSeqProperties

LEMMA EndAtRange ==
  ASSUME NEW text \in Seq(TelnetByte), NEW i \in 1..Len(text)
  PROVE  EndAt(text, i) \in Nat /\ i <= EndAt(text, i) /\ EndAt(text, i) <= Len(text)
<1>1. PICK n \in Nat : n = Len(text)  BY LenProperties
<1>2. i \in 1..n  BY <1>1
<1>3. CASE text[i] = "cr" /\ i < n /\ text[i + 1] = "lf"
  <2>1. EndAt(text, i) = i + 1  BY <1>1, <1>3 DEF EndAt
  <2>2. QED  BY <1>1, <1>2, <1>3, <2>1
<1>4. CASE ~(text[i] = "cr" /\ i < n /\ text[i + 1] = "lf")
  <2>1. EndAt(text, i) = i  BY <1>1, <1>4 DEF EndAt
  <2>2. QED  BY <1>1, <1>2, <2>1
<1>5. QED  BY <1>3, <1>4

\* A frame cut off: what is cut is what stands before the new start.
CutSoFar(text, f) ==
    f \in CutState /\ f.start <= Len(text) + 1 /\ FlattenSeq(f.out) = SubSeq(text, 1, f.start - 1)

LEMMA CutPair ==
  ASSUME NEW l \in Nat \ {0}, NEW q \in Seq(Seq(TelnetByte)), NEW g, g = [start |-> l, out |-> q]
  PROVE  g \in CutState /\ g.start = l /\ g.out = q
<1>1. PICK A : A = Seq(Seq(TelnetByte))  OBVIOUS
<1>2. q \in A  BY <1>1
<1>3. g \in [start : Nat \ {0}, out : A]  BY <1>2
<1>4. QED  BY <1>1, <1>3 DEF CutState

LEMMA PieceCut ==
  ASSUME NEW text \in Seq(TelnetByte), NEW f, CutSoFar(text, f),
         NEW b \in Nat, f.start <= b + 1, b <= Len(text),
         NEW g, g = [start |-> b + 1, out |-> Append(f.out, SubSeq(text, f.start, b))]
  PROVE  CutSoFar(text, g)
<1>1. PICK n \in Nat : n = Len(text)  BY LenProperties
<1>2. PICK a \in Nat \ {0}, o \in Seq(Seq(TelnetByte)) : f.start = a /\ f.out = o  BY DEF CutSoFar, CutState
<1>3. PICK p \in Seq(TelnetByte) : p = SubSeq(text, a, b)  BY <1>2, PieceType
<1>4. g = [start |-> b + 1, out |-> Append(o, p)]  BY <1>2, <1>3
<1>5. Append(o, p) \in Seq(Seq(TelnetByte)) /\ Append(o, p) = o \o <<p>>
  BY AppendProperties, AppendIsConcat
<1>6. g \in CutState /\ g.start = b + 1 /\ g.out = o \o <<p>>
  <2>1. PICK q \in Seq(Seq(TelnetByte)) : q = Append(o, p)  BY <1>5
  <2>2. PICK l \in Nat \ {0} : l = b + 1  OBVIOUS
  <2>3. g = [start |-> l, out |-> q]  BY <1>4, <2>1, <2>2
  <2>4. g \in CutState /\ g.start = l /\ g.out = q  BY <2>3, CutPair, ZenonT(40)
  <2>5. QED  BY <1>5, <2>1, <2>2, <2>4
<1>7. FlattenSeq(o \o <<p>>) = FlattenSeq(o) \o p
  <2>1. <<p>> \in Seq(Seq(TelnetByte))  OBVIOUS
  <2>2. FlattenSeq(o \o <<p>>) = FlattenSeq(o) \o FlattenSeq(<<p>>)  BY <2>1, FlattenConcat
  <2>3. FlattenSeq(<<p>>) = p  BY FlattenOne
  <2>4. QED  BY <2>2, <2>3
<1>8. FlattenSeq(o) = SubSeq(text, 1, a - 1)  BY <1>2 DEF CutSoFar
<1>9. SubSeq(text, 1, a - 1) \o SubSeq(text, a, b) = SubSeq(text, 1, b)
  <2>1. PICK k \in Nat : k = a - 1 /\ k + 1 = a  BY <1>2
  <2>2. 1 \in 1..(Len(text) + 1) /\ k \in (1 - 1)..Len(text) /\ b \in k..Len(text)
    BY <1>1, <1>2, <2>1
  <2>3. SubSeq(text, 1, k) \o SubSeq(text, k + 1, b) = SubSeq(text, 1, b)
    BY <2>2, ConcatAdjacentSubSeq
  <2>4. QED  BY <2>1, <2>3
<1>10. FlattenSeq(g.out) = SubSeq(text, 1, b)  BY <1>3, <1>6, <1>7, <1>8, <1>9
<1>11. g.start - 1 = b /\ g.start <= Len(text) + 1  BY <1>1, <1>6
<1>12. QED  BY <1>6, <1>10, <1>11 DEF CutSoFar

LEMMA CutKeeps ==
  ASSUME NEW text \in Seq(TelnetByte), NEW f, CutSoFar(text, f), NEW i \in 1..Len(text)
  PROVE  CutSoFar(text, CutAt(text, f, i))
<1>1. PICK n \in Nat : n = Len(text)  BY LenProperties
<1>2. PICK a \in Nat \ {0} : f.start = a  BY DEF CutSoFar, CutState
<1>3. i \in Nat /\ 1 <= i /\ i <= n  BY <1>1
<1>4. CASE i < a
  <2>1. CutAt(text, f, i) = f  BY <1>2, <1>4, CutAtIs
  <2>2. QED  BY <2>1
<1>5. CASE ~(i < a)
  <2>1. PICK g : g = Filled(text, f, i)  OBVIOUS
  <2>2. CutSoFar(text, g) /\ g.start \in Nat /\ g.start <= i
    <3>1. CASE i - a >= FrameLimit
      <4>1. PICK b \in Nat : b = i - 1 /\ b + 1 = i  BY <1>3
      <4>2. g = [start |-> b + 1, out |-> Append(f.out, SubSeq(text, f.start, b))]
        BY <1>2, <2>1, <3>1, <4>1 DEF Filled
      <4>3. f.start <= b + 1 /\ b <= Len(text)  BY <1>1, <1>2, <1>3, <1>5, <4>1
      <4>4. CutSoFar(text, g)  BY <4>2, <4>3, PieceCut
      <4>5. g.start = i  BY <4>1, <4>2
      <4>6. QED  BY <1>3, <4>4, <4>5
    <3>2. CASE ~(i - a >= FrameLimit)
      <4>1. g = f  BY <1>2, <2>1, <3>2 DEF Filled
      <4>2. QED  BY <1>2, <1>3, <1>5, <4>1
    <3>3. QED  BY <3>1, <3>2
  <2>3. CutAt(text, f, i) = Closed(text, g, i)  BY <1>2, <1>5, <2>1, CutAtIs
  <2>4. CASE Ends(text, i)
    <3>1. PICK b \in Nat : b = EndAt(text, i) /\ i <= b /\ b <= Len(text)  BY EndAtRange
    <3>2. PICK h : h = [start |-> b + 1, out |-> Append(g.out, SubSeq(text, g.start, b))]  OBVIOUS
    <3>3. g.start <= b + 1  BY <1>3, <2>2, <3>1
    <3>4. CutSoFar(text, h)  BY <2>2, <3>1, <3>2, <3>3, PieceCut
    <3>5. Closed(text, g, i) = h  BY <2>4, <3>1, <3>2 DEF Closed
    <3>6. QED  BY <2>3, <3>4, <3>5
  <2>5. CASE ~Ends(text, i)
    <3>1. Closed(text, g, i) = g  BY <2>5 DEF Closed
    <3>2. QED  BY <2>2, <2>3, <3>1
  <2>6. QED  BY <2>4, <2>5
<1>6. QED  BY <1>4, <1>5

\* FeedFramer is the last of the cuts, whoever does them.
LEMMA CutsExist ==
  ASSUME NEW text \in Seq(TelnetByte)
  PROVE  \E R : Cuts(R, text) /\ \A i \in 0..Len(text) : CutSoFar(text, R[i])
<1>1. PICK n \in Nat : n = Len(text)  BY LenProperties
<1>2. PICK C : C = {f \in CutState : CutSoFar(text, f)}  OBVIOUS
<1>3. NothingCut \in C
  <2>1. <<>> \in Seq(Seq(TelnetByte))  BY EmptySeq
  <2>2. NothingCut \in CutState /\ NothingCut.start = 1 /\ NothingCut.out = <<>>
    BY <2>1 DEF NothingCut, CutState
  <2>3. FlattenSeq(<<>>) = <<>>  BY EmptySeq DEF FlattenSeq
  <2>4. SubSeq(text, 1, 1 - 1) = <<>>  BY SubSeqEmpty
  <2>5. CutSoFar(text, NothingCut)
    <3>1. NothingCut.start <= Len(text) + 1  BY <1>1, <2>2
    <3>2. NothingCut.start - 1 = 1 - 1  BY <2>2
    <3>3. FlattenSeq(NothingCut.out) = SubSeq(text, 1, NothingCut.start - 1)
      BY <2>2, <2>3, <2>4, <3>2
    <3>4. QED  BY <2>2, <3>1, <3>3 DEF CutSoFar
  <2>6. QED  BY <1>2, <2>2, <2>5
<1>4. PICK step : step = [p \in Nat \X C |-> IF p[1] < n THEN CutAt(text, p[2], p[1] + 1) ELSE p[2]]
  OBVIOUS
<1>5. \A i \in Nat, f \in C : step[<<i, f>>] = IF i < n THEN CutAt(text, f, i + 1) ELSE f
  BY <1>4
<1>6. step \in [Nat \X C -> C]
  <2>1. ASSUME NEW i \in Nat, NEW f \in C
        PROVE  (IF i < n THEN CutAt(text, f, i + 1) ELSE f) \in C
    <3>1. CASE i < n
      <4>1. PICK j \in 1..Len(text) : j = i + 1  BY <1>1, <3>1
      <4>2. CutSoFar(text, f)  BY <1>2
      <4>3. CutSoFar(text, CutAt(text, f, j))  BY <4>2, CutKeeps
      <4>4. CutAt(text, f, j) \in C  BY <1>2, <4>3 DEF CutSoFar
      <4>5. QED  BY <3>1, <4>1, <4>4
    <3>2. CASE ~(i < n)  BY <3>2
    <3>3. QED  BY <3>1, <3>2
  <2>2. QED  BY <1>4, <2>1
<1>7. PICK R : R \in [0..n -> C] /\ Runs(R, n, NothingCut, step)  BY <1>3, <1>6, RunExists
<1>8. \A i \in 0..n : i < n => R[i + 1] = CutAt(text, R[i], i + 1)
  <2>1. ASSUME NEW i \in 0..n, i < n PROVE R[i + 1] = CutAt(text, R[i], i + 1)
    <3>1. R[i + 1] = step[<<i, R[i]>>] /\ R[i] \in C /\ i \in Nat  BY <1>7, <2>1 DEF Runs
    <3>2. QED  BY <1>5, <2>1, <3>1
  <2>2. QED  BY <2>1
<1>9. R[0] = NothingCut  BY <1>7 DEF Runs
<1>10. Cuts(R, text)  BY <1>1, <1>8, <1>9 DEF Cuts
<1>11. \A i \in 0..Len(text) : CutSoFar(text, R[i])
  <2>1. \A i \in 0..n : R[i] \in C  BY <1>7
  <2>2. QED  BY <1>1, <1>2, <2>1
<1>12. QED  BY <1>10, <1>11

LEMMA CutsUnique ==
  ASSUME NEW text \in Seq(TelnetByte), NEW R, NEW Q, Cuts(R, text), Cuts(Q, text)
  PROVE  \A i \in 0..Len(text) : R[i] = Q[i]
<1>1. PICK n \in Nat : n = Len(text)  BY LenProperties
<1>2. PICK Good : Good = {i \in Nat : i <= n => R[i] = Q[i]}  OBVIOUS
<1>3. 0 \in Good  BY <1>2 DEF Cuts
<1>4. ASSUME NEW i \in Nat, i < n /\ i \in Good PROVE i + 1 \in Good
  <2>1. i \in 0..n  BY <1>4
  <2>2. R[i + 1] = CutAt(text, R[i], i + 1) /\ Q[i + 1] = CutAt(text, Q[i], i + 1)
    BY <1>1, <1>4, <2>1 DEF Cuts
  <2>3. R[i] = Q[i]  BY <1>2, <1>4
  <2>4. QED  BY <1>2, <2>2, <2>3
<1>5. \A i \in 0..n : i \in Good  BY <1>3, <1>4, CountUp
<1>6. QED  BY <1>1, <1>2, <1>5

LEMMA CutsSound ==
  ASSUME NEW text \in Seq(TelnetByte), NEW R, Cuts(R, text), NEW n, n = Len(text)
  PROVE  \A i \in 0..n : CutSoFar(text, R[i])
<1>1. PICK Q : Cuts(Q, text) /\ \A i \in 0..Len(text) : CutSoFar(text, Q[i])  BY CutsExist
<1>2. \A i \in 0..n : R[i] = Q[i]  BY <1>1, CutsUnique
<1>3. QED  BY <1>1, <1>2

FramedBy(R, n, text) ==
    FeedFramer(text).out = R[n].out /\ FeedFramer(text).rest = SubSeq(text, R[n].start, n)

LEMMA FeedFramerIs ==
  ASSUME NEW text \in Seq(TelnetByte), NEW R, Cuts(R, text), NEW n, n = Len(text)
  PROVE  FramedBy(R, n, text)
<1>1. n \in Nat  BY LenProperties
<1>2. PICK h : h = [i \in 0..n |-> R[i]]  OBVIOUS
<1>3. h = [i \in 0..n |-> IF i = 0 THEN NothingCut ELSE CutAt(text, h[i - 1], i)]
  <2>1. h[0] = NothingCut  BY <1>1, <1>2 DEF Cuts
  <2>2. ASSUME NEW i \in 0..n, i # 0 PROVE h[i] = CutAt(text, h[i - 1], i)
    <3>1. i - 1 \in 0..n /\ i - 1 < n /\ (i - 1) + 1 = i  BY <1>1, <2>2
    <3>2. R[i] = CutAt(text, R[i - 1], i)  BY <3>1 DEF Cuts
    <3>3. QED  BY <1>2, <3>1, <3>2
  <2>3. \A i \in 0..n : h[i] = IF i = 0 THEN NothingCut ELSE CutAt(text, h[i - 1], i)  BY <2>1, <2>2
  <2>4. h = [i \in 0..n |-> h[i]]  BY <1>2
  <2>5. QED  BY <2>3, <2>4
<1>4. PICK g : g = CHOOSE f : f = [i \in 0..n |-> IF i = 0 THEN NothingCut ELSE CutAt(text, f[i - 1], i)]
  OBVIOUS
<1>5. g = [i \in 0..n |-> IF i = 0 THEN NothingCut ELSE CutAt(text, g[i - 1], i)]  BY <1>3, <1>4
<1>6. FeedFramer(text) = [out |-> g[n].out, rest |-> SubSeq(text, g[n].start, n)]
  BY <1>4 DEF FeedFramer, NothingCut
<1>7. Cuts(g, text)
  <2>1. 0 \in 0..n  BY <1>1
  <2>2. g[0] = NothingCut  BY <1>5, <2>1
  <2>3. ASSUME NEW i \in 0..n, i < n PROVE g[i + 1] = CutAt(text, g[i], i + 1)
    <3>1. i + 1 \in 0..n /\ i + 1 # 0 /\ (i + 1) - 1 = i  BY <1>1, <2>3
    <3>2. QED  BY <1>5, <3>1
  <2>4. QED  BY <2>2, <2>3 DEF Cuts
<1>8. g[n] = R[n]
  <2>1. \A i \in 0..n : g[i] = R[i]  BY <1>7, CutsUnique
  <2>2. n \in 0..n  BY <1>1
  <2>3. QED  BY <2>1, <2>2
<1>9. PICK o, r : o = g[n].out /\ r = SubSeq(text, g[n].start, n)  OBVIOUS
<1>10. FeedFramer(text) = [out |-> o, rest |-> r]  BY <1>6, <1>9
<1>11. FeedFramer(text).out = o /\ FeedFramer(text).rest = r  BY <1>10
<1>12. QED  BY <1>8, <1>9, <1>11 DEF FramedBy

Began(text, R, s, n) ==
    /\ s \in 1..n /\ R[s - 1].start <= s /\ ~Ends(text, s)
    /\ Filled(text, R[s - 1], s) = R[n]

\* Where nothing has been cut since the start of a frame: the frame began with the character at
\* its start, which ends no line.
LEMMA LastCut ==
  ASSUME NEW text \in Seq(TelnetByte), NEW R, Cuts(R, text), NEW n, n = Len(text),
         NEW s, s = R[n].start, s <= n
  PROVE  Began(text, R, s, n)
<1>1. n \in Nat  BY LenProperties
<1>2. \A i \in 0..n : CutSoFar(text, R[i])  BY CutsSound
<1>3. \A i \in 0..n : R[i].start \in Nat \ {0}  BY <1>2 DEF CutSoFar, CutState
<1>4. PICK S : S = [i \in 0..n |-> R[i].start]  OBVIOUS
<1>5. \A i \in 0..n : S[i] \in Nat \ {0} /\ S[i] = R[i].start  BY <1>3, <1>4
<1>6. PICK Good : Good = {i \in Nat : i <= n /\ S[i] <= i =>
                              /\ S[S[i] - 1] <= S[i] /\ ~Ends(text, S[i])
                              /\ Filled(text, R[S[i] - 1], S[i]) = R[i]}
  OBVIOUS
<1>7. 0 \in Good
  <2>1. S[0] \in Nat \ {0}  BY <1>1, <1>5
  <2>2. ~(S[0] <= 0)  BY <2>1
  <2>3. QED  BY <1>6, <2>2
<1>8. ASSUME NEW i \in Nat, i < n /\ i \in Good PROVE i + 1 \in Good
  <2>1. PICK j : j = i + 1  OBVIOUS
  <2>2. i \in 0..n /\ j \in 0..n /\ j \in 1..n /\ j - 1 = i  BY <1>1, <1>8, <2>1
  <2>3. R[j] = CutAt(text, R[i], j)  BY <1>8, <2>1, <2>2 DEF Cuts
  <2>4. S[i] \in Nat \ {0} /\ S[j] \in Nat \ {0} /\ S[i] = R[i].start /\ S[j] = R[j].start
    BY <1>5, <2>2
  <2>5. CASE j < S[i]
    <3>1. R[j] = R[i]  BY <2>3, <2>4, <2>5, CutAtIs
    <3>2. ~(S[j] <= j)  BY <2>2, <2>4, <2>5, <3>1
    <3>3. QED  BY <1>6, <2>1, <2>2, <3>2
  <2>6. CASE ~(j < S[i])
    <3>1. PICK g : g = Filled(text, R[i], j)  OBVIOUS
    <3>2. R[j] = Closed(text, g, j)  BY <2>3, <2>4, <2>6, <3>1, CutAtIs
    <3>3. CASE Ends(text, j)
      <4>1. R[j].start = EndAt(text, j) + 1  BY <3>2, <3>3 DEF Closed
      <4>2. EndAt(text, j) \in Nat /\ j <= EndAt(text, j)  BY <2>2, EndAtRange
      <4>3. ~(S[j] <= j)  BY <2>2, <2>4, <4>1, <4>2
      <4>4. QED  BY <1>6, <2>1, <2>2, <4>3
    <3>4. CASE ~Ends(text, j)
      <4>1. R[j] = g  BY <3>2, <3>4 DEF Closed
      <4>2. CASE j - S[i] >= FrameLimit
        <5>1. g.start = j  BY <2>4, <3>1, <4>2 DEF Filled
        <5>2. S[j] = j  BY <2>4, <4>1, <5>1
        <5>3. /\ S[S[j] - 1] <= S[j] /\ ~Ends(text, S[j])
              /\ Filled(text, R[S[j] - 1], S[j]) = R[j]
          BY <2>2, <2>4, <2>6, <3>1, <3>4, <4>1, <5>2
        <5>4. QED  BY <1>6, <2>1, <2>2, <5>3
      <4>3. CASE ~(j - S[i] >= FrameLimit)
        <5>1. g = R[i] /\ R[j] = R[i] /\ S[j] = S[i]  BY <2>4, <3>1, <4>1, <4>3 DEF Filled
        <5>2. CASE S[i] <= i
          <6>1. /\ S[S[i] - 1] <= S[i] /\ ~Ends(text, S[i])
                /\ Filled(text, R[S[i] - 1], S[i]) = R[i]
            BY <1>6, <1>8, <2>2, <5>2
          <6>2. /\ S[S[j] - 1] <= S[j] /\ ~Ends(text, S[j])
                /\ Filled(text, R[S[j] - 1], S[j]) = R[j]
            BY <5>1, <6>1
          <6>3. QED  BY <1>6, <2>1, <2>2, <6>2
        <5>3. CASE ~(S[i] <= i)
          <6>1. S[i] = j /\ S[j] = j  BY <2>2, <2>4, <2>6, <5>1, <5>3
          <6>2. S[j - 1] <= j  BY <2>2, <6>1
          <6>3. Filled(text, R[j - 1], j) = R[j]  BY <2>2, <3>1, <5>1
          <6>4. /\ S[S[j] - 1] <= S[j] /\ ~Ends(text, S[j])
                /\ Filled(text, R[S[j] - 1], S[j]) = R[j]
            BY <3>4, <6>1, <6>2, <6>3
          <6>5. QED  BY <1>6, <2>1, <2>2, <6>4
        <5>4. QED  BY <5>2, <5>3
      <4>4. QED  BY <4>2, <4>3
    <3>5. QED  BY <3>3, <3>4
  <2>7. QED  BY <2>5, <2>6
<1>9. n \in Good
  <2>1. \A i \in 0..n : i \in Good  BY <1>1, <1>7, <1>8, CountUp
  <2>2. QED  BY <1>1, <2>1
<1>10. S[n] = s /\ s \in Nat \ {0}  BY <1>1, <1>5
<1>11. s \in 1..n /\ s - 1 \in 0..n  BY <1>1, <1>10
<1>12. S[s - 1] = R[s - 1].start  BY <1>5, <1>11
<1>13. S[s - 1] <= s /\ ~Ends(text, s) /\ Filled(text, R[s - 1], s) = R[n]
  BY <1>1, <1>6, <1>9, <1>10
<1>14. QED  BY <1>11, <1>12, <1>13 DEF Began

(* More text: what is cut of the first part does not change, but for a CR that came last. *)
LEMMA FirstPart ==
  ASSUME NEW m \in Seq(TelnetByte), NEW c \in Seq(TelnetByte), NEW n, n = Len(m),
         NEW a \in Nat \ {0}, NEW b \in Nat, b <= n
  PROVE  SubSeq(m \o c, a, b) = SubSeq(m, a, b)
<1>1. n \in Nat  BY LenProperties
<1>2. CASE b < a
  <2>1. a \in Int /\ b \in Int  OBVIOUS
  <2>2. SubSeq(m \o c, a, b) = <<>> /\ SubSeq(m, a, b) = <<>>  BY <1>2, <2>1, SubSeqEmpty
  <2>3. QED  BY <2>2
<1>3. CASE ~(b < a)
  <2>1. a \in 1..Len(m) /\ b \in 1..Len(m)  BY <1>1, <1>3
  <2>2. QED  BY <2>1, SubSeqOfConcat1
<1>4. QED  BY <1>2, <1>3

LEMMA FilledFirst ==
  ASSUME NEW m \in Seq(TelnetByte), NEW c \in Seq(TelnetByte), NEW n, n = Len(m),
         NEW f, f.start \in Nat \ {0}, NEW i \in 1..n
  PROVE  Filled(m \o c, f, i) = Filled(m, f, i)
<1>1. n \in Nat  BY LenProperties
<1>2. PICK b \in Nat : b = i - 1 /\ b <= n  BY <1>1
<1>3. SubSeq(m \o c, f.start, b) = SubSeq(m, f.start, b)  BY <1>2, FirstPart, SMTT(30)
<1>4. QED  BY <1>2, <1>3 DEF Filled

LEMMA ClosedFirst ==
  ASSUME NEW m \in Seq(TelnetByte), NEW c \in Seq(TelnetByte), NEW n, n = Len(m),
         NEW g, g.start \in Nat \ {0}, NEW i \in 1..n, i < n \/ m[i] = "lf"
  PROVE  Closed(m \o c, g, i) = Closed(m, g, i)
<1>1. n \in Nat /\ Len(c) \in Nat  BY LenProperties
<1>2. PICK u : u = m \o c  OBVIOUS
<1>3. /\ Len(u) = n + Len(c)
      /\ \A j \in 1..n : u[j] = m[j]
  <2>1. \A j \in 1..n : j \in 1..(n + Len(c)) /\ j <= n  BY <1>1
  <2>2. QED  BY <1>2, <2>1, ConcatProperties
<1>4. u[i] = m[i] /\ i < n => u[i + 1] = m[i + 1]
  <2>1. i < n => i + 1 \in 1..n  BY <1>1
  <2>2. QED  BY <1>3, <2>1
<1>5. i < n => i < Len(u)  BY <1>1, <1>3
<1>6. u[i] = m[i]  BY <1>3
<1>7. Ends(u, i) <=> Ends(m, i)  BY <1>4, <1>5, <1>6 DEF Ends
<1>8. EndAt(u, i) = EndAt(m, i)  BY <1>4, <1>5, <1>6 DEF EndAt
<1>9. PICK b \in Nat : b = EndAt(m, i) /\ b <= n  BY EndAtRange
<1>10. SubSeq(u, g.start, b) = SubSeq(m, g.start, b)
  <2>1. PICK a \in Nat \ {0} : a = g.start  OBVIOUS
  <2>2. SubSeq(m \o c, a, b) = SubSeq(m, a, b)  BY <1>9, FirstPart, SMTT(30)
  <2>3. QED  BY <1>2, <2>1, <2>2, Zenon
<1>11. QED  BY <1>2, <1>7, <1>8, <1>9, <1>10 DEF Closed

LEMMA CutsFirst ==
  ASSUME NEW m \in Seq(TelnetByte), NEW c \in Seq(TelnetByte), NEW n, n = Len(m),
         NEW R, Cuts(R, m), NEW Q, Cuts(Q, m \o c)
  PROVE  /\ \A i \in 0..n : i < n => Q[i] = R[i]
         /\ R[n].start = n + 1 => Q[n] = R[n]
<1>1. n \in Nat /\ Len(c) \in Nat  BY LenProperties
<1>2. PICK l \in Nat : l = Len(m \o c) /\ l = n + Len(c)  BY <1>1, ConcatProperties
<1>3. \A i \in 0..n : CutSoFar(m, R[i])  BY CutsSound
<1>4. \A i \in 0..n : R[i].start \in Nat \ {0}  BY <1>3 DEF CutSoFar, CutState
<1>5. ASSUME NEW i \in Nat, i < n, Q[i] = R[i],
             \/ i + 1 < n
             \/ R[i].start > i + 1
             \/ m[i + 1] = "lf"
      PROVE  Q[i + 1] = R[i + 1]
  <2>1. PICK j \in 1..n : j = i + 1  BY <1>1, <1>5
  <2>2. i \in 0..n /\ i \in 0..l /\ i < l  BY <1>1, <1>2, <1>5
  <2>3. R[j] = CutAt(m, R[i], j)  BY <1>5, <2>1, <2>2 DEF Cuts
  <2>4. Q[j] = CutAt(m \o c, R[i], j)  BY <1>2, <1>5, <2>1, <2>2 DEF Cuts
  <2>5. PICK a \in Nat \ {0} : a = R[i].start  BY <1>4, <2>2
  <2>6. CASE j < a
    <3>1. R[j] = R[i] /\ Q[j] = R[i]  BY <2>3, <2>4, <2>5, <2>6, CutAtIs
    <3>2. QED  BY <2>1, <3>1
  <2>7. CASE ~(j < a)
    <3>1. PICK g : g = Filled(m, R[i], j)  OBVIOUS
    <3>2. g = Filled(m \o c, R[i], j)  BY <2>5, <3>1, FilledFirst
    <3>3. R[j] = Closed(m, g, j) /\ Q[j] = Closed(m \o c, g, j)
      BY <2>3, <2>4, <2>5, <2>7, <3>1, <3>2, CutAtIs
    <3>4. g.start \in Nat \ {0}  BY <2>5, <3>1 DEF Filled
    <3>5. j < n \/ m[j] = "lf"  BY <1>5, <2>1, <2>5, <2>7
    <3>6. Closed(m \o c, g, j) = Closed(m, g, j)  BY <3>4, <3>5, ClosedFirst
    <3>7. QED  BY <2>1, <3>3, <3>6
  <2>8. QED  BY <2>6, <2>7
<1>6. PICK Good : Good = {i \in Nat : i < n \/ i = 0 => Q[i] = R[i]}  OBVIOUS
<1>7. 0 \in Good  BY <1>6 DEF Cuts
<1>8. ASSUME NEW i \in Nat, i < n /\ i \in Good PROVE i + 1 \in Good
  <2>1. Q[i] = R[i]  BY <1>6, <1>8
  <2>2. CASE i + 1 < n
    <3>1. Q[i + 1] = R[i + 1]  BY <1>5, <1>8, <2>1, <2>2
    <3>2. QED  BY <1>6, <3>1
  <2>3. CASE ~(i + 1 < n)  BY <1>6, <2>3
  <2>4. QED  BY <2>2, <2>3
<1>9. \A i \in 0..n : i \in Good  BY <1>1, <1>7, <1>8, CountUp
<1>10. \A i \in 0..n : i < n => Q[i] = R[i]  BY <1>6, <1>9
<1>11. ASSUME R[n].start = n + 1 PROVE Q[n] = R[n]
  <2>1. CASE n = 0  BY <2>1 DEF Cuts
  <2>2. CASE n # 0
    <3>1. PICK i \in Nat : i = n - 1 /\ i + 1 = n /\ i < n /\ i \in 0..n  BY <1>1, <2>2
    <3>2. Q[i] = R[i]  BY <1>10, <3>1
    <3>3. PICK a \in Nat \ {0} : a = R[i].start  BY <1>4, <3>1
    <3>4. CASE a > n
      <4>1. Q[i + 1] = R[i + 1]  BY <1>5, <3>1, <3>2, <3>3, <3>4
      <4>2. QED  BY <3>1, <4>1
    <3>5. CASE ~(a > n)
      <4>1. R[n] = CutAt(m, R[i], n)  BY <3>1 DEF Cuts
      <4>2. PICK g : g = Filled(m, R[i], n)  OBVIOUS
      <4>3. ~(n < R[i].start)  BY <1>1, <3>3, <3>5
      <4>4. R[n] = Closed(m, g, n)  BY <4>1, <4>2, <4>3, CutAtIs
      <4>5. g.start # n + 1  BY <1>1, <3>3, <3>5, <4>2 DEF Filled
      <4>6. Ends(m, n)  BY <1>11, <4>4, <4>5 DEF Closed
      <4>7. m[n] = "lf"  BY <1>1, <4>6 DEF Ends
      <4>8. Q[i + 1] = R[i + 1]  BY <1>5, <3>1, <3>2, <4>7
      <4>9. QED  BY <3>1, <4>8
    <3>6. QED  BY <3>4, <3>5
  <2>3. QED  BY <2>1, <2>2
<1>12. QED  BY <1>10, <1>11

(* The framer over what is left: v is the text u after its first k characters, `front` the      *)
(* frames cut from those.                                                                        *)
Frames == Seq(Seq(TelnetByte))
LeftOver(u, k, v, front) ==
    /\ u \in Seq(TelnetByte) /\ k \in 0..Len(u) /\ v = SubSeq(u, k + 1, Len(u))
    /\ front \in Frames
Shifted(f, k, front) == [start |-> f.start + k, out |-> front \o f.out]

SameBytes(u, v, k) == \A i \in 1..Len(v) : v[i] = u[i + k]
SameText(u, v, k) ==
    \A a \in Nat \ {0}, b \in Nat : b <= Len(v) => SubSeq(v, a, b) = SubSeq(u, a + k, b + k)

LEMMA LeftOverIs ==
  ASSUME NEW u, NEW v, NEW k \in Nat, NEW front \in Frames, LeftOver(u, k, v, front)
  PROVE  /\ v \in Seq(TelnetByte) /\ Len(v) \in Nat /\ Len(u) \in Nat /\ Len(u) = Len(v) + k
         /\ k \in Nat /\ front \in Frames
         /\ SameBytes(u, v, k) /\ SameText(u, v, k)
<1>1. PICK l \in Nat : l = Len(u) /\ k \in Nat /\ k <= l  BY LenProperties DEF LeftOver
<1>2. PICK s \in Nat : s = k + 1  BY <1>1
<1>3. u \in Seq(TelnetByte) /\ v = SubSeq(u, s, l) /\ front \in Frames
  BY <1>1, <1>2 DEF LeftOver
<1>4. \A i \in s..l : u[i] \in TelnetByte
  <2>1. \A i \in s..l : i \in 1..Len(u)  BY <1>1, <1>2
  <2>2. QED  BY <1>3, <2>1, ElementOfSeq
<1>5. s \in Int /\ l \in Int  OBVIOUS
<1>6. /\ v \in Seq(TelnetByte) /\ Len(v) = (IF s <= l THEN l - s + 1 ELSE 0)
      /\ \A i \in 1..(l - s + 1) : v[i] = u[s + i - 1]
  BY <1>3, <1>4, <1>5, SubSeqProperties
<1>7. Len(v) = l - k
  <2>1. s <= l => l - s + 1 = l - k  BY <1>2
  <2>2. ~(s <= l) => l - k = 0  BY <1>1, <1>2
  <2>3. QED  BY <1>6, <2>1, <2>2
<1>8. PICK p \in Nat : p = l - k /\ l = p + k
  <2>1. l - k \in Nat /\ l = (l - k) + k  BY <1>1
  <2>2. QED  BY <2>1, Zenon
<1>9. \A i \in 1..p : v[i] = u[i + k]
  <2>1. \A i \in 1..p : i \in 1..(l - s + 1) /\ s + i - 1 = i + k  BY <1>1, <1>2, <1>8
  <2>2. QED  BY <1>6, <2>1
<1>10. ASSUME NEW a \in Nat \ {0}, NEW b \in Nat, b <= p
       PROVE  SubSeq(v, a, b) = SubSeq(u, a + k, b + k)
  <2>1. CASE b < a
    <3>1. a \in Int /\ b \in Int /\ a + k \in Int /\ b + k \in Int /\ b + k < a + k  BY <1>1, <2>1
    <3>2. SubSeq(v, a, b) = <<>> /\ SubSeq(u, a + k, b + k) = <<>>  BY <2>1, <3>1, SubSeqEmpty
    <3>3. QED  BY <3>2
  <2>2. CASE ~(b < a)
    <3>1. /\ s \in 1..Len(u) /\ l \in 1..Len(u)
          /\ a \in 1..(l - s + 1) /\ b \in 1..(l - s + 1)
      BY <1>1, <1>2, <1>8, <1>10, <2>2
    <3>2. SubSeq(SubSeq(u, s, l), a, b) = SubSeq(u, s + a - 1, s + b - 1)
      BY <1>3, <3>1, SubSeqOfSubSeq
    <3>3. s + a - 1 = a + k /\ s + b - 1 = b + k  BY <1>1, <1>2
    <3>4. QED  BY <1>3, <3>2, <3>3
  <2>3. QED  BY <2>1, <2>2
<1>11. SameText(u, v, k)  BY <1>1, <1>7, <1>8, <1>10 DEF SameText
<1>12. SameBytes(u, v, k)  BY <1>7, <1>8, <1>9 DEF SameBytes
<1>13. QED  BY <1>1, <1>3, <1>6, <1>7, <1>8, <1>11, <1>12

Piece(text, f, b) == [start |-> b + 1, out |-> Append(f.out, SubSeq(text, f.start, b))]
PieceAgrees(u, v, k, front, f, b) ==
    /\ Piece(v, f, b) \in CutState
    /\ Shifted(Piece(v, f, b), k, front) =
          [start |-> (b + k) + 1, out |-> Append(front \o f.out, SubSeq(u, f.start + k, b + k))]
FilledAgrees(u, v, k, front, f, i) ==
    /\ Filled(v, f, i) \in CutState
    /\ Filled(u, Shifted(f, k, front), i + k) = Shifted(Filled(v, f, i), k, front)
ClosedAgrees(u, v, k, front, g, i) ==
    Closed(u, Shifted(g, k, front), i + k) = Shifted(Closed(v, g, i), k, front)
CutAgrees(u, v, k, front, f, i) ==
    CutAt(u, Shifted(f, k, front), i + k) = Shifted(CutAt(v, f, i), k, front)

\* One more frame, cut from either text.
LEMMA PieceShift ==
  ASSUME NEW u, NEW v, NEW k \in Nat, NEW front \in Frames, LeftOver(u, k, v, front), NEW f \in CutState,
         NEW b \in Nat, b <= Len(v)
  PROVE  PieceAgrees(u, v, k, front, f, b)
<1>1. PICK a \in Nat \ {0}, o \in Seq(Seq(TelnetByte)) : f.start = a /\ f.out = o  BY DEF CutState
<1>2. PICK p \in Seq(TelnetByte) : p = SubSeq(v, a, b)  BY PieceType, LeftOverIs
<1>3. p = SubSeq(u, a + k, b + k)
  <2>1. SameText(u, v, k)  BY LeftOverIs
  <2>2. QED  BY <1>2, <2>1 DEF SameText
<1>4. PICK q \in Seq(Seq(TelnetByte)) : q = Append(o, p) /\ q = o \o <<p>>
  BY AppendProperties, AppendIsConcat
<1>5. PICK l \in Nat \ {0} : l = b + 1  OBVIOUS
<1>6. PICK g : g = Piece(v, f, b) /\ g = [start |-> l, out |-> q]
  BY <1>1, <1>2, <1>4, <1>5 DEF Piece
<1>7. g \in CutState /\ g.start = l /\ g.out = q  BY <1>6, CutPair, ZenonT(40)
<1>8. Shifted(g, k, front) = [start |-> l + k, out |-> front \o q]  BY <1>7 DEF Shifted
<1>9. front \o q = Append(front \o o, p)
  <2>1. <<p>> \in Seq(Seq(TelnetByte)) /\ front \in Seq(Seq(TelnetByte))  BY DEF Frames
  <2>2. front \o (o \o <<p>>) = (front \o o) \o <<p>>  BY <2>1, ConcatAssociative
  <2>3. PICK fo \in Seq(Seq(TelnetByte)) : fo = front \o o  BY <2>1, ConcatProperties
  <2>4. Append(fo, p) = fo \o <<p>>  BY AppendIsConcat
  <2>5. QED  BY <1>4, <2>2, <2>3, <2>4
<1>10. l + k = (b + k) + 1  BY <1>5
<1>11. QED  BY <1>1, <1>3, <1>6, <1>7, <1>8, <1>9, <1>10 DEF PieceAgrees

LEMMA FilledShift ==
  ASSUME NEW u, NEW v, NEW k \in Nat, NEW front \in Frames, LeftOver(u, k, v, front), NEW f \in CutState,
         NEW i \in Nat, 1 <= i, i <= Len(v)
  PROVE  FilledAgrees(u, v, k, front, f, i)
<1>1. PICK n \in Nat : n = Len(v)  BY LeftOverIs
<1>2. PICK a \in Nat \ {0} : f.start = a  BY DEF CutState
<1>3. PICK h : h = Shifted(f, k, front)  OBVIOUS
<1>4. h.start = f.start + k /\ h.out = front \o f.out /\ h.start = a + k
  BY <1>2, <1>3 DEF Shifted
<1>5. PICK b \in Nat : b = i - 1 /\ b + 1 = i /\ b <= Len(v)  BY <1>1
<1>6. (i + k) - h.start >= FrameLimit <=> i - a >= FrameLimit
  <2>1. (i + k) - (a + k) = i - a  OBVIOUS
  <2>2. QED  BY <1>4, <2>1
<1>7. CASE i - a >= FrameLimit
  <2>1. PICK g : g = Piece(v, f, b)  OBVIOUS
  <2>2. Filled(v, f, i) = g  BY <1>2, <1>5, <1>7, <2>1 DEF Filled, Piece
  <2>3. /\ g \in CutState
        /\ Shifted(g, k, front) =
              [start |-> (b + k) + 1,
               out |-> Append(front \o f.out, SubSeq(u, f.start + k, b + k))]
    <3>1. PieceAgrees(u, v, k, front, f, b)  BY <1>5, PieceShift
    <3>2. QED  BY <2>1, <3>1 DEF PieceAgrees
  <2>4. (b + k) + 1 = i + k /\ (i + k) - 1 = b + k  BY <1>5
  <2>5. Filled(u, h, i + k) = [start |-> i + k, out |-> Append(h.out, SubSeq(u, h.start, b + k))]
    BY <1>6, <1>7, <2>4 DEF Filled
  <2>6. QED  BY <1>3, <1>4, <2>2, <2>3, <2>4, <2>5 DEF FilledAgrees
<1>8. CASE ~(i - a >= FrameLimit)
  <2>1. Filled(v, f, i) = f  BY <1>2, <1>8 DEF Filled
  <2>2. Filled(u, h, i + k) = h  BY <1>6, <1>8 DEF Filled
  <2>3. QED  BY <1>3, <2>1, <2>2 DEF FilledAgrees
<1>9. QED  BY <1>7, <1>8

LEMMA ClosedShift ==
  ASSUME NEW u, NEW v, NEW k \in Nat, NEW front \in Frames, LeftOver(u, k, v, front), NEW g \in CutState,
         NEW i \in Nat, 1 <= i, i <= Len(v)
  PROVE  ClosedAgrees(u, v, k, front, g, i)
<1>1. PICK n \in Nat : n = Len(v)  BY LeftOverIs
<1>2. PICK j \in Nat : j = i + k  OBVIOUS
<1>3. i \in 1..Len(v) /\ v \in Seq(TelnetByte)
  <2>1. v \in Seq(TelnetByte) /\ Len(v) \in Nat  BY LeftOverIs
  <2>2. QED  BY <2>1
<1>4. SameBytes(u, v, k) /\ v[i] = u[j]
  <2>1. SameBytes(u, v, k)  BY LeftOverIs
  <2>2. QED  BY <1>2, <1>3, <2>1 DEF SameBytes
<1>5. i < n => v[i + 1] = u[j + 1]
  <2>1. ASSUME i < n PROVE v[i + 1] = u[j + 1]
    <3>1. i + 1 \in 1..Len(v) /\ (i + 1) + k = j + 1  BY <1>1, <1>2, <2>1
    <3>2. QED  BY <1>4, <3>1 DEF SameBytes
  <2>2. QED  BY <2>1
<1>6. Len(u) = n + k  BY <1>1, LeftOverIs
<1>7. i < n <=> j < Len(u)  BY <1>2, <1>6
<1>8. Ends(u, j) <=> Ends(v, i)  BY <1>1, <1>4, <1>7 DEF Ends
<1>9. PICK b \in Nat : b = EndAt(v, i) /\ b <= Len(v)  BY <1>3, EndAtRange
<1>10. EndAt(u, j) = b + k
  <2>1. CASE v[i] = "cr" /\ i < n /\ v[i + 1] = "lf"
    <3>1. b = i + 1  BY <1>1, <1>9, <2>1 DEF EndAt
    <3>2. EndAt(u, j) = j + 1  BY <1>4, <1>5, <1>7, <2>1 DEF EndAt
    <3>3. QED  BY <1>2, <3>1, <3>2
  <2>2. CASE ~(v[i] = "cr" /\ i < n /\ v[i + 1] = "lf")
    <3>1. b = i  BY <1>1, <1>9, <2>2 DEF EndAt
    <3>2. EndAt(u, j) = j  BY <1>4, <1>5, <1>7, <2>2 DEF EndAt
    <3>3. QED  BY <1>2, <3>1, <3>2
  <2>3. QED  BY <2>1, <2>2
<1>11. PICK h : h = Shifted(g, k, front)  OBVIOUS
<1>12. h.start = g.start + k /\ h.out = front \o g.out  BY <1>11 DEF Shifted
<1>13. CASE Ends(v, i)
  <2>1. PICK x : x = Piece(v, g, b)  OBVIOUS
  <2>2. Closed(v, g, i) = x  BY <1>9, <1>13, <2>1 DEF Closed, Piece
  <2>3. Shifted(x, k, front) =
            [start |-> (b + k) + 1, out |-> Append(front \o g.out, SubSeq(u, g.start + k, b + k))]
    <3>1. PieceAgrees(u, v, k, front, g, b)  BY <1>9, PieceShift
    <3>2. QED  BY <2>1, <3>1 DEF PieceAgrees
  <2>4. Closed(u, h, j) = [start |-> (b + k) + 1, out |-> Append(h.out, SubSeq(u, h.start, b + k))]
    BY <1>8, <1>10, <1>13 DEF Closed
  <2>5. QED  BY <1>2, <1>11, <1>12, <2>2, <2>3, <2>4 DEF ClosedAgrees
<1>14. CASE ~Ends(v, i)
  <2>1. Closed(v, g, i) = g /\ Closed(u, h, j) = h  BY <1>8, <1>14 DEF Closed
  <2>2. QED  BY <1>2, <1>11, <2>1 DEF ClosedAgrees
<1>15. QED  BY <1>13, <1>14

LEMMA CutShift ==
  ASSUME NEW u, NEW v, NEW k \in Nat, NEW front \in Frames, LeftOver(u, k, v, front), NEW f \in CutState,
         NEW i \in Nat, 1 <= i, i <= Len(v)
  PROVE  CutAgrees(u, v, k, front, f, i)
<1>1. PICK a \in Nat \ {0} : f.start = a  BY DEF CutState
<1>2. PICK h : h = Shifted(f, k, front)  OBVIOUS
<1>3. h.start = a + k  BY <1>1, <1>2 DEF Shifted
<1>4. i + k < h.start <=> i < a  BY <1>3
<1>5. CASE i < a
  <2>1. CutAt(v, f, i) = f  BY <1>1, <1>5, CutAtIs
  <2>2. CutAt(u, h, i + k) = h  BY <1>4, <1>5, CutAtIs
  <2>3. QED  BY <1>2, <2>1, <2>2 DEF CutAgrees
<1>6. CASE ~(i < a)
  <2>1. FilledAgrees(u, v, k, front, f, i)  BY FilledShift
  <2>2. PICK g \in CutState : g = Filled(v, f, i)  BY <2>1 DEF FilledAgrees
  <2>3. CutAt(v, f, i) = Closed(v, g, i)  BY <1>1, <1>6, <2>2, CutAtIs
  <2>4. Filled(u, h, i + k) = Shifted(g, k, front)  BY <1>2, <2>1, <2>2 DEF FilledAgrees
  <2>5. CutAt(u, h, i + k) = Closed(u, Shifted(g, k, front), i + k)  BY <1>4, <1>6, <2>4, CutAtIs
  <2>6. ClosedAgrees(u, v, k, front, g, i)  BY ClosedShift
  <2>7. QED  BY <1>2, <2>3, <2>5, <2>6 DEF ClosedAgrees, CutAgrees
<1>7. QED  BY <1>5, <1>6

EndsAlike(Q, u, P, v, k, front) == Q[Len(u)] = Shifted(P[Len(v)], k, front)

\* From where the two agree on, they agree to the end.
LEMMA CutsShift ==
  ASSUME NEW u, NEW v, NEW k \in Nat, NEW front \in Frames, LeftOver(u, k, v, front),
         NEW Q, Cuts(Q, u), NEW P, Cuts(P, v),
         NEW b \in Nat, b <= Len(v), Q[b + k] = Shifted(P[b], k, front)
  PROVE  EndsAlike(Q, u, P, v, k, front)
<1>1. PICK n \in Nat : n = Len(v)  BY LeftOverIs
<1>2. Len(u) = n + k  BY <1>1, LeftOverIs
<1>3. \A i \in 0..n : P[i] \in CutState
  <2>1. v \in Seq(TelnetByte)  BY LeftOverIs
  <2>2. \A i \in 0..n : CutSoFar(v, P[i])  BY <1>1, <2>1, CutsSound
  <2>3. QED  BY <2>2 DEF CutSoFar
<1>4. PICK Good : Good = {i \in Nat : b <= i /\ i <= n => Q[i + k] = Shifted(P[i], k, front)}
  OBVIOUS
<1>5. ASSUME NEW i \in Nat, b = i PROVE i \in Good
  BY <1>4, <1>5
<1>6. 0 \in Good
  <2>1. CASE b = 0  BY <1>5, <2>1
  <2>2. CASE b # 0
    <3>1. ~(b <= 0)  BY <2>2
    <3>2. QED  BY <1>4, <3>1
  <2>3. QED  BY <2>1, <2>2
<1>7. ASSUME NEW i \in Nat, i < n /\ i \in Good PROVE i + 1 \in Good
  <2>1. CASE b <= i
    <3>1. Q[i + k] = Shifted(P[i], k, front)  BY <1>4, <1>7, <2>1
    <3>2. PICK j \in Nat : j = i + 1 /\ 1 <= j /\ j <= Len(v)  BY <1>1, <1>7
    <3>3. i \in 0..n /\ i \in 0..Len(v) /\ i < Len(v)  BY <1>1, <1>7
    <3>4. P[j] = CutAt(v, P[i], j) /\ P[i] \in CutState  BY <1>3, <3>2, <3>3 DEF Cuts
    <3>5. PICK e \in Nat : e = i + k  OBVIOUS
    <3>6. e \in 0..Len(u) /\ e < Len(u) /\ e + 1 = j + k  BY <1>2, <1>7, <3>2, <3>5
    <3>7. Q[e + 1] = CutAt(u, Q[e], e + 1)  BY <3>6 DEF Cuts
    <3>8. CutAt(u, Shifted(P[i], k, front), j + k) = Shifted(CutAt(v, P[i], j), k, front)
      <4>1. PICK f \in CutState : f = P[i]  BY <3>4
      <4>2. CutAt(u, Shifted(f, k, front), j + k) = Shifted(CutAt(v, f, j), k, front)
        <5>1. CutAgrees(u, v, k, front, f, j)  BY <3>2, CutShift
        <5>2. QED  BY <5>1 DEF CutAgrees
      <4>3. QED  BY <4>1, <4>2
    <3>9. Q[j + k] = Shifted(P[j], k, front)  BY <3>1, <3>4, <3>5, <3>6, <3>7, <3>8
    <3>10. QED  BY <1>4, <3>2, <3>9
  <2>2. CASE ~(b <= i)
    <3>1. PICK j \in Nat : j = i + 1  OBVIOUS
    <3>2. CASE b = j  BY <1>5, <3>1, <3>2
    <3>3. CASE b # j
      <4>1. ~(b <= j)  BY <2>2, <3>1, <3>3
      <4>2. j \in Good  BY <1>4, <4>1
      <4>3. QED  BY <3>1, <4>2
    <3>4. QED  BY <3>2, <3>3
  <2>3. QED  BY <2>1, <2>2
<1>8. n \in Good
  <2>1. \A i \in 0..n : i \in Good  BY <1>6, <1>7, CountUp
  <2>2. QED  BY <2>1
<1>9. Q[n + k] = Shifted(P[n], k, front)  BY <1>1, <1>4, <1>8
<1>10. QED  BY <1>1, <1>2, <1>9 DEF EndsAlike

LEMMA RestAndMore ==
  ASSUME NEW m \in Seq(TelnetByte), NEW c \in Seq(TelnetByte), NEW n, n = Len(m), NEW s \in 1..(n + 1)
  PROVE  /\ SubSeq(m, s, n) \in Seq(TelnetByte)
         /\ SubSeq(m \o c, s, Len(m \o c)) = SubSeq(m, s, n) \o c
<1>1. PICK lc \in Nat : lc = Len(c) /\ n \in Nat  BY LenProperties
<1>2. PICK u \in Seq(TelnetByte) : u = m \o c /\ Len(u) = n + lc  BY <1>1, ConcatProperties
<1>3. s \in Nat \ {0} /\ s <= n + 1  BY <1>1
<1>4. SubSeq(u, s, n) = SubSeq(m, s, n)  BY <1>1, <1>2, <1>3, FirstPart
<1>5. SubSeq(u, n + 1, n + lc) = c
  <2>1. CASE lc = 0
    <3>1. c = <<>>  BY <1>1, <2>1, EmptySeq
    <3>2. n + 1 \in Int /\ n + lc \in Int /\ n + lc < n + 1  BY <1>1, <2>1
    <3>3. SubSeq(u, n + 1, n + lc) = <<>>  BY <3>2, SubSeqEmpty
    <3>4. QED  BY <3>1, <3>3
  <2>2. CASE lc # 0
    <3>1. PICK a \in Nat, b \in Nat : a = n + 1 /\ b = n + lc  BY <1>1
    <3>2. /\ a \in (Len(m) + 1)..(Len(m) + Len(c)) /\ b \in (Len(m) + 1)..(Len(m) + Len(c))
          /\ a - Len(m) = 1 /\ b - Len(m) = Len(c)
      BY <1>1, <2>2, <3>1
    <3>3. SubSeq(m \o c, a, b) = SubSeq(c, a - Len(m), b - Len(m))  BY <3>2, SubSeqOfConcat2
    <3>4. SubSeq(c, 1, Len(c)) = c  BY SubSeqFull
    <3>5. QED  BY <1>2, <3>1, <3>2, <3>3, <3>4
  <2>3. QED  BY <2>1, <2>2
<1>6. SubSeq(u, s, n) \o SubSeq(u, n + 1, n + lc) = SubSeq(u, s, n + lc)
  <2>1. PICK l \in Nat : l = n + lc  BY <1>1
  <2>2. s \in 1..(Len(u) + 1) /\ n \in (s - 1)..Len(u) /\ l \in n..Len(u)
    BY <1>1, <1>2, <1>3, <2>1
  <2>3. SubSeq(u, s, n) \o SubSeq(u, n + 1, l) = SubSeq(u, s, l)  BY <2>2, ConcatAdjacentSubSeq
  <2>4. QED  BY <2>1, <2>3
<1>7. SubSeq(m, s, n) \in Seq(TelnetByte)  BY <1>1, <1>3, PieceType
<1>8. QED  BY <1>2, <1>4, <1>5, <1>6, <1>7

\* What FeedFramer makes of a text, and that it leaves nothing out.
LEMMA FramerKeeps ==
  ASSUME NEW text \in Seq(TelnetByte)
  PROVE  /\ FeedFramer(text).out \in Frames /\ FeedFramer(text).rest \in Seq(TelnetByte)
         /\ FlattenSeq(FeedFramer(text).out) \o FeedFramer(text).rest = text
<1>1. PICK n \in Nat : n = Len(text)  BY LenProperties
<1>2. PICK R : Cuts(R, text)  BY CutsExist
<1>3. FramedBy(R, n, text) /\ \A i \in 0..n : CutSoFar(text, R[i])
  BY <1>1, <1>2, FeedFramerIs, CutsSound
<1>4. CutSoFar(text, R[n])
  <2>1. n \in 0..n  BY <1>1
  <2>2. QED  BY <1>3, <2>1
<1>5. PICK k \in Nat : R[n].start = k + 1 /\ k <= n /\ R[n].start - 1 = k
  <2>1. R[n].start \in Nat \ {0} /\ R[n].start <= n + 1  BY <1>1, <1>4 DEF CutSoFar, CutState
  <2>2. PICK s \in Nat \ {0} : s = R[n].start /\ s <= n + 1  BY <2>1
  <2>3. s - 1 \in Nat /\ s = (s - 1) + 1 /\ s - 1 <= n  BY <2>2
  <2>4. QED  BY <2>2, <2>3
<1>6. R[n].out \in Frames /\ FlattenSeq(R[n].out) = SubSeq(text, 1, k)
  BY <1>4, <1>5 DEF CutSoFar, CutState, Frames
<1>7. FeedFramer(text).out = R[n].out /\ FeedFramer(text).rest = SubSeq(text, k + 1, n)
  BY <1>3, <1>5 DEF FramedBy
<1>8. SubSeq(text, k + 1, n) \in Seq(TelnetByte)
  <2>1. k + 1 \in Nat \ {0} /\ n <= Len(text)  BY <1>1
  <2>2. QED  BY <1>1, <2>1, PieceType
<1>9. SubSeq(text, 1, k) \o SubSeq(text, k + 1, n) = text
  <2>1. 1 \in 1..(Len(text) + 1) /\ k \in (1 - 1)..Len(text) /\ n \in k..Len(text)  BY <1>1, <1>5
  <2>2. SubSeq(text, 1, k) \o SubSeq(text, k + 1, n) = SubSeq(text, 1, n)
    BY <2>1, ConcatAdjacentSubSeq
  <2>3. SubSeq(text, 1, Len(text)) = text  BY SubSeqFull
  <2>4. QED  BY <1>1, <2>2, <2>3
<1>10. QED  BY <1>6, <1>7, <1>8, <1>9

\* Cutting what was left together with more text gives what cutting the whole text gives.
LEMMA FramerContinues ==
  ASSUME NEW m \in Seq(TelnetByte), NEW c \in Seq(TelnetByte)
  PROVE  LET v == FeedFramer(m).rest \o c
         IN  /\ FeedFramer(m \o c).out = FeedFramer(m).out \o FeedFramer(v).out
             /\ FeedFramer(m \o c).rest = FeedFramer(v).rest
<1>0. PICK v : v = FeedFramer(m).rest \o c  OBVIOUS
<1>1. PICK n \in Nat : n = Len(m)  BY LenProperties
<1>2. PICK R : Cuts(R, m)  BY CutsExist
<1>3. FramedBy(R, n, m) /\ \A i \in 0..n : CutSoFar(m, R[i])
  BY <1>1, <1>2, FeedFramerIs, CutsSound
<1>4. CutSoFar(m, R[n])
  <2>1. n \in 0..n  BY <1>1
  <2>2. QED  BY <1>3, <2>1
<1>5. R[n].start \in Nat \ {0} /\ R[n].start <= n + 1  BY <1>1, <1>4 DEF CutSoFar, CutState
<1>6. PICK s \in Nat \ {0} : s = R[n].start /\ s <= n + 1  BY <1>5
<1>7. PICK k \in Nat : k = s - 1 /\ s = k + 1 /\ k <= n
  <2>1. s - 1 \in Nat /\ s = (s - 1) + 1 /\ s - 1 <= n  BY <1>6
  <2>2. QED  BY <2>1
<1>8. PICK front \in Frames : front = R[n].out  BY <1>4 DEF CutSoFar, CutState, Frames
<1>9. R[n] = [start |-> s, out |-> front]
  <2>1. R[n] \in CutState  BY <1>4 DEF CutSoFar
  <2>2. R[n] = [start |-> R[n].start, out |-> R[n].out]  BY <2>1 DEF CutState
  <2>3. QED  BY <1>6, <1>8, <2>2
<1>10. PICK u \in Seq(TelnetByte) : u = m \o c  BY ConcatProperties
<1>11. PICK lc \in Nat : lc = Len(c) /\ Len(u) = n + lc  BY <1>1, <1>10, LenProperties, ConcatProperties
<1>12. LeftOver(u, k, v, front)
  <2>1. s \in 1..(n + 1)  BY <1>6
  <2>2. SubSeq(u, s, Len(u)) = SubSeq(m, s, n) \o c
    <3>1. SubSeq(m \o c, s, Len(m \o c)) = SubSeq(m, s, n) \o c
      BY <1>1, <2>1, RestAndMore, ZenonT(40)
    <3>2. QED  BY <1>10, <3>1, Zenon
  <2>3. v = SubSeq(m, s, n) \o c
    <3>1. FeedFramer(m).rest = SubSeq(m, s, n)  BY <1>3, <1>6 DEF FramedBy
    <3>2. QED  BY <1>0, <3>1
  <2>4. k \in 0..Len(u)  BY <1>7, <1>11
  <2>5. QED  BY <1>7, <2>2, <2>3, <2>4 DEF LeftOver
<1>13. v \in Seq(TelnetByte) /\ Len(v) \in Nat /\ Len(u) = Len(v) + k  BY <1>12, LeftOverIs
<1>14. PICK Q : Cuts(Q, u)  BY CutsExist
<1>15. PICK P : Cuts(P, v)  BY <1>13, CutsExist
<1>16. /\ \A i \in 0..n : i < n => Q[i] = R[i]
       /\ R[n].start = n + 1 => Q[n] = R[n]
  <2>1. Cuts(Q, m \o c)  BY <1>10, <1>14
  <2>2. QED  BY <1>1, <1>2, <2>1, CutsFirst
<1>17. NothingCut \in CutState /\ NothingCut.start = 1 /\ Shifted(NothingCut, k, front) = R[n]
  <2>1. <<>> \in Seq(Seq(TelnetByte)) /\ 1 \in Nat \ {0}  BY EmptySeq
  <2>2. NothingCut \in CutState /\ NothingCut.start = 1 /\ NothingCut.out = <<>>
    BY <2>1, CutPair, Zenon DEF NothingCut
  <2>3. front \o <<>> = front
    <3>1. PICK A : A = Seq(TelnetByte)  OBVIOUS
    <3>2. front \in Seq(A)  BY <3>1 DEF Frames
    <3>3. QED  BY <3>2, ConcatEmptySeq
  <2>4. 1 + k = s  BY <1>7
  <2>5. QED  BY <1>9, <2>2, <2>3, <2>4 DEF Shifted
<1>18. \E b \in Nat : b <= Len(v) /\ Q[b + k] = Shifted(P[b], k, front)
  <2>1. CASE s = n + 1
    <3>1. Q[n] = R[n]  BY <1>6, <1>16, <2>1
    <3>2. P[0] = NothingCut  BY <1>15 DEF Cuts
    <3>3. 0 + k = n /\ 0 <= Len(v)  BY <1>7, <1>13, <2>1
    <3>4. QED  BY <1>17, <3>1, <3>2, <3>3
  <2>2. CASE s # n + 1
    <3>1. s <= n /\ s \in 1..n /\ k < n /\ k \in 0..n /\ s - 1 = k  BY <1>6, <1>7, <2>2
    <3>2. R[k].start <= s /\ ~Ends(m, s) /\ Filled(m, R[k], s) = R[n]
      <4>1. R[s - 1].start <= s /\ ~Ends(m, s) /\ Filled(m, R[s - 1], s) = R[n]
        <5>1. Began(m, R, s, n)  BY <1>1, <1>2, <1>6, <3>1, LastCut
        <5>2. QED  BY <5>1 DEF Began
      <4>2. QED  BY <3>1, <4>1
    <3>3. PICK f : f = R[k]  OBVIOUS
    <3>4. f.start \in Nat \ {0} /\ f.start <= s
      BY <1>3, <3>1, <3>2, <3>3 DEF CutSoFar, CutState
    <3>5. Q[k] = f  BY <1>16, <3>1, <3>3
    <3>6. Q[s] = CutAt(u, f, s)
      <4>1. k \in 0..Len(u) /\ k < Len(u) /\ k + 1 = s  BY <1>7, <1>11, <3>1
      <4>2. QED  BY <1>14, <3>5, <4>1 DEF Cuts
    <3>7. Filled(u, f, s) = R[n]  BY <1>1, <1>10, <3>1, <3>2, <3>3, <3>4, FilledFirst
    <3>8. Q[s] = Closed(u, R[n], s)
      <4>1. ~(s < f.start)  BY <3>4
      <4>2. QED  BY <3>6, <3>7, <4>1, CutAtIs
    <3>9. 1 <= Len(v)  BY <1>11, <1>13, <3>1
    <3>10. P[1] = CutAt(v, NothingCut, 1)
      <4>1. 0 \in 0..Len(v) /\ 0 < Len(v) /\ 0 + 1 = 1  BY <1>13, <3>9
      <4>2. P[0 + 1] = CutAt(v, P[0], 0 + 1) /\ P[0] = NothingCut  BY <1>15, <4>1 DEF Cuts
      <4>3. QED  BY <4>1, <4>2
    <3>11. P[1] = Closed(v, NothingCut, 1)
      <4>1. ~(1 - 1 >= FrameLimit)  BY TelnetAssumption
      <4>2. Filled(v, NothingCut, 1) = NothingCut  BY <1>17, <4>1 DEF Filled
      <4>3. ~(1 < NothingCut.start)  BY <1>17
      <4>4. QED  BY <3>10, <4>2, <4>3, CutAtIs
    <3>12. ClosedAgrees(u, v, k, front, NothingCut, 1)
      <4>1. PICK i \in Nat : i = 1  OBVIOUS
      <4>2. ClosedAgrees(u, v, k, front, NothingCut, i)  BY <1>12, <1>17, <3>9, <4>1, ClosedShift
      <4>3. QED  BY <4>1, <4>2
    <3>13. 1 + k = s  BY <1>7
    <3>14. Q[1 + k] = Shifted(P[1], k, front)
      BY <1>17, <3>8, <3>11, <3>12, <3>13 DEF ClosedAgrees
    <3>15. QED  BY <3>9, <3>14
  <2>3. QED  BY <2>1, <2>2
<1>19. PICK lu \in Nat, lv \in Nat : lu = Len(u) /\ lv = Len(v) /\ lu = lv + k  BY <1>11, <1>13
<1>20. Q[lu] = Shifted(P[lv], k, front)
  <2>1. PICK b \in Nat : b <= Len(v) /\ Q[b + k] = Shifted(P[b], k, front)  BY <1>18
  <2>2. EndsAlike(Q, u, P, v, k, front)  BY <1>12, <1>14, <1>15, <2>1, CutsShift
  <2>3. QED  BY <1>19, <2>2 DEF EndsAlike
<1>21. FramedBy(Q, lu, u)
  BY <1>14, <1>19, FeedFramerIs
<1>22. FramedBy(P, lv, v) /\ \A i \in 0..lv : CutSoFar(v, P[i])
  BY <1>13, <1>15, <1>19, FeedFramerIs, CutsSound
<1>23. PICK a \in Nat \ {0} : a = P[lv].start
  <2>1. lv \in 0..lv  OBVIOUS
  <2>2. QED  BY <1>22, <2>1 DEF CutSoFar, CutState
<1>24. Q[lu].out = front \o P[lv].out /\ Q[lu].start = a + k
  <2>1. Shifted(P[lv], k, front) = [start |-> P[lv].start + k, out |-> front \o P[lv].out]
    BY DEF Shifted
  <2>2. QED  BY <1>20, <1>23, <2>1, SMTT(30)
<1>25. SubSeq(v, a, lv) = SubSeq(u, a + k, lv + k)
  <2>1. SameText(u, v, k)  BY <1>12, LeftOverIs
  <2>2. lv <= Len(v)  BY <1>19
  <2>3. QED  BY <2>1, <2>2 DEF SameText
<1>26. FeedFramer(u).out = front \o P[lv].out /\ FeedFramer(u).rest = SubSeq(u, a + k, lu)
  BY <1>21, <1>24 DEF FramedBy
<1>27. FeedFramer(v).out = P[lv].out /\ FeedFramer(v).rest = SubSeq(v, a, lv)
  BY <1>22, <1>23 DEF FramedBy
<1>28. FeedFramer(m).out = front  BY <1>3, <1>8 DEF FramedBy
<1>29. QED  BY <1>0, <1>10, <1>19, <1>25, <1>26, <1>27, <1>28

(* A chunk of the wire: the way for the codec is cut where the wire is. *)
LEMMA CutWire ==
  ASSUME NEW w \in Seq(WireByte), NEW k \in 1..Len(w)
  PROVE  /\ SubSeq(w, 1, k) \in Seq(WireByte) /\ Len(SubSeq(w, 1, k)) = k
         /\ \A i \in 1..k : SubSeq(w, 1, k)[i] = w[i]
         /\ SubSeq(w, k + 1, Len(w)) \in Seq(WireByte)
         /\ Len(SubSeq(w, k + 1, Len(w))) = Len(w) - k
         /\ \A i \in 1..(Len(w) - k) : SubSeq(w, k + 1, Len(w))[i] = w[k + i]
<1>1. PICK n \in Nat : n = Len(w)  BY LenProperties
<1>2. \A i \in 1..n : w[i] \in WireByte  BY <1>1, ElementOfSeq
<1>3. k \in Nat /\ 1 <= k /\ k <= n  BY <1>1
<1>4. /\ SubSeq(w, 1, k) \in Seq(WireByte) /\ Len(SubSeq(w, 1, k)) = k
      /\ \A i \in 1..k : SubSeq(w, 1, k)[i] = w[i]
  <2>1. \A i \in 1..k : w[i] \in WireByte  BY <1>2, <1>3
  <2>2. /\ SubSeq(w, 1, k) \in Seq(WireByte)
        /\ Len(SubSeq(w, 1, k)) = IF 1 <= k THEN k - 1 + 1 ELSE 0
        /\ \A i \in 1..(k - 1 + 1) : SubSeq(w, 1, k)[i] = w[1 + i - 1]
    BY <1>3, <2>1, SubSeqProperties
  <2>3. k - 1 + 1 = k /\ \A i \in 1..k : 1 + i - 1 = i  BY <1>3
  <2>4. QED  BY <1>3, <2>2, <2>3
<1>5. PICK s \in Nat : s = k + 1  BY <1>3
<1>6. /\ SubSeq(w, s, n) \in Seq(WireByte)
      /\ Len(SubSeq(w, s, n)) = IF s <= n THEN n - s + 1 ELSE 0
      /\ \A i \in 1..(n - s + 1) : SubSeq(w, s, n)[i] = w[s + i - 1]
  <2>1. \A i \in s..n : w[i] \in WireByte  BY <1>2, <1>3, <1>5
  <2>2. s \in Int /\ n \in Int  OBVIOUS
  <2>3. QED  BY <2>1, <2>2, SubSeqProperties
<1>7. /\ Len(SubSeq(w, s, n)) = n - k
      /\ \A i \in 1..(n - k) : SubSeq(w, s, n)[i] = w[k + i]
  <2>1. n - s + 1 = n - k /\ (~(s <= n) => n - k = 0)  BY <1>3, <1>5
  <2>2. \A i \in 1..(n - k) : s + i - 1 = k + i  BY <1>3, <1>5
  <2>3. QED  BY <1>6, <2>1, <2>2
<1>8. QED  BY <1>1, <1>4, <1>5, <1>6, <1>7

\* The way is whole: state by state, from any bytes whose way is known.
LEMMA PathStep ==
  ASSUME NEW w, NEW n \in Nat, n = Len(w), NEW st, Path(st, w), NEW i \in Nat, i < n
  PROVE  /\ st[i] \in CodecStates /\ st[i + 1] \in CodecStates
         /\ st[i + 1] = StateAfter(st[i], w[i + 1].byte)
         /\ w[i + 1].text = TextOf(st[i], w[i + 1].byte)
<1>1. i \in 0..n /\ i + 1 \in 0..n  OBVIOUS
<1>2. QED  BY <1>1 DEF Path

LEMMA PathOfChunk ==
  ASSUME NEW w \in Seq(WireByte), NEW k \in 1..Len(w), NEW st, Path(st, w)
  PROVE  \E sc : Path(sc, SubSeq(w, 1, k)) /\ sc[0] = st[0] /\ sc[k] = st[k]
<1>1. PICK n \in Nat : n = Len(w)  BY LenProperties
<1>2. k \in Nat /\ 1 <= k /\ k <= n  BY <1>1
<1>3. PICK c : c = SubSeq(w, 1, k)  OBVIOUS
<1>4. Len(c) = k /\ \A i \in 1..k : c[i] = w[i]  BY <1>3, CutWire
<1>5. PICK sc : sc = [i \in 0..k |-> st[i]]  OBVIOUS
<1>6. \A i \in 0..k : sc[i] = st[i]  BY <1>5
<1>7. sc \in [0..k -> CodecStates]
  <2>1. \A i \in 0..k : i \in 0..n  BY <1>2
  <2>2. \A i \in 0..k : st[i] \in CodecStates  BY <1>1, <2>1 DEF Path
  <2>3. QED  BY <1>5, <2>2
<1>8. ASSUME NEW i \in 0..k, i < k
      PROVE  /\ sc[i + 1] = StateAfter(sc[i], c[i + 1].byte)
             /\ c[i + 1].text = TextOf(sc[i], c[i + 1].byte)
  <2>1. i \in Nat /\ i < n /\ i + 1 \in 1..k /\ i + 1 \in 0..k  BY <1>2, <1>8
  <2>2. /\ st[i + 1] = StateAfter(st[i], w[i + 1].byte)
        /\ w[i + 1].text = TextOf(st[i], w[i + 1].byte)
    BY <1>1, <2>1, PathStep
  <2>3. sc[i + 1] = st[i + 1] /\ sc[i] = st[i] /\ c[i + 1] = w[i + 1]  BY <1>4, <1>6, <2>1
  <2>4. QED  BY <2>2, <2>3
<1>9. Path(sc, c)  BY <1>4, <1>7, <1>8 DEF Path
<1>10. sc[0] = st[0] /\ sc[k] = st[k]
  <2>1. 0 \in 0..k /\ k \in 0..k  BY <1>2
  <2>2. QED  BY <1>6, <2>1
<1>11. QED  BY <1>3, <1>9, <1>10

LEMMA PathOfRest ==
  ASSUME NEW w \in Seq(WireByte), NEW k \in 1..Len(w), NEW st, Path(st, w)
  PROVE  \E sr : /\ Path(sr, SubSeq(w, k + 1, Len(w))) /\ sr[0] = st[k]
                 /\ sr[Len(SubSeq(w, k + 1, Len(w)))] = st[Len(w)]
<1>1. PICK n \in Nat : n = Len(w)  BY LenProperties
<1>2. k \in Nat /\ 1 <= k /\ k <= n  BY <1>1
<1>3. PICK r : r = SubSeq(w, k + 1, Len(w))  OBVIOUS
<1>4. PICK l \in Nat : l = n - k /\ k + l = n  BY <1>2
<1>5. Len(r) = l /\ \A i \in 1..l : r[i] = w[k + i]  BY <1>1, <1>3, <1>4, CutWire
<1>6. PICK sr : sr = [i \in 0..l |-> st[k + i]]  OBVIOUS
<1>7. \A i \in 0..l : sr[i] = st[k + i]  BY <1>6
<1>8. sr \in [0..l -> CodecStates]
  <2>1. \A i \in 0..l : k + i \in 0..n  BY <1>2, <1>4
  <2>2. \A i \in 0..l : st[k + i] \in CodecStates  BY <1>1, <2>1 DEF Path
  <2>3. QED  BY <1>6, <2>2
<1>9. ASSUME NEW i \in 0..l, i < l
      PROVE  /\ sr[i + 1] = StateAfter(sr[i], r[i + 1].byte)
             /\ r[i + 1].text = TextOf(sr[i], r[i + 1].byte)
  <2>1. PICK j \in Nat : j = k + i  BY <1>2
  <2>2. j < n /\ j + 1 = k + (i + 1) /\ i + 1 \in 1..l /\ i + 1 \in 0..l  BY <1>2, <1>4, <1>9, <2>1
  <2>3. /\ st[j + 1] = StateAfter(st[j], w[j + 1].byte)
        /\ w[j + 1].text = TextOf(st[j], w[j + 1].byte)
    BY <1>1, <2>2, PathStep
  <2>4. sr[i + 1] = st[j + 1] /\ sr[i] = st[j] /\ r[i + 1] = w[j + 1]  BY <1>5, <1>7, <2>1, <2>2
  <2>5. QED  BY <2>3, <2>4
<1>10. Path(sr, r)  BY <1>5, <1>8, <1>9 DEF Path
<1>11. sr[0] = st[k] /\ sr[l] = st[n]
  <2>1. 0 \in 0..l /\ l \in 0..l /\ k + 0 = k  BY <1>2
  <2>2. QED  BY <1>4, <1>7, <2>1
<1>12. QED  BY <1>1, <1>3, <1>5, <1>10, <1>11

LEMMA PathContinues ==
  ASSUME NEW w \in Seq(WireByte), NEW item \in Seq(WireByte), NEW st, Path(st, w), NEW l, Path(l, item),
         st[Len(w)] = l[0]
  PROVE  \E x : Path(x, w \o item) /\ x[0] = st[0] /\ x[Len(w \o item)] = l[Len(item)]
<1>1. PICK n \in Nat, m \in Nat : n = Len(w) /\ m = Len(item)  BY LenProperties
<1>2. PICK u : u = w \o item  OBVIOUS
<1>3. Len(u) = n + m /\ \A i \in 1..(n + m) : u[i] = IF i <= n THEN w[i] ELSE item[i - n]
  BY <1>1, <1>2, ConcatProperties
<1>4. PICK t \in Nat : t = n + m  OBVIOUS
<1>5. PICK x : x = [i \in 0..t |-> IF i <= n THEN st[i] ELSE l[i - n]]  OBVIOUS
<1>6. \A i \in 0..t : i <= n => x[i] = st[i]  BY <1>5
<1>7. \A i \in 0..m : x[n + i] = l[i]
  <2>1. ASSUME NEW i \in 0..m PROVE x[n + i] = l[i]
    <3>1. n + i \in 0..t /\ (n + i) - n = i  BY <1>4
    <3>2. CASE i = 0
      <4>1. x[n + i] = st[n]  BY <1>6, <3>1, <3>2
      <4>2. QED  BY <1>1, <3>2, <4>1
    <3>3. CASE i # 0
      <4>1. ~(n + i <= n)  BY <3>3
      <4>2. QED  BY <1>5, <3>1, <4>1
    <3>4. QED  BY <3>2, <3>3
  <2>2. QED  BY <2>1
<1>8. \A i \in 0..n : st[i] \in CodecStates  BY <1>1 DEF Path
<1>9. \A i \in 0..m : l[i] \in CodecStates  BY <1>1 DEF Path
<1>10. x \in [0..t -> CodecStates]
  <2>1. ASSUME NEW i \in 0..t PROVE x[i] \in CodecStates
    <3>1. CASE i <= n
      <4>1. i \in 0..n  BY <3>1
      <4>2. QED  BY <1>6, <1>8, <3>1, <4>1
    <3>2. CASE ~(i <= n)
      <4>1. PICK j \in 0..m : n + j = i
        <5>1. i - n \in 0..m /\ n + (i - n) = i  BY <1>4, <3>2
        <5>2. QED  BY <5>1
      <4>2. QED  BY <1>7, <1>9, <4>1
    <3>3. QED  BY <3>1, <3>2
  <2>2. x = [i \in 0..t |-> x[i]]  BY <1>5
  <2>3. QED  BY <2>1, <2>2
<1>11. ASSUME NEW i \in 0..t, i < t
       PROVE  /\ x[i + 1] = StateAfter(x[i], u[i + 1].byte)
              /\ u[i + 1].text = TextOf(x[i], u[i + 1].byte)
  <2>1. i + 1 \in 1..(n + m) /\ i + 1 \in 0..t /\ i \in Nat  BY <1>4, <1>11
  <2>2. CASE i < n
    <3>1. u[i + 1] = w[i + 1]
      <4>1. i + 1 <= n  BY <2>2
      <4>2. QED  BY <1>3, <2>1, <4>1
    <3>2. x[i + 1] = st[i + 1] /\ x[i] = st[i]
      <4>1. i + 1 <= n /\ i <= n  BY <2>2
      <4>2. QED  BY <1>6, <2>1, <4>1
    <3>3. /\ st[i + 1] = StateAfter(st[i], w[i + 1].byte)
          /\ w[i + 1].text = TextOf(st[i], w[i + 1].byte)
      BY <1>1, <2>1, <2>2, PathStep
    <3>4. QED  BY <3>1, <3>2, <3>3
  <2>3. CASE ~(i < n)
    <3>1. PICK j \in Nat : i = n + j
      <4>1. i - n \in Nat /\ i = n + (i - n)  BY <2>1, <2>3
      <4>2. QED  BY <4>1
    <3>2. j < m /\ j \in 0..m /\ j + 1 \in 0..m /\ i + 1 = n + (j + 1) /\ (i + 1) - n = j + 1
      BY <1>4, <1>11, <3>1
    <3>3. u[i + 1] = item[j + 1]
      <4>1. ~(i + 1 <= n)  BY <2>1, <2>3
      <4>2. QED  BY <1>3, <2>1, <3>2, <4>1
    <3>4. x[i + 1] = l[j + 1] /\ x[i] = l[j]  BY <1>7, <3>1, <3>2
    <3>5. /\ l[j + 1] = StateAfter(l[j], item[j + 1].byte)
          /\ item[j + 1].text = TextOf(l[j], item[j + 1].byte)
      BY <1>1, <3>2, PathStep
    <3>6. QED  BY <3>3, <3>4, <3>5
  <2>4. QED  BY <2>2, <2>3
<1>12. Path(x, u)  BY <1>3, <1>4, <1>10, <1>11 DEF Path
<1>13. x[0] = st[0] /\ x[t] = l[m]
  <2>1. 0 \in 0..t /\ 0 <= n /\ m \in 0..m  OBVIOUS
  <2>2. QED  BY <1>4, <1>6, <1>7, <2>1
<1>14. QED  BY <1>1, <1>2, <1>3, <1>4, <1>12, <1>13

\* The inductive invariant: what is on its way decodes to plain text in the end.
TelnetTypes ==
    /\ wire \in Seq(WireByte)
    /\ codec.state \in CodecStates /\ codec.taken \in SUBSET Supported
    /\ pendingText \in Seq(TelnetByte) /\ meant \in Seq(TelnetByte)
    /\ frames \in Frames /\ flushed \in BOOLEAN

TelnetInv == TelnetTypes /\ WireDecodes /\ TextIsWhole /\ ChunksDoNotMatter

LEMMA TelnetStarts == TelnetInit => TelnetInv
<1> SUFFICES ASSUME TelnetInit PROVE TelnetInv
  OBVIOUS
<1>1. /\ wire = <<>> /\ codec.state = "data" /\ codec.taken = {} /\ pendingText = <<>>
      /\ frames = <<>> /\ flushed = FALSE /\ meant = <<>>
  BY DEF TelnetInit
<1>2. <<>> \in Seq(WireByte) /\ <<>> \in Seq(TelnetByte) /\ <<>> \in Seq(Seq(TelnetByte))
  BY EmptySeq
<1>3. TelnetTypes  BY <1>1, <1>2 DEF TelnetTypes, CodecStates, Frames
<1>4. WireDecodes
  <2>1. PICK st : st = [i \in 0..0 |-> "data"]  OBVIOUS
  <2>2. st[0] = "data" /\ st \in [0..0 -> CodecStates]  BY <2>1 DEF CodecStates
  <2>3. Len(wire) = 0  BY <1>1, EmptySeq
  <2>4. ~(\E i \in 0..0 : i < 0)  OBVIOUS
  <2>5. Path(st, wire)  BY <2>2, <2>3, <2>4 DEF Path
  <2>6. QED  BY <1>1, <2>2, <2>3, <2>5 DEF WireDecodes
<1>5. TextIsWhole
  <2>1. FlattenSeq(<<>>) = <<>>  BY EmptySeq DEF FlattenSeq
  <2>2. <<>> \o <<>> = <<>>  BY <1>2, ConcatEmptySeq
  <2>3. QED  BY <1>1, <2>1, <2>2 DEF TextIsWhole
<1>6. ChunksDoNotMatter
  <2>1. PICK m \in Seq(TelnetByte) : m = <<>> /\ Len(m) = 0  BY <1>2, EmptySeq
  <2>2. PICK R : Cuts(R, m)  BY CutsExist
  <2>3. PICK n \in Nat : n = 0  OBVIOUS
  <2>4. FramedBy(R, n, m)  BY <2>1, <2>2, <2>3, FeedFramerIs
  <2>5. R[n] = NothingCut  BY <2>2, <2>3 DEF Cuts
  <2>6. R[n].out = <<>> /\ R[n].start = 1  BY <2>5 DEF NothingCut
  <2>7. SubSeq(m, 1, n) = <<>>  BY <2>3, SubSeqEmpty
  <2>8. FeedFramer(m).out = <<>> /\ FeedFramer(m).rest = <<>>  BY <2>4, <2>6, <2>7 DEF FramedBy
  <2>9. QED  BY <1>1, <2>1, <2>8 DEF ChunksDoNotMatter
<1>7. QED  BY <1>3, <1>4, <1>5, <1>6 DEF TelnetInv

LEMMA SendKeeps ==
  ASSUME TelnetInv, NEW item \in WorldItems, WorldSends(item)
  PROVE  TelnetInv'
<1>1. wire' = wire \o item /\ UNCHANGED <<codec, pendingText, frames, flushed, meant>>
  BY DEF WorldSends
<1>2. item \in Seq(WireByte)  BY ItemDecodes
<1>3. wire \in Seq(WireByte)  BY DEF TelnetInv, TelnetTypes
<1>4. wire' \in Seq(WireByte)  BY <1>1, <1>2, <1>3, ConcatProperties
<1>5. TelnetTypes'  BY <1>1, <1>4 DEF TelnetInv, TelnetTypes
<1>6. WireDecodes'
  <2>1. PICK st : Path(st, wire) /\ st[0] = codec.state /\ st[Len(wire)] = "data"
    BY DEF TelnetInv, WireDecodes
  <2>2. PICK l : Path(l, item) /\ l[0] = "data" /\ l[Len(item)] = "data"  BY ItemDecodes
  <2>3. PICK x : /\ Path(x, wire \o item) /\ x[0] = st[0]
                 /\ x[Len(wire \o item)] = l[Len(item)]
    BY <1>2, <1>3, <2>1, <2>2, PathContinues
  <2>4. Path(x, wire') /\ x[0] = codec'.state /\ x[Len(wire')] = "data"
    BY <1>1, <2>1, <2>2, <2>3
  <2>5. QED  BY <2>4 DEF WireDecodes
<1>7. TextIsWhole'  BY <1>1 DEF TelnetInv, TextIsWhole
<1>8. ChunksDoNotMatter'
  <2>1. FeedFramer(meant)' = FeedFramer(meant)  BY <1>1 DEF FeedFramer, CutAt
  <2>2. QED  BY <1>1, <2>1 DEF TelnetInv, ChunksDoNotMatter
<1>9. QED  BY <1>5, <1>6, <1>7, <1>8 DEF TelnetInv

LEMMA ReadKeeps ==
  ASSUME TelnetInv, NEW k \in 1..Len(wire), ReadChunk(k)
  PROVE  TelnetInv'
<1>1. /\ wire \in Seq(WireByte) /\ codec.state \in CodecStates /\ codec.taken \in SUBSET Supported
      /\ pendingText \in Seq(TelnetByte) /\ meant \in Seq(TelnetByte) /\ frames \in Frames
      /\ flushed \in BOOLEAN
  BY DEF TelnetInv, TelnetTypes
<1>2. PICK chunk : chunk = SubSeq(wire, 1, k)  OBVIOUS
<1>3. PICK text : text = FeedCodec(chunk).text  OBVIOUS
<1>4. PICK v : v = pendingText \o text  OBVIOUS
<1>5. /\ wire' = SubSeq(wire, k + 1, Len(wire))
      /\ codec' = [state |-> FeedCodec(chunk).state, taken |-> FeedCodec(chunk).taken]
      /\ frames' = frames \o FeedFramer(v).out /\ pendingText' = FeedFramer(v).rest
      /\ meant' = meant \o FlattenSeq([i \in 1..k |-> chunk[i].text])
      /\ flushed' = flushed
  BY <1>2, <1>3, <1>4, Zenon DEF ReadChunk
<1>6. chunk \in Seq(WireByte) /\ Len(chunk) = k  BY <1>1, <1>2, CutWire
<1>7. PICK st : Path(st, wire) /\ st[0] = codec.state /\ st[Len(wire)] = "data"
  BY DEF TelnetInv, WireDecodes
<1>8. PICK sc : Path(sc, chunk) /\ sc[0] = codec.state /\ sc[k] = st[k]
  <2>1. PICK sc : Path(sc, SubSeq(wire, 1, k)) /\ sc[0] = st[0] /\ sc[k] = st[k]
    BY <1>1, <1>7, PathOfChunk, Zenon
  <2>2. Path(sc, chunk) /\ sc[0] = codec.state /\ sc[k] = st[k]  BY <1>2, <1>7, <2>1, Zenon
  <2>3. QED  BY <2>2, Zenon
<1>9. /\ FeedCodec(chunk).state = st[k] /\ FeedCodec(chunk).taken \in SUBSET Supported
      /\ text = FlattenSeq(TextsOf(chunk))
  BY <1>1, <1>3, <1>6, <1>8, FeedCodecIs
<1>10. text \in Seq(TelnetByte)
  <2>1. TextsOf(chunk) \in Seq(Seq(TelnetByte))  BY <1>6, TextsOfType
  <2>2. QED  BY <1>9, <2>1, FlattenType
<1>11. meant' = meant \o text
  <2>1. TextsOf(chunk) = [i \in 1..k |-> chunk[i].text]  BY <1>6 DEF TextsOf
  <2>2. QED  BY <1>5, <1>9, <2>1
<1>12. v \in Seq(TelnetByte)  BY <1>1, <1>4, <1>10, ConcatProperties
<1>13. /\ FeedFramer(v).out \in Frames /\ FeedFramer(v).rest \in Seq(TelnetByte)
       /\ FlattenSeq(FeedFramer(v).out) \o FeedFramer(v).rest = v
  BY <1>12, FramerKeeps
<1>14. st[k] \in CodecStates
  <2>1. PICK n \in Nat : n = Len(wire)  BY <1>1, LenProperties
  <2>2. k \in 0..Len(wire)  BY <2>1
  <2>3. QED  BY <1>7, <2>2 DEF Path
<1>15. TelnetTypes'
  <2>1. wire' \in Seq(WireByte)  BY <1>1, <1>5, CutWire
  <2>2. codec'.state \in CodecStates /\ codec'.taken \in SUBSET Supported  BY <1>5, <1>9, <1>14
  <2>3. meant' \in Seq(TelnetByte)  BY <1>1, <1>10, <1>11, ConcatProperties
  <2>4. frames' \in Frames  BY <1>1, <1>5, <1>13, ConcatProperties DEF Frames
  <2>5. QED  BY <1>1, <1>5, <1>13, <2>1, <2>2, <2>3, <2>4 DEF TelnetTypes
<1>16. WireDecodes'
  <2>1. PICK sr : Path(sr, wire') /\ sr[0] = st[k] /\ sr[Len(wire')] = st[Len(wire)]
    <3>1. PICK sr : /\ Path(sr, SubSeq(wire, k + 1, Len(wire))) /\ sr[0] = st[k]
                    /\ sr[Len(SubSeq(wire, k + 1, Len(wire)))] = st[Len(wire)]
      BY <1>1, <1>7, PathOfRest, Zenon
    <3>2. Path(sr, wire') /\ sr[0] = st[k] /\ sr[Len(wire')] = st[Len(wire)]  BY <1>5, <3>1, Zenon
    <3>3. QED  BY <3>2, Zenon
  <2>2. sr[0] = codec'.state /\ sr[Len(wire')] = "data"  BY <1>5, <1>7, <1>9, <2>1
  <2>3. QED  BY <2>1, <2>2 DEF WireDecodes
<1>17. TextIsWhole'
  <2>1. PICK ff \in Seq(TelnetByte), fv \in Seq(TelnetByte) :
            ff = FlattenSeq(frames) /\ fv = FlattenSeq(FeedFramer(v).out)
    BY <1>1, <1>13, FlattenType DEF Frames
  <2>2. FlattenSeq(frames') = ff \o fv
    BY <1>1, <1>5, <1>13, <2>1, FlattenConcat DEF Frames
  <2>3. PICK r \in Seq(TelnetByte) : r = FeedFramer(v).rest /\ pendingText' = r  BY <1>5, <1>13
  <2>4. fv \o r = pendingText \o text  BY <1>4, <1>13, <2>1, <2>3
  <2>5. ff \o pendingText = meant  BY <2>1 DEF TelnetInv, TextIsWhole
  <2>6. (ff \o fv) \o r = ff \o (fv \o r)  BY <2>1, ConcatAssociative, SMTT(30)
  <2>7. ff \o (pendingText \o text) = (ff \o pendingText) \o text
    <3>1. PICK p \in Seq(TelnetByte), t \in Seq(TelnetByte) : p = pendingText /\ t = text
      BY <1>1, <1>10
    <3>2. (ff \o p) \o t = ff \o (p \o t)  BY ConcatAssociative, SMTT(30)
    <3>3. QED  BY <3>1, <3>2
  <2>8. FlattenSeq(frames') \o pendingText' = meant'
    BY <1>11, <2>2, <2>3, <2>4, <2>5, <2>6, <2>7, Zenon
  <2>9. QED  BY <2>8 DEF TextIsWhole
<1>18. ChunksDoNotMatter'
  <2>1. ASSUME ~flushed
        PROVE  frames' = FeedFramer(meant').out /\ pendingText' = FeedFramer(meant').rest
    <3>1. frames = FeedFramer(meant).out /\ pendingText = FeedFramer(meant).rest
      BY <2>1 DEF TelnetInv, ChunksDoNotMatter
    <3>2. FeedFramer(meant).rest \o text = v  BY <1>4, <3>1
    <3>3. /\ FeedFramer(meant \o text).out = FeedFramer(meant).out \o FeedFramer(v).out
          /\ FeedFramer(meant \o text).rest = FeedFramer(v).rest
      BY <1>1, <1>10, <3>2, FramerContinues
    <3>4. QED  BY <1>5, <1>11, <3>1, <3>3
  <2>2. FeedFramer(meant)' = FeedFramer(meant')  BY DEF FeedFramer, CutAt
  <2>3. QED  BY <1>5, <2>1, <2>2 DEF ChunksDoNotMatter
<1>19. QED  BY <1>15, <1>16, <1>17, <1>18 DEF TelnetInv

LEMMA FlushKeeps ==
  ASSUME TelnetInv, FlushPrompt
  PROVE  TelnetInv'
<1>1. /\ frames' = Append(frames, pendingText) /\ pendingText' = <<>> /\ flushed' = TRUE
      /\ UNCHANGED <<wire, codec, meant>>
  BY DEF FlushPrompt
<1>2. frames \in Seq(Seq(TelnetByte)) /\ pendingText \in Seq(TelnetByte)
  BY DEF TelnetInv, TelnetTypes, Frames
<1>3. <<pendingText>> \in Seq(Seq(TelnetByte))  BY <1>2
<1>4. frames' = frames \o <<pendingText>> /\ frames' \in Frames
  BY <1>1, <1>2, AppendIsConcat, AppendProperties DEF Frames
<1>5. TelnetTypes'
  <2>1. pendingText' \in Seq(TelnetByte) /\ flushed' \in BOOLEAN  BY <1>1, EmptySeq
  <2>2. QED  BY <1>1, <1>4, <2>1 DEF TelnetInv, TelnetTypes
<1>6. WireDecodes'
  <2>1. PICK st : Path(st, wire) /\ st[0] = codec.state /\ st[Len(wire)] = "data"
    BY DEF TelnetInv, WireDecodes
  <2>2. Path(st, wire') /\ st[0] = codec'.state /\ st[Len(wire')] = "data"  BY <1>1, <2>1
  <2>3. QED  BY <2>2 DEF WireDecodes
<1>7. TextIsWhole'
  <2>1. FlattenSeq(frames') = FlattenSeq(frames) \o FlattenSeq(<<pendingText>>)
    BY <1>2, <1>3, <1>4, FlattenConcat
  <2>2. FlattenSeq(<<pendingText>>) = pendingText  BY <1>2, FlattenOne
  <2>3. FlattenSeq(frames') = meant  BY <2>1, <2>2 DEF TelnetInv, TextIsWhole
  <2>4. meant \in Seq(TelnetByte)  BY DEF TelnetInv, TelnetTypes
  <2>5. meant \o <<>> = meant  BY <2>4, ConcatEmptySeq
  <2>6. QED  BY <1>1, <2>3, <2>5 DEF TextIsWhole
<1>8. ChunksDoNotMatter'  BY <1>1 DEF ChunksDoNotMatter
<1>9. QED  BY <1>5, <1>6, <1>7, <1>8 DEF TelnetInv

\* The frames and what is pending are the text that the world meant, and without a prompt that
\* is flushed they are those of the whole text read at once, wherever the chunks are cut.
THEOREM LinesAreSound == TelnetSpec => []LinesSound
<1>1. TelnetInit => TelnetInv  BY TelnetStarts
<1>2. TelnetInv /\ [TelnetNext]_telnetVars => TelnetInv'
  <2> SUFFICES ASSUME TelnetInv, [TelnetNext]_telnetVars PROVE TelnetInv'
    OBVIOUS
  <2>1. CASE \E item \in WorldItems : WorldSends(item)  BY <2>1, SendKeeps
  <2>2. CASE \E k \in 1..Len(wire) : ReadChunk(k)  BY <2>2, ReadKeeps
  <2>3. CASE FlushPrompt  BY <2>3, FlushKeeps
  <2>4. CASE UNCHANGED telnetVars
    <3>1. UNCHANGED <<wire, codec, pendingText, frames, flushed, meant>>  BY <2>4 DEF telnetVars
    <3>2. TelnetTypes'  BY <3>1 DEF TelnetInv, TelnetTypes
    <3>3. WireDecodes'
      <4>1. PICK st : Path(st, wire) /\ st[0] = codec.state /\ st[Len(wire)] = "data"
        BY DEF TelnetInv, WireDecodes
      <4>2. Path(st, wire') /\ st[0] = codec'.state /\ st[Len(wire')] = "data"  BY <3>1, <4>1
      <4>3. QED  BY <4>2 DEF WireDecodes
    <3>4. TextIsWhole'  BY <3>1 DEF TelnetInv, TextIsWhole
    <3>5. ChunksDoNotMatter'
      <4>1. FeedFramer(meant)' = FeedFramer(meant)  BY <3>1 DEF FeedFramer, CutAt
      <4>2. QED  BY <3>1, <4>1 DEF TelnetInv, ChunksDoNotMatter
    <3>6. QED  BY <3>2, <3>3, <3>4, <3>5 DEF TelnetInv
  <2>5. QED  BY <2>1, <2>2, <2>3, <2>4 DEF TelnetNext
<1>3. TelnetInv => LinesSound  BY DEF TelnetInv, LinesSound
<1>4. QED  BY <1>1, <1>2, <1>3, PTL DEF TelnetSpec
-----------------------------------------------------------------------------
(* The commands: WorldCommands.                                            *)

USE CommandsAssumption

(* What Tail and Append leave of a queue.                                  *)
LEMMA TailItems ==
  ASSUME NEW S, NEW q \in Seq(S), q # <<>>
  PROVE  /\ Head(q) = q[1] /\ q[1] \in S /\ 1 \in DOMAIN q
         /\ Tail(q) \in Seq(S) /\ Len(Tail(q)) = Len(q) - 1
         /\ \A j \in DOMAIN Tail(q) :
              Tail(q)[j] = q[j + 1] /\ j + 1 \in DOMAIN q /\ j \in Nat \ {0}
  <1>1. Len(q) \in Nat /\ DOMAIN q = 1 .. Len(q) /\ Len(q) # 0
    BY LenProperties, EmptySeq
  <1>2. /\ Head(q) \in S /\ Tail(q) \in Seq(S) /\ Len(Tail(q)) = Len(q) - 1
        /\ \A j \in 1 .. Len(Tail(q)) : Tail(q)[j] = q[j + 1]
        /\ Head(q) = q[1]
    BY HeadTailProperties
  <1>3. DOMAIN Tail(q) = 1 .. Len(q) - 1
    BY <1>2, LenProperties
  <1> QED
    BY <1>1, <1>2, <1>3

LEMMA AppendItems ==
  ASSUME NEW S, NEW q \in Seq(S), NEW x \in S
  PROVE  /\ Append(q, x) \in Seq(S) /\ Len(Append(q, x)) = Len(q) + 1
         /\ \A j \in DOMAIN Append(q, x) :
              \/ j \in DOMAIN q /\ Append(q, x)[j] = q[j]
              \/ j = Len(q) + 1 /\ Append(q, x)[j] = x
         /\ \A j \in DOMAIN q : j \in Nat /\ j < Len(q) + 1
  <1>1. Len(q) \in Nat /\ DOMAIN q = 1 .. Len(q)
    BY LenProperties
  <1>2. /\ Append(q, x) \in Seq(S) /\ Len(Append(q, x)) = Len(q) + 1
        /\ \A i \in 1 .. Len(q) : Append(q, x)[i] = q[i]
        /\ Append(q, x)[Len(q) + 1] = x
    BY AppendProperties
  <1>3. DOMAIN Append(q, x) = 1 .. Len(q) + 1
    BY <1>1, <1>2, LenProperties
  <1> QED
    BY <1>1, <1>2, <1>3

-----------------------------------------------------------------------------
Session == [runner : BOOLEAN, holding : Nat \cup {None}, state : States, generation : Nat]
World == [phase : {"none", "connecting", "startup", "serving", "waiting"}, state : States,
          generation : Nat, quit : BOOLEAN, sent : 0 .. StartupCount]
ToWorld == [type : {"start", "stop", "send"}, n : Nat]
ToGateway == [state : States, generation : Nat]

(* Counting a step against a bound.                                        *)
LEMMA Counted ==
  ASSUME NEW u \in [attempts : Nat, controls : Nat, restarts : Nat]
  PROVE  /\ [u EXCEPT !.attempts = @ + 1] \in [attempts : Nat, controls : Nat, restarts : Nat]
         /\ [u EXCEPT !.controls = @ + 1] \in [attempts : Nat, controls : Nat, restarts : Nat]
         /\ [u EXCEPT !.restarts = @ + 1] \in [attempts : Nat, controls : Nat, restarts : Nat]
  <1>1. u.attempts + 1 \in Nat /\ u.controls + 1 \in Nat /\ u.restarts + 1 \in Nat
    OBVIOUS
  <1> QED
    BY <1>1

LEMMA InitTypeOK == Init => TypeOK
  <1> SUFFICES ASSUME Init PROVE TypeOK
    OBVIOUS
  <1>1. Autoconnect \in BOOLEAN /\ StartupCount \in Nat /\ WorldQueueSize \in Nat
    BY DEF CommandsAssumption
  <1>2. <<[type |-> "start", n |-> 0]>> \in Seq(ToWorld)
    BY DEF ToWorld
  <1>3. toWorld \in Seq(ToWorld)
    BY <1>2, EmptySeq DEF Init
  <1>4. /\ submitted \in Seq(Nat \cup {None}) /\ toGateway \in Seq([state : States, generation : Nat])
        /\ commands \in Seq(Items) /\ Len(commands) = 0
        /\ written \in Seq([item : Items, generation : Nat])
    BY EmptySeq DEF Init
  <1>5. session \in Session /\ session.runner = Autoconnect /\ session.holding = None
    BY <1>1 DEF Init, Session, States
  <1>6. (session.runner <=> queue # None) /\ (queue # None => queue \in Seq(Nat))
    <2>1. <<>> # None
      <3>1. None \notin Seq(Nat) /\ <<>> \in Seq(Nat)
        BY EmptySeq DEF CommandsAssumption
      <3> QED
        BY <3>1
    <2> QED
      BY <1>5, <2>1, EmptySeq DEF Init
  <1>7. world \in World
    BY <1>1 DEF Init, World, States
  <1> QED
    BY <1>1, <1>3, <1>4, <1>5, <1>6, <1>7 DEF TypeOK, Init, Session, World, ToWorld

(* TypeOK, one fact per variable.                                          *)
LEMMA Types ==
  ASSUME TypeOK
  PROVE  /\ submitted \in Seq(Nat \cup {None})
         /\ session \in Session
         /\ (session.runner <=> queue # None) /\ (~session.runner => session.holding = None)
         /\ queue # None => queue \in Seq(Nat)
         /\ control \in {"idle", "refused", "disconnect", "reconnect", "starting"}
         /\ toWorld \in Seq(ToWorld)
         /\ toGateway \in Seq(ToGateway)
         /\ blocked \in Nat \cup {None}
         /\ world \in World
         /\ commands \in Seq(Items) /\ Len(commands) <= WorldQueueSize
         /\ written \in Seq([item : Items, generation : Nat])
         /\ used \in [attempts : Nat, controls : Nat, restarts : Nat]
  BY DEF TypeOK, Session, World, ToWorld, ToGateway

LEMMA TypesMeanTypeOK ==
  ASSUME /\ submitted' \in Seq(Nat \cup {None})
         /\ session' \in Session
         /\ (session'.runner <=> queue' # None) /\ (~session'.runner => session'.holding = None)
         /\ queue' # None => queue' \in Seq(Nat)
         /\ control' \in {"idle", "refused", "disconnect", "reconnect", "starting"}
         /\ toWorld' \in Seq(ToWorld)
         /\ toGateway' \in Seq(ToGateway)
         /\ blocked' \in Nat \cup {None}
         /\ world' \in World
         /\ commands' \in Seq(Items) /\ Len(commands') <= WorldQueueSize
         /\ written' \in Seq([item : Items, generation : Nat])
         /\ used' \in [attempts : Nat, controls : Nat, restarts : Nat]
  PROVE  TypeOK'
  BY DEF TypeOK, Session, World, ToWorld, ToGateway, Items, States

LEMMA SignalType ==
  ASSUME TypeOK, NEW type \in {"start", "stop", "send"}, Signal(type)
  PROVE  toWorld' \in Seq(ToWorld)
  <1>1. [type |-> type, n |-> 0] \in ToWorld
    BY DEF ToWorld
  <1> QED
    BY <1>1, Types, AppendProperties DEF Signal

(* The steps of the Gateway.                                               *)
LEMMA GatewayTypeOK ==
  ASSUME TypeOK, GatewayStep
  PROVE  TypeOK'
  <1>0. /\ submitted \in Seq(Nat \cup {None}) /\ session \in Session
        /\ (session.runner <=> queue # None) /\ (~session.runner => session.holding = None)
        /\ queue # None => queue \in Seq(Nat)
        /\ control \in {"idle", "refused", "disconnect", "reconnect", "starting"}
        /\ toWorld \in Seq(ToWorld) /\ toGateway \in Seq(ToGateway)
        /\ used \in [attempts : Nat, controls : Nat, restarts : Nat]
    BY Types
  <1>1. ASSUME NEW expected \in {None, session.generation}, Submit(expected) PROVE TypeOK'
    <2>1. expected \in Nat \cup {None}
      BY <1>0 DEF Session
    <2>2. submitted' \in Seq(Nat \cup {None}) /\ Len(submitted') \in Nat
      BY <1>0, <1>1, <2>1, AppendProperties, LenProperties DEF Submit
    <2>3. queue \in Seq(Nat) /\ queue' = Append(queue, Len(submitted'))
      BY <1>0, <1>1 DEF Submit
    <2>4. queue' \in Seq(Nat)
      BY <2>2, <2>3, AppendProperties
    <2>5. queue' # None /\ queue # None
      BY <2>3, <2>4 DEF CommandsAssumption
    <2>6. UNCHANGED <<session, control, toWorld, toGateway, blocked, world, commands, written, used>>
      BY <1>1 DEF Submit
    <2> QED
      BY <2>2, <2>4, <2>5, <2>6, Types, TypesMeanTypeOK
  <1>2. CASE TakeCommand
    <2>1. queue \in Seq(Nat) /\ queue # <<>> /\ queue' = Tail(queue)
      BY <1>0, <1>2 DEF TakeCommand
    <2>2. Head(queue) \in Nat /\ queue' \in Seq(Nat)
      BY <2>1, HeadTailProperties
    <2>3. queue' # None
      BY <2>2 DEF CommandsAssumption
    <2>4. session' \in Session /\ session'.runner /\ session.runner
      BY <1>0, <1>2, <2>2 DEF TakeCommand, Session
    <2>5. UNCHANGED <<submitted, control, toWorld, toGateway, blocked, world, commands, written, used>>
      BY <1>2 DEF TakeCommand
    <2> QED
      BY <2>2, <2>3, <2>4, <2>5, Types, TypesMeanTypeOK
  <1>3. CASE SendCommand
    <2>1. session' \in Session /\ session'.runner /\ session.runner /\ session.holding \in Nat
      BY <1>0, <1>3 DEF SendCommand, Session
    <2>2. [type |-> "send", n |-> session.holding] \in ToWorld
      BY <2>1 DEF ToWorld
    <2>3. toWorld' \in Seq(ToWorld)
      BY <1>0, <1>3, <2>2, AppendProperties DEF SendCommand
    <2>4. UNCHANGED <<submitted, queue, control, toGateway, blocked, world, commands, written, used>>
      BY <1>3 DEF SendCommand
    <2> QED
      BY <2>1, <2>3, <2>4, Types, TypesMeanTypeOK
  <1>4. CASE HandleState
    <2>1. Head(toGateway) \in ToGateway /\ toGateway' \in Seq(ToGateway)
      BY <1>0, <1>4, HeadTailProperties DEF HandleState
    <2>2. /\ session' \in Session /\ session'.runner = session.runner
          /\ session'.holding = session.holding
      BY <1>0, <1>4, <2>1 DEF HandleState, Session, ToGateway
    <2>3. UNCHANGED <<submitted, queue, control, toWorld, blocked, world, commands, written, used>>
      BY <1>4 DEF HandleState
    <2> QED
      BY <2>1, <2>2, <2>3, Types, TypesMeanTypeOK
  <1>5. ASSUME Start
        PROVE  /\ session' \in Session /\ control' \in {"idle", "refused"}
               /\ (session'.runner <=> queue' # None) /\ (~session'.runner => session'.holding = None)
               /\ queue' # None => queue' \in Seq(Nat)
               /\ toWorld' \in Seq(ToWorld)
    <2>1. <<>> # None
      BY EmptySeq DEF CommandsAssumption
    <2>2. CASE session.runner
      BY <1>0, <1>5, <2>2 DEF Start
    <2>3. CASE ~session.runner
      <3>1. session' \in Session /\ session'.runner
        BY <1>0, <1>5, <2>3 DEF Start, Session
      <3>2. queue' = <<>> /\ control' = "idle" /\ Signal("start")
        BY <1>5, <2>3 DEF Start
      <3> QED
        BY <2>1, <3>1, <3>2, SignalType, EmptySeq
    <2> QED
      BY <2>2, <2>3
  <1>6. ASSUME NEW action \in {"connect", "disconnect", "reconnect"}, Control(action) PROVE TypeOK'
    <2>1. /\ used' \in [attempts : Nat, controls : Nat, restarts : Nat]
          /\ UNCHANGED <<submitted, toGateway, blocked, world, commands, written>>
      <3>1. /\ used' = [used EXCEPT !.controls = @ + 1]
            /\ UNCHANGED <<submitted, toGateway, blocked, world, commands, written>>
        BY <1>6 DEF Control
      <3> QED
        BY <1>0, <3>1, Counted
    <2>2. CASE action = "connect"
      <3>1. Start
        BY <1>6, <2>2 DEF Control
      <3> QED
        BY <1>5, <2>1, <3>1, Types, TypesMeanTypeOK
    <2>3. CASE action # "connect"
      <3>1. control' = action /\ Signal("stop") /\ UNCHANGED <<session, queue>>
        BY <1>6, <2>3 DEF Control
      <3>2. toWorld' \in Seq(ToWorld)
        BY <3>1, SignalType
      <3> QED
        BY <2>1, <2>3, <3>1, <3>2, Types, TypesMeanTypeOK
    <2> QED
      BY <2>2, <2>3
  <1>7. CASE Detach
    <2>1. session' \in Session /\ ~session'.runner /\ session'.holding = None
      BY <1>0, <1>7 DEF Detach, Stopped, Session, States
    <2>2. /\ queue' = None /\ control' \in {"starting", "idle"}
          /\ UNCHANGED <<submitted, toWorld, toGateway, blocked, world, commands, written, used>>
      BY <1>7 DEF Detach
    <2> QED
      BY <2>1, <2>2, Types, TypesMeanTypeOK
  <1>8. CASE Restart
    <2>1. Start /\ UNCHANGED <<submitted, toGateway, blocked, world, commands, written, used>>
      BY <1>8 DEF Restart
    <2> QED
      BY <1>5, <2>1, Types, TypesMeanTypeOK
  <1>9. CASE GatewayRestart
    <2>1. Autoconnect \in BOOLEAN /\ <<>> # None
      BY EmptySeq DEF CommandsAssumption
    <2>2. /\ session' \in Session /\ session'.runner = Autoconnect /\ session'.holding = None
          /\ used' \in [attempts : Nat, controls : Nat, restarts : Nat]
      <3>1. /\ used' = [used EXCEPT !.restarts = @ + 1]
            /\ session' = [runner |-> Autoconnect, holding |-> None, state |-> "stopped",
                            generation |-> 0]
        BY <1>9 DEF GatewayRestart
      <3>2. used' \in [attempts : Nat, controls : Nat, restarts : Nat]
        BY <1>0, <3>1, Counted
      <3> QED
        BY <2>1, <3>1, <3>2 DEF Session, States
    <2>3. /\ queue' = IF Autoconnect THEN <<>> ELSE None
          /\ control' = "idle"
          /\ Signal("start") \/ UNCHANGED toWorld
          /\ UNCHANGED <<submitted, toGateway, blocked, world, commands, written>>
      BY <1>9 DEF GatewayRestart
    <2>4. toWorld' \in Seq(ToWorld)
      BY <1>0, <2>3, SignalType
    <2>5. (session'.runner <=> queue' # None) /\ (queue' # None => queue' \in Seq(Nat))
      BY <2>1, <2>2, <2>3, EmptySeq
    <2> QED
      BY <2>2, <2>3, <2>4, <2>5, Types, TypesMeanTypeOK
  <1> QED
    BY <1>1, <1>2, <1>3, <1>4, <1>6, <1>7, <1>8, <1>9 DEF GatewayStep

(* The steps of the connector.                                             *)
LEMMA ItemTypes ==
  /\ \A n \in Nat : Command(n) \in Items
  /\ \A g \in Nat, k \in 1 .. StartupCount : Startup(g, k) \in Items
  BY DEF Items, Command, Startup

LEMMA TellType ==
  ASSUME TypeOK, NEW states \in Seq(States), NEW g \in Nat, Tell(states, g)
  PROVE  toGateway' \in Seq(ToGateway)
  <1> DEFINE notes == [i \in DOMAIN states |-> Note(states[i], g)]
  <1>1. DOMAIN states = 1 .. Len(states) /\ Len(states) \in Nat
    BY LenProperties
  <1>2. \A i \in 1 .. Len(states) : Note(states[i], g) \in ToGateway
    BY ElementOfSeq DEF Note, ToGateway
  <1>3. notes \in [1 .. Len(states) -> ToGateway]
    BY <1>1, <1>2
  <1>4. notes \in Seq(ToGateway)
    BY <1>1, <1>3, SeqDef
  <1> HIDE DEF notes
  <1>5. toGateway' = toGateway \o notes
    BY DEF Tell, notes
  <1> QED
    BY <1>4, <1>5, Types, ConcatProperties

LEMMA ConnectorTypeOK ==
  ASSUME TypeOK, ConnectorStep
  PROVE  TypeOK'
  <1>0. /\ toWorld \in Seq(ToWorld) /\ world \in World /\ blocked \in Nat \cup {None}
        /\ commands \in Seq(Items) /\ Len(commands) <= WorldQueueSize /\ Len(commands) \in Nat
        /\ toGateway \in Seq(ToGateway)
        /\ written \in Seq([item : Items, generation : Nat])
        /\ used \in [attempts : Nat, controls : Nat, restarts : Nat]
    BY Types, LenProperties
  <1>u. ASSUME UNCHANGED upstream
        PROVE  UNCHANGED <<submitted, session, queue, control>>
    BY <1>u DEF upstream
  <1>w. WorldQueueSize \in Nat /\ StartupCount \in Nat
    BY DEF CommandsAssumption
  <1>t. ASSUME NEW state \in States PROVE <<state>> \in Seq(States)
    OBVIOUS
  <1>a. ASSUME Abandon PROVE commands' \in Seq(Items) /\ Len(commands') <= WorldQueueSize
    <2>1. commands' = commands \/ (commands # <<>> /\ commands' = Tail(commands))
      BY <1>a DEF Abandon
    <2>2. CASE commands # <<>> /\ commands' = Tail(commands)
      <3>1. commands' \in Seq(Items) /\ Len(commands') = Len(commands) - 1
        BY <1>0, <2>2, TailItems
      <3> QED
        BY <1>0, <1>w, <3>1
    <2> QED
      BY <1>0, <2>1, <2>2
  <1>p. ASSUME NEW x \in Items, Len(commands) < WorldQueueSize
        PROVE  Append(commands, x) \in Seq(Items) /\ Len(Append(commands, x)) <= WorldQueueSize
    <2>1. Append(commands, x) \in Seq(Items) /\ Len(Append(commands, x)) = Len(commands) + 1
      BY <1>0, AppendProperties
    <2> QED
      BY <1>0, <1>p, <1>w, <2>1
  <1>e. ASSUME Ended PROVE world' \in World /\ toGateway' \in Seq(ToGateway)
    <2>1. /\ world' \in World /\ world'.state \in States /\ world.generation \in Nat
          /\ Tell(<<"disconnected", world'.state>>, world.generation)
      BY <1>0, <1>e DEF Ended, World, States
    <2>2. <<"disconnected", world'.state>> \in Seq(States)
      BY <2>1 DEF States
    <2> QED
      BY <2>1, <2>2, TellType
  <1>1. CASE Receive
    <2> DEFINE m == Head(toWorld)
    <2>1. m \in ToWorld /\ toWorld' \in Seq(ToWorld)
      BY <1>0, <1>1, HeadTailProperties DEF Receive
    <2>2. UNCHANGED <<submitted, session, queue, control, written, used>>
      BY <1>1, <1>u DEF Receive
    <2> HIDE DEF m
    <2>3. CASE m.type = "start" /\ world.phase # "none"
      <3>1. Resumed /\ UNCHANGED <<world, commands, blocked>>
        BY <1>1, <2>3 DEF Receive, m
      <3>2. toGateway' \in Seq(ToGateway)
        BY <1>0, <1>t, <3>1, TellType DEF Resumed, World
      <3> QED
        BY <2>1, <2>2, <3>1, <3>2, Types, TypesMeanTypeOK
    <2>4. CASE m.type = "start" /\ world.phase = "none"
      <3>1. /\ world' = [Started EXCEPT !.state = "connecting"]
            /\ Tell(<<"connecting">>, world.generation) /\ UNCHANGED <<commands, blocked>>
        BY <1>1, <2>4 DEF Receive, m
      <3>2. world' \in World /\ world.generation \in Nat /\ "connecting" \in States
        BY <1>0, <3>1 DEF Started, World, States
      <3>3. toGateway' \in Seq(ToGateway)
        BY <1>t, <3>1, <3>2, TellType
      <3> QED
        BY <2>1, <2>2, <3>1, <3>2, <3>3, Types, TypesMeanTypeOK
    <2>5. CASE m.type = "stop"
      <3>1. /\ world' = [world EXCEPT !.phase = "none", !.state = "stopped"]
            /\ UNCHANGED toGateway \/ Tell(<<"stopped">>, world.generation)
            /\ Abandon /\ UNCHANGED blocked
        BY <1>1, <2>5 DEF Receive, m
      <3>2. world' \in World /\ world.generation \in Nat /\ "stopped" \in States
        BY <1>0, <3>1 DEF World, States
      <3>3. toGateway' \in Seq(ToGateway)
        BY <1>0, <1>t, <3>1, <3>2, TellType
      <3> QED
        BY <1>a, <2>1, <2>2, <3>1, <3>2, <3>3, Types, TypesMeanTypeOK
    <2>6. CASE m.type = "send"
      <3>1. /\ \E quit \in Quits : world' = [world EXCEPT !.quit = @ \/ quit]
            /\ UNCHANGED toGateway
            /\ \/ /\ Len(commands) < WorldQueueSize
                  /\ commands' = Append(commands, Command(m.n)) /\ UNCHANGED blocked
               \/ blocked' = m.n /\ UNCHANGED commands
        BY <1>1, <2>6 DEF Receive, m
      <3>2. world' \in World
        <4>1. PICK quit \in Quits : world' = [world EXCEPT !.quit = @ \/ quit]
          BY <3>1
        <4>2. (world.quit \/ quit) \in BOOLEAN
          OBVIOUS
        <4> QED
          BY <1>0, <4>1, <4>2 DEF World
      <3>3. m.n \in Nat /\ Command(m.n) \in Items
        BY <2>1, ItemTypes DEF ToWorld
      <3>4. /\ commands' \in Seq(Items) /\ Len(commands') <= WorldQueueSize
            /\ blocked' \in Nat \cup {None}
        BY <1>0, <1>p, <3>1, <3>3
      <3> QED
        BY <2>1, <2>2, <3>1, <3>2, <3>4, Types, TypesMeanTypeOK
    <2> QED
      BY <2>1, <2>3, <2>4, <2>5, <2>6 DEF ToWorld
  <1>2. CASE Unblock
    <2>1. blocked \in Nat /\ Command(blocked) \in Items
      BY <1>0, <1>2, ItemTypes DEF Unblock
    <2>2. /\ Len(commands) < WorldQueueSize
          /\ commands' = Append(commands, Command(blocked)) /\ blocked' = None
          /\ UNCHANGED <<submitted, session, queue, control, toWorld, toGateway, world, written, used>>
      BY <1>2, <1>u DEF Unblock
    <2>3. commands' \in Seq(Items) /\ Len(commands') <= WorldQueueSize
      BY <1>p, <2>1, <2>2
    <2> QED
      BY <2>2, <2>3, Types, TypesMeanTypeOK
  <1>3. CASE Connect
    <2>1. /\ used' = [used EXCEPT !.attempts = @ + 1]
          /\ world' = [world EXCEPT !.phase = "startup", !.generation = @ + 1,
                                    !.state = "connected", !.sent = 0]
          /\ Tell(<<"connected">>, world'.generation)
          /\ UNCHANGED <<submitted, session, queue, control, toWorld, blocked, commands, written>>
      BY <1>3, <1>u DEF Connect
    <2>2. used' \in [attempts : Nat, controls : Nat, restarts : Nat]
      BY <1>0, <2>1, Counted
    <2>3. world' \in World /\ world'.generation \in Nat /\ "connected" \in States
      <3>1. world.generation + 1 \in Nat /\ 0 \in 0 .. StartupCount
        BY <1>0, <1>w DEF World
      <3> QED
        BY <1>0, <2>1, <3>1 DEF World, States
    <2>4. toGateway' \in Seq(ToGateway)
      BY <1>t, <2>1, <2>3, TellType
    <2> QED
      BY <2>1, <2>2, <2>3, <2>4, Types, TypesMeanTypeOK
  <1>4. CASE ConnectFails
    <2>1. /\ used' = [used EXCEPT !.attempts = @ + 1] /\ Ended
          /\ UNCHANGED <<submitted, session, queue, control, toWorld, blocked, commands, written>>
      BY <1>4, <1>u DEF ConnectFails
    <2>2. used' \in [attempts : Nat, controls : Nat, restarts : Nat]
      BY <1>0, <2>1, Counted
    <2> QED
      BY <1>e, <2>1, <2>2, Types, TypesMeanTypeOK
  <1>5. CASE RemoteCloses
    <2>1. /\ Ended /\ Abandon
          /\ UNCHANGED <<submitted, session, queue, control, toWorld, blocked, written, used>>
      BY <1>5, <1>u DEF RemoteCloses
    <2> QED
      BY <1>a, <1>e, <2>1, Types, TypesMeanTypeOK
  <1>6. CASE Retry
    <2>1. /\ world' = [world EXCEPT !.phase = "connecting", !.state = "connecting"]
          /\ Tell(<<"connecting">>, world.generation)
          /\ UNCHANGED <<submitted, session, queue, control, toWorld, blocked, commands, written, used>>
      BY <1>6, <1>u DEF Retry
    <2>2. world' \in World /\ world.generation \in Nat /\ "connecting" \in States
      BY <1>0, <2>1 DEF World, States
    <2>3. toGateway' \in Seq(ToGateway)
      BY <1>t, <2>1, <2>2, TellType
    <2> QED
      BY <2>1, <2>2, <2>3, Types, TypesMeanTypeOK
  <1>7. CASE SendStartup
    <2>1. UNCHANGED <<submitted, session, queue, control, toWorld, toGateway, blocked, written, used>>
      BY <1>7, <1>u DEF SendStartup
    <2>2. CASE world.sent = StartupCount
      <3>1. world' = [world EXCEPT !.phase = "serving"] /\ UNCHANGED commands
        BY <1>7, <2>2 DEF SendStartup
      <3>2. world' \in World
        BY <1>0, <3>1 DEF World
      <3> QED
        BY <2>1, <3>1, <3>2, Types, TypesMeanTypeOK
    <2>3. CASE world.sent # StartupCount
      <3>1. /\ Len(commands) < WorldQueueSize
            /\ commands' = Append(commands, Startup(world.generation, world.sent + 1))
            /\ world' = [world EXCEPT !.sent = @ + 1]
        BY <1>7, <2>3 DEF SendStartup
      <3>2. world.sent \in 0 .. StartupCount /\ world.generation \in Nat
        BY <1>0 DEF World
      <3>3. world.sent + 1 \in 1 .. StartupCount /\ world.sent + 1 \in 0 .. StartupCount
        BY <1>w, <2>3, <3>2
      <3>4. world' \in World
        BY <1>0, <3>1, <3>3 DEF World
      <3>5. commands' \in Seq(Items) /\ Len(commands') <= WorldQueueSize
        BY <1>p, <3>1, <3>2, <3>3, ItemTypes
      <3> QED
        BY <2>1, <3>4, <3>5, Types, TypesMeanTypeOK
    <2> QED
      BY <2>2, <2>3
  <1>8. CASE WriteCommand
    <2>1. /\ commands # <<>> /\ commands' = Tail(commands)
          /\ written' = Append(written, [item |-> Head(commands), generation |-> world.generation])
          /\ UNCHANGED <<submitted, session, queue, control, toWorld, toGateway, blocked, world, used>>
      BY <1>8, <1>u DEF WriteCommand
    <2>2. Head(commands) \in Items /\ commands' \in Seq(Items) /\ Len(commands') = Len(commands) - 1
      BY <1>0, <2>1, TailItems
    <2>3. Len(commands') <= WorldQueueSize
      BY <1>0, <1>w, <2>2
    <2>4. [item |-> Head(commands), generation |-> world.generation] \in [item : Items, generation : Nat]
      BY <1>0, <2>2 DEF World
    <2>5. written' \in Seq([item : Items, generation : Nat])
      BY <1>0, <2>1, <2>4, AppendProperties
    <2> QED
      BY <2>1, <2>2, <2>3, <2>5, Types, TypesMeanTypeOK
  <1> QED
    BY <1>1, <1>2, <1>3, <1>4, <1>5, <1>6, <1>7, <1>8 DEF ConnectorStep

(* Every state of WorldCommands is well typed (the queues, the write loops *)
(* and the world's runner, over disconnecting, reconnecting, restarts).    *)
THEOREM TypeCorrect == Spec => []TypeOK
  <1>1. TypeOK /\ [Next]_vars => TypeOK'
    <2> SUFFICES ASSUME TypeOK, [Next]_vars PROVE TypeOK'
      OBVIOUS
    <2>1. CASE Next
      BY <2>1, GatewayTypeOK, ConnectorTypeOK DEF Next
    <2>2. CASE UNCHANGED vars
      BY <2>2, Types, TypesMeanTypeOK DEF vars, upstream
    <2> QED
      BY <2>1, <2>2
  <1> QED
    BY <1>1, InitTypeOK, PTL DEF Spec

-----------------------------------------------------------------------------
(* The order of what the world receives.  A command passes six places, the *)
(* last first; it may skip the third, and be lost in any of them.          *)
Written(n) == \E i \in DOMAIN written : IsCommand(written[i]) /\ written[i].item.n = n
Queued(n) == \E i \in DOMAIN commands : commands[i] = Command(n)
Sent(n) == \E i \in DOMAIN toWorld : toWorld[i] = [type |-> "send", n |-> n]
Waiting(n) == queue # None /\ \E i \in DOMAIN queue : queue[i] = n

At(place, n) ==
  \/ place = 1 /\ Written(n)
  \/ place = 2 /\ Queued(n)
  \/ place = 3 /\ blocked = n
  \/ place = 4 /\ Sent(n)
  \/ place = 5 /\ session.holding = n
  \/ place = 6 /\ Waiting(n)

Accepted == \A place \in 1 .. 6, n \in Nat : At(place, n) => n <= Len(submitted)

(* What is further on its way was submitted earlier.                       *)
PlacesInOrder ==
  \A p, q \in 1 .. 6, m, n \in Nat : p < q /\ At(p, m) /\ At(q, n) => m < n

(* And so it is within each of the queues.                                 *)
QueuedInOrder ==
  \A i, j \in DOMAIN commands, m, n \in Nat :
    i < j /\ commands[i] = Command(m) /\ commands[j] = Command(n) => m < n
SentInOrder ==
  \A i, j \in DOMAIN toWorld, m, n \in Nat :
    i < j /\ toWorld[i] = [type |-> "send", n |-> m] /\ toWorld[j] = [type |-> "send", n |-> n]
      => m < n
WaitingInOrder == queue # None => \A i, j \in DOMAIN queue : i < j => queue[i] < queue[j]

QueuesInOrder == QueuedInOrder /\ SentInOrder /\ WaitingInOrder /\ WrittenInOrder

OrderInv == TypeOK /\ Accepted /\ PlacesInOrder /\ QueuesInOrder

(* A step that moves nothing forward.                                      *)
LEMMA Kept ==
  ASSUME Accepted, PlacesInOrder, UNCHANGED submitted,
         \A n \in Nat : /\ Written(n)' => Written(n)
                        /\ Queued(n)' => Queued(n)
                        /\ blocked' = n => blocked = n
                        /\ Sent(n)' => Sent(n)
                        /\ session'.holding = n => session.holding = n
                        /\ Waiting(n)' => Waiting(n)
  PROVE  Accepted' /\ PlacesInOrder'
  <1>1. \A p \in 1 .. 6, n \in Nat : At(p, n)' => At(p, n)
    BY DEF At
  <1>2. Accepted'
    BY <1>1 DEF Accepted
  <1>3. PlacesInOrder'
    BY <1>1 DEF PlacesInOrder
  <1> QED
    BY <1>2, <1>3

(* A step that moves the first command of a place to an earlier place,     *)
(* with nothing in between.                                                *)
LEMMA Moved ==
  ASSUME Accepted, PlacesInOrder, UNCHANGED submitted,
         NEW src \in 1 .. 6, NEW dst \in 1 .. 6, NEW h \in Nat, dst < src, At(src, h),
         \A p \in 1 .. 6, n \in Nat : At(p, n)' => At(p, n) \/ (p = dst /\ n = h),
         \A n \in Nat : At(src, n)' => h < n,
         \A p \in 1 .. 6, n \in Nat : dst < p /\ p < src => ~At(p, n)'
  PROVE  Accepted' /\ PlacesInOrder'
  <1>1. Accepted'
    BY DEF Accepted
  <1>2. ASSUME NEW p \in 1 .. 6, NEW q \in 1 .. 6, NEW m \in Nat, NEW n \in Nat,
               p < q, At(p, m)', At(q, n)'
        PROVE  m < n
    <2>1. CASE At(p, m) /\ At(q, n)
      BY <1>2, <2>1 DEF PlacesInOrder
    <2>2. CASE p = dst /\ m = h
      <3>1. At(q, n) /\ dst < q
        BY <1>2, <2>2
      <3>2. CASE q = src
        BY <1>2, <2>2, <3>2
      <3>3. CASE src < q
        BY <2>2, <3>1, <3>3 DEF PlacesInOrder
      <3>4. CASE q < src
        BY <1>2, <3>1, <3>4
      <3> QED
        BY <3>2, <3>3, <3>4
    <2>3. CASE q = dst /\ n = h /\ At(p, m)
      <3>1. p < src
        BY <1>2, <2>3
      <3> QED
        BY <2>3, <3>1 DEF PlacesInOrder
    <2>4. CASE q = dst /\ n = h /\ p = dst
      BY <1>2, <2>4
    <2> QED
      BY <1>2, <2>1, <2>2, <2>3, <2>4
  <1> QED
    BY <1>1, <1>2 DEF PlacesInOrder

MovesTo(dst, src, h) ==
    /\ \A p \in 1 .. 6, n \in Nat : At(p, n)' => At(p, n) \/ (p = dst /\ n = h)
    /\ \A n \in Nat : At(src, n)' => h < n
    /\ \A p \in 1 .. 6, n \in Nat : dst < p /\ p < src => ~At(p, n)'

LEMMA MovedTo ==
  ASSUME Accepted, PlacesInOrder, UNCHANGED submitted,
         NEW src \in 1 .. 6, NEW dst \in 1 .. 6, NEW h \in Nat, dst < src, At(src, h),
         MovesTo(dst, src, h)
  PROVE  Accepted' /\ PlacesInOrder'
  <1>1. \A p \in 1 .. 6, n \in Nat : At(p, n)' => At(p, n) \/ (p = dst /\ n = h)
    BY DEF MovesTo
  <1>2. \A n \in Nat : At(src, n)' => h < n
    BY DEF MovesTo
  <1>3. \A p \in 1 .. 6, n \in Nat : dst < p /\ p < src => ~At(p, n)'
    BY DEF MovesTo
  <1> QED
    BY <1>1, <1>2, <1>3, Moved

(* What the operations on each queue do to its order.                      *)
LEMMA Distinct ==
  /\ \A m, n : Command(m) = Command(n) => m = n
  /\ \A n, g, k : Command(n) # Startup(g, k)
  /\ \A n, g, k : Startup(g, k).kind # Command(n).kind
  /\ \A n : Command(n).kind = "command" /\ Command(n).n = n
  <1>1. \A m : Command(m).n = m /\ Command(m).kind = "command"
    BY DEF Command
  <1>2. \A g, k : Startup(g, k).kind = "startup"
    BY DEF Startup
  <1> QED
    BY <1>1, <1>2

LEMMA QueuedKept ==
  ASSUME UNCHANGED commands
  PROVE  (QueuedInOrder => QueuedInOrder') /\ \A n \in Nat : Queued(n)' => Queued(n)
  BY DEF QueuedInOrder, Queued

LEMMA QueuedTail ==
  ASSUME TypeOK, QueuedInOrder, commands # <<>>, commands' = Tail(commands)
  PROVE  /\ QueuedInOrder'
         /\ \A n \in Nat : Queued(n)' => Queued(n)
         /\ \A m, n \in Nat : Head(commands) = Command(m) /\ Queued(n)' => m < n
  <1>1. commands \in Seq(Items)
    BY Types
  <1>2. /\ Head(commands) = commands[1] /\ 1 \in DOMAIN commands
        /\ \A j \in DOMAIN commands' :
             commands'[j] = commands[j + 1] /\ j + 1 \in DOMAIN commands /\ j \in Nat \ {0}
    BY <1>1, TailItems
  <1>3. QueuedInOrder'
    <2> SUFFICES ASSUME NEW i \in DOMAIN commands', NEW j \in DOMAIN commands', NEW m \in Nat,
                        NEW n \in Nat, i < j, commands'[i] = Command(m), commands'[j] = Command(n)
                 PROVE  m < n
      BY DEF QueuedInOrder, Command
    <2>1. i + 1 < j + 1
      BY <1>2
    <2> QED
      BY <1>2, <2>1 DEF QueuedInOrder
  <1>4. \A n \in Nat : Queued(n)' => \E i \in DOMAIN commands' : commands'[i] = Command(n)
    BY DEF Queued, Command
  <1>5. \A n \in Nat : Queued(n)' => Queued(n)
    BY <1>2, <1>4 DEF Queued
  <1>6. ASSUME NEW m \in Nat, NEW n \in Nat, Head(commands) = Command(m), Queued(n)' PROVE m < n
    <2>1. PICK i \in DOMAIN commands' : commands'[i] = Command(n)
      BY <1>4, <1>6
    <2>2. 1 < i + 1 /\ i + 1 \in DOMAIN commands /\ commands[i + 1] = Command(n)
      BY <1>2, <2>1
    <2> QED
      BY <1>2, <1>6, <2>2 DEF QueuedInOrder
  <1> QED
    BY <1>3, <1>5, <1>6

LEMMA QueuedStartup ==
  ASSUME TypeOK, QueuedInOrder, NEW g \in Nat, NEW k \in 1 .. StartupCount,
         commands' = Append(commands, Startup(g, k))
  PROVE  QueuedInOrder' /\ \A n \in Nat : Queued(n)' => Queued(n)
  <1>1. commands \in Seq(Items) /\ Startup(g, k) \in Items
    BY Types, ItemTypes
  <1>2. \A j \in DOMAIN commands' :
          \/ j \in DOMAIN commands /\ commands'[j] = commands[j]
          \/ commands'[j] = Startup(g, k)
    BY <1>1, AppendItems
  <1>3. \A j \in DOMAIN commands' : \A n : commands'[j] = Command(n) =>
          j \in DOMAIN commands /\ commands[j] = Command(n)
    BY <1>2, Distinct
  <1>4. QueuedInOrder'
    BY <1>3 DEF QueuedInOrder, Command
  <1>5. \A n \in Nat : Queued(n)' => Queued(n)
    BY <1>3 DEF Queued, Command
  <1> QED
    BY <1>4, <1>5

LEMMA QueuedCommand ==
  ASSUME TypeOK, QueuedInOrder, NEW h \in Nat, commands' = Append(commands, Command(h)),
         \A m \in Nat : Queued(m) => m < h
  PROVE  QueuedInOrder' /\ \A n \in Nat : Queued(n)' => Queued(n) \/ n = h
  <1>1. commands \in Seq(Items) /\ Command(h) \in Items
    BY Types, ItemTypes
  <1>2. /\ \A j \in DOMAIN commands' :
             \/ j \in DOMAIN commands /\ commands'[j] = commands[j]
             \/ j = Len(commands) + 1 /\ commands'[j] = Command(h)
        /\ \A j \in DOMAIN commands : j \in Nat /\ j < Len(commands) + 1
        /\ Len(commands) \in Nat
    BY <1>1, AppendItems, LenProperties
  <1>3. QueuedInOrder'
    <2> SUFFICES ASSUME NEW i \in DOMAIN commands', NEW j \in DOMAIN commands', NEW m \in Nat,
                        NEW n \in Nat, i < j, commands'[i] = Command(m), commands'[j] = Command(n)
                 PROVE  m < n
      BY DEF QueuedInOrder, Command
    <2>1. i \in DOMAIN commands /\ commands[i] = Command(m)
      BY <1>2
    <2>2. CASE j \in DOMAIN commands /\ commands[j] = Command(n)
      BY <2>1, <2>2 DEF QueuedInOrder
    <2>3. CASE n = h
      BY <2>1, <2>3 DEF Queued
    <2> QED
      BY <1>2, <2>2, <2>3, Distinct
  <1>4. \A n \in Nat : Queued(n)' => Queued(n) \/ n = h
    BY <1>2, Distinct DEF Queued, Command
  <1> QED
    BY <1>3, <1>4

SendMessage(n) == [type |-> "send", n |-> n]

LEMMA SendDistinct ==
  /\ \A m, n : SendMessage(m) = SendMessage(n) => m = n
  /\ \A n : SendMessage(n).n = n /\ SendMessage(n).type = "send"
  <1>1. \A m : SendMessage(m).n = m /\ SendMessage(m).type = "send"
    BY DEF SendMessage
  <1> QED
    BY <1>1

LEMMA SentKept ==
  ASSUME UNCHANGED toWorld
  PROVE  (SentInOrder => SentInOrder') /\ \A n \in Nat : Sent(n)' => Sent(n)
  BY DEF SentInOrder, Sent

LEMMA SentTail ==
  ASSUME TypeOK, SentInOrder, toWorld # <<>>, toWorld' = Tail(toWorld)
  PROVE  /\ SentInOrder'
         /\ \A n \in Nat : Sent(n)' => Sent(n)
         /\ \A m, n \in Nat : Head(toWorld) = SendMessage(m) /\ Sent(n)' => m < n
  <1>1. toWorld \in Seq(ToWorld)
    BY Types
  <1>2. /\ Head(toWorld) = toWorld[1] /\ 1 \in DOMAIN toWorld
        /\ \A j \in DOMAIN toWorld' :
             toWorld'[j] = toWorld[j + 1] /\ j + 1 \in DOMAIN toWorld /\ j \in Nat \ {0}
    BY <1>1, TailItems
  <1>3. \A i, j \in DOMAIN toWorld, m, n \in Nat :
          i < j /\ toWorld[i] = SendMessage(m) /\ toWorld[j] = SendMessage(n) => m < n
    BY DEF SentInOrder, SendMessage
  <1>4. SentInOrder'
    <2> SUFFICES ASSUME NEW i \in DOMAIN toWorld', NEW j \in DOMAIN toWorld', NEW m \in Nat,
                        NEW n \in Nat, i < j,
                        toWorld'[i] = SendMessage(m), toWorld'[j] = SendMessage(n)
                 PROVE  m < n
      BY DEF SentInOrder, SendMessage
    <2>1. i + 1 < j + 1
      BY <1>2
    <2> QED
      BY <1>2, <1>3, <2>1
  <1>5. \A n \in Nat : Sent(n)' => \E i \in DOMAIN toWorld' : toWorld'[i] = SendMessage(n)
    BY DEF Sent, SendMessage
  <1>6. \A n \in Nat : Sent(n)' => Sent(n)
    <2>1. \A n \in Nat : (\E i \in DOMAIN toWorld : toWorld[i] = SendMessage(n)) => Sent(n)
      BY DEF Sent, SendMessage
    <2> QED
      BY <1>2, <1>5, <2>1
  <1>7. ASSUME NEW m \in Nat, NEW n \in Nat, Head(toWorld) = SendMessage(m), Sent(n)' PROVE m < n
    <2>1. PICK i \in DOMAIN toWorld' : toWorld'[i] = SendMessage(n)
      BY <1>5, <1>7
    <2>2. 1 < i + 1 /\ i + 1 \in DOMAIN toWorld /\ toWorld[i + 1] = SendMessage(n)
      BY <1>2, <2>1
    <2> QED
      BY <1>2, <1>3, <1>7, <2>2
  <1> QED
    BY <1>4, <1>6, <1>7

LEMMA SentSignal ==
  ASSUME TypeOK, SentInOrder, NEW type \in {"start", "stop"}, Signal(type)
  PROVE  SentInOrder' /\ \A n \in Nat : Sent(n)' => Sent(n)
  <1> DEFINE x == [type |-> type, n |-> 0]
  <1>1. toWorld \in Seq(ToWorld) /\ x \in ToWorld
    BY Types DEF ToWorld
  <1>2. x.type # "send"
    OBVIOUS
  <1> HIDE DEF x
  <1>3. toWorld' = Append(toWorld, x)
    BY DEF Signal, x
  <1>4. \A j \in DOMAIN toWorld' :
          \/ j \in DOMAIN toWorld /\ toWorld'[j] = toWorld[j]
          \/ toWorld'[j] = x
    BY <1>1, <1>3, AppendItems
  <1>5. \A j \in DOMAIN toWorld' : \A n : toWorld'[j] = SendMessage(n) =>
          j \in DOMAIN toWorld /\ toWorld[j] = SendMessage(n)
    BY <1>2, <1>4, SendDistinct
  <1>6. SentInOrder'
    BY <1>5 DEF SentInOrder, SendMessage
  <1>7. \A n \in Nat : Sent(n)' => Sent(n)
    BY <1>5 DEF Sent, SendMessage
  <1> QED
    BY <1>6, <1>7

LEMMA SentCommand ==
  ASSUME TypeOK, SentInOrder, NEW h \in Nat, toWorld' = Append(toWorld, SendMessage(h)),
         \A m \in Nat : Sent(m) => m < h
  PROVE  SentInOrder' /\ \A n \in Nat : Sent(n)' => Sent(n) \/ n = h
  <1>1. toWorld \in Seq(ToWorld) /\ SendMessage(h) \in ToWorld
    BY Types DEF ToWorld, SendMessage
  <1>2. /\ \A j \in DOMAIN toWorld' :
             \/ j \in DOMAIN toWorld /\ toWorld'[j] = toWorld[j]
             \/ j = Len(toWorld) + 1 /\ toWorld'[j] = SendMessage(h)
        /\ \A j \in DOMAIN toWorld : j \in Nat /\ j < Len(toWorld) + 1
        /\ Len(toWorld) \in Nat
    BY <1>1, AppendItems, LenProperties
  <1>3. \A n : (\E i \in DOMAIN toWorld : toWorld[i] = SendMessage(n)) <=> Sent(n)
    BY DEF Sent, SendMessage
  <1>4. SentInOrder'
    <2> SUFFICES ASSUME NEW i \in DOMAIN toWorld', NEW j \in DOMAIN toWorld', NEW m \in Nat,
                        NEW n \in Nat, i < j,
                        toWorld'[i] = SendMessage(m), toWorld'[j] = SendMessage(n)
                 PROVE  m < n
      BY DEF SentInOrder, SendMessage
    <2>1. i \in DOMAIN toWorld /\ toWorld[i] = SendMessage(m)
      BY <1>2
    <2>2. CASE j \in DOMAIN toWorld /\ toWorld[j] = SendMessage(n)
      BY <2>1, <2>2 DEF SentInOrder, SendMessage
    <2>3. CASE n = h
      BY <1>3, <2>1, <2>3
    <2> QED
      BY <1>2, <2>2, <2>3, SendDistinct
  <1>5. \A n \in Nat : Sent(n)' => \E i \in DOMAIN toWorld' : toWorld'[i] = SendMessage(n)
    BY DEF Sent, SendMessage
  <1>6. \A n \in Nat : Sent(n)' => Sent(n) \/ n = h
    BY <1>2, <1>3, <1>5, SendDistinct
  <1> QED
    BY <1>4, <1>6

LEMMA WaitingKept ==
  ASSUME queue' = queue \/ queue' = None \/ queue' = <<>>
  PROVE  (WaitingInOrder => WaitingInOrder') /\ \A n \in Nat : Waiting(n)' => Waiting(n)
  <1>1. DOMAIN <<>> = {}
    OBVIOUS
  <1> QED
    BY <1>1 DEF WaitingInOrder, Waiting

LEMMA WaitingTail ==
  ASSUME TypeOK, WaitingInOrder, queue # None, queue # <<>>, queue' = Tail(queue)
  PROVE  /\ WaitingInOrder' /\ Head(queue) \in Nat /\ Waiting(Head(queue))
         /\ \A n \in Nat : Waiting(n)' => Waiting(n) /\ Head(queue) < n
  <1>1. queue \in Seq(Nat)
    BY Types
  <1>2. /\ Head(queue) = queue[1] /\ 1 \in DOMAIN queue /\ queue[1] \in Nat
        /\ \A j \in DOMAIN queue' :
             queue'[j] = queue[j + 1] /\ j + 1 \in DOMAIN queue /\ j \in Nat \ {0}
    BY <1>1, TailItems
  <1>3. WaitingInOrder'
    <2> SUFFICES ASSUME NEW i \in DOMAIN queue', NEW j \in DOMAIN queue', i < j
                 PROVE  queue'[i] < queue'[j]
      BY DEF WaitingInOrder
    <2>1. i + 1 < j + 1
      BY <1>2
    <2> QED
      BY <1>2, <2>1 DEF WaitingInOrder
  <1>4. ASSUME NEW n \in Nat, Waiting(n)' PROVE Waiting(n) /\ Head(queue) < n
    <2>1. PICK i \in DOMAIN queue' : queue'[i] = n
      BY <1>4 DEF Waiting
    <2>2. 1 < i + 1 /\ i + 1 \in DOMAIN queue /\ queue[i + 1] = n
      BY <1>2, <2>1
    <2> QED
      BY <1>2, <2>2 DEF WaitingInOrder, Waiting
  <1> QED
    BY <1>2, <1>3, <1>4 DEF Waiting

LEMMA WaitingAppend ==
  ASSUME TypeOK, WaitingInOrder, queue # None, NEW h \in Nat, queue' = Append(queue, h),
         \A m \in Nat : Waiting(m) => m < h
  PROVE  WaitingInOrder' /\ \A n \in Nat : Waiting(n)' => Waiting(n) \/ n = h
  <1>1. queue \in Seq(Nat)
    BY Types
  <1>2. /\ \A j \in DOMAIN queue' :
             \/ j \in DOMAIN queue /\ queue'[j] = queue[j]
             \/ j = Len(queue) + 1 /\ queue'[j] = h
        /\ \A j \in DOMAIN queue : j \in Nat /\ j < Len(queue) + 1 /\ queue[j] \in Nat
        /\ Len(queue) \in Nat
    BY <1>1, AppendItems, LenProperties, ElementOfSeq
  <1>3. \A j \in DOMAIN queue : queue[j] < h
    BY <1>2 DEF Waiting
  <1>4. WaitingInOrder'
    <2> SUFFICES ASSUME NEW i \in DOMAIN queue', NEW j \in DOMAIN queue', i < j
                 PROVE  queue'[i] < queue'[j]
      BY DEF WaitingInOrder
    <2>1. i \in DOMAIN queue /\ queue'[i] = queue[i]
      BY <1>2
    <2> QED
      BY <1>2, <1>3, <2>1 DEF WaitingInOrder
  <1>5. \A n \in Nat : Waiting(n)' => Waiting(n) \/ n = h
    BY <1>2 DEF Waiting
  <1> QED
    BY <1>4, <1>5

LEMMA WrittenKept ==
  ASSUME UNCHANGED written
  PROVE  (WrittenInOrder => WrittenInOrder') /\ \A n \in Nat : Written(n)' => Written(n)
  BY DEF WrittenInOrder, Written, IsCommand

LEMMA WrittenAppend ==
  ASSUME TypeOK, WrittenInOrder, NEW x \in [item : Items, generation : Nat],
         written' = Append(written, x),
         IsCommand(x) => \A m \in Nat : Written(m) => m < x.item.n
  PROVE  /\ WrittenInOrder'
         /\ \A n \in Nat : Written(n)' => Written(n) \/ (IsCommand(x) /\ n = x.item.n)
  <1>1. written \in Seq([item : Items, generation : Nat])
    BY Types
  <1>2. /\ \A j \in DOMAIN written' :
             \/ j \in DOMAIN written /\ written'[j] = written[j]
             \/ j = Len(written) + 1 /\ written'[j] = x
        /\ \A j \in DOMAIN written :
             j \in Nat /\ j < Len(written) + 1
    BY <1>1, AppendItems
  <1>3. \A j \in DOMAIN written : IsCommand(written[j]) => written[j].item.n \in Nat
    <2> DEFINE Entry == [item : Items, generation : Nat]
    <2>1. \A e \in Entry : IsCommand(e) => e.item.n \in Nat
      BY DEF IsCommand, Items
    <2>2. written \in Seq(Entry)
      BY <1>1
    <2> HIDE DEF Entry
    <2>3. \A j \in DOMAIN written : written[j] \in Entry
      BY <2>2, ElementOfSeq, LenProperties
    <2> QED
      BY <2>1, <2>3
  <1>4. WrittenInOrder'
    <2> SUFFICES ASSUME NEW i \in DOMAIN written', NEW j \in DOMAIN written', i < j,
                        IsCommand(written'[i]), IsCommand(written'[j])
                 PROVE  written'[i].item.n < written'[j].item.n
      BY DEF WrittenInOrder, IsCommand
    <2>1. i \in DOMAIN written /\ written'[i] = written[i]
      BY <1>2
    <2>2. CASE j \in DOMAIN written /\ written'[j] = written[j]
      BY <2>1, <2>2 DEF WrittenInOrder
    <2>3. CASE written'[j] = x
      BY <1>3, <2>1, <2>3 DEF Written
    <2> QED
      BY <1>2, <2>2, <2>3
  <1>5. \A n \in Nat : Written(n)' => Written(n) \/ (IsCommand(x) /\ n = x.item.n)
    BY <1>2 DEF Written, IsCommand
  <1> QED
    BY <1>4, <1>5

-----------------------------------------------------------------------------
(* The order survives every step of the Gateway ...                        *)
LEMMA GatewayOrder ==
  ASSUME OrderInv, GatewayStep
  PROVE  Accepted' /\ PlacesInOrder' /\ QueuesInOrder'
  <1>0. TypeOK /\ Accepted /\ PlacesInOrder /\ QueuedInOrder /\ SentInOrder /\ WaitingInOrder
        /\ WrittenInOrder
    BY DEF OrderInv, QueuesInOrder
  <1>n. \A n \in Nat : n # None
    BY DEF CommandsAssumption
  <1>1. ASSUME NEW expected \in {None, session.generation}, Submit(expected)
        PROVE  Accepted' /\ PlacesInOrder' /\ QueuesInOrder'
    <2> DEFINE h == Len(submitted')
    <2>1. /\ queue # None /\ queue' = Append(queue, h)
          /\ submitted' = Append(submitted, expected)
          /\ UNCHANGED <<session, toWorld, blocked, commands, written>>
      BY <1>1 DEF Submit
    <2>2. h = Len(submitted) + 1 /\ Len(submitted) \in Nat
      <3>1. submitted \in Seq(Nat \cup {None}) /\ session.generation \in Nat
        BY <1>0, Types DEF Session
      <3> QED
        BY <2>1, <3>1, AppendProperties, LenProperties
    <2> HIDE DEF h
    <2>3. \A p \in 1 .. 6, n \in Nat : At(p, n) => n < h
      BY <1>0, <2>2 DEF Accepted
    <2>4. \A m \in Nat : Waiting(m) => m < h
      BY <2>3 DEF At
    <2>5. WaitingInOrder' /\ \A n \in Nat : Waiting(n)' => Waiting(n) \/ n = h
      BY <1>0, <2>1, <2>2, <2>4, WaitingAppend
    <2>6. \A n \in Nat : (Written(n)' => Written(n)) /\ (Queued(n)' => Queued(n))
                         /\ (Sent(n)' => Sent(n))
      BY <2>1, WrittenKept, QueuedKept, SentKept
    <2>7. \A p \in 1 .. 6, n \in Nat : At(p, n)' => At(p, n) \/ (p = 6 /\ n = h)
      BY <2>1, <2>5, <2>6 DEF At
    <2>8. Accepted'
      <3>1. Len(submitted') = h
        BY DEF h
      <3> QED
        BY <2>2, <2>3, <2>7, <3>1 DEF Accepted
    <2>9. PlacesInOrder'
      <3> SUFFICES ASSUME NEW p \in 1 .. 6, NEW q \in 1 .. 6, NEW m \in Nat, NEW n \in Nat,
                          p < q, At(p, m)', At(q, n)'
                   PROVE  m < n
        BY DEF PlacesInOrder
      <3>1. At(p, m) /\ m < h
        <4>1. p # 6
          OBVIOUS
        <4> QED
          BY <2>3, <2>7, <4>1
      <3>2. At(q, n) \/ n = h
        BY <2>7
      <3> QED
        BY <1>0, <3>1, <3>2 DEF PlacesInOrder
    <2>10. QueuesInOrder'
      BY <1>0, <2>1, <2>5, WrittenKept, QueuedKept, SentKept DEF QueuesInOrder
    <2> QED
      BY <2>8, <2>9, <2>10
  <1>2. CASE TakeCommand
    <2> DEFINE h == Head(queue)
    <2>1. /\ queue # None /\ queue # <<>> /\ queue' = Tail(queue) /\ session.holding = None
          /\ session'.holding = h \/ session'.holding = None
          /\ UNCHANGED <<submitted, toWorld, blocked, commands, written>>
      <3>1. session \in Session
        BY <1>0, Types
      <3> QED
        BY <1>2, <3>1 DEF TakeCommand, Session
    <2>2. /\ WaitingInOrder' /\ h \in Nat /\ Waiting(h)
          /\ \A n \in Nat : Waiting(n)' => Waiting(n) /\ h < n
      BY <1>0, <2>1, WaitingTail
    <2> HIDE DEF h
    <2>3. \A n \in Nat : (Written(n)' => Written(n)) /\ (Queued(n)' => Queued(n))
                         /\ (Sent(n)' => Sent(n))
      BY <2>1, WrittenKept, QueuedKept, SentKept
    <2>4. QueuesInOrder'
      BY <1>0, <2>1, <2>2, WrittenKept, QueuedKept, SentKept DEF QueuesInOrder
    <2>5. \A p \in 1 .. 6, n \in Nat : At(p, n)' => At(p, n) \/ (p = 5 /\ n = h)
      BY <1>n, <2>1, <2>2, <2>3 DEF At
    <2>6. At(6, h) /\ \A n \in Nat : At(6, n)' => h < n
      BY <2>2 DEF At
    <2>7. Accepted' /\ PlacesInOrder'
      <3>1. \A p \in 1 .. 6, n \in Nat : 5 < p /\ p < 6 => ~At(p, n)'
        OBVIOUS
      <3>2. UNCHANGED submitted /\ 5 \in 1 .. 6 /\ 6 \in 1 .. 6 /\ 5 < 6
        BY <2>1
      <3>3. MovesTo(5, 6, h)
        BY <2>5, <2>6, <3>1 DEF MovesTo
      <3> QED
        BY <1>0, <2>2, <2>6, <3>2, <3>3, MovedTo
    <2> QED
      BY <2>4, <2>7
  <1>3. CASE SendCommand
    <2> DEFINE h == session.holding
    <2>1. /\ h # None /\ toWorld' = Append(toWorld, SendMessage(h))
          /\ session'.holding = None
          /\ UNCHANGED <<submitted, queue, blocked, commands, written>>
      <3>1. session \in Session
        BY <1>0, Types
      <3> QED
        BY <1>3, <3>1 DEF SendCommand, SendMessage, Session
    <2>2. h \in Nat
      BY <1>0, <2>1, Types DEF Session
    <2>3. At(5, h)
      BY DEF At
    <2>4. \A m \in Nat : Sent(m) => m < h
      <3>1. \A m \in Nat : Sent(m) => At(4, m)
        BY DEF At
      <3> QED
        BY <1>0, <2>2, <2>3, <3>1 DEF PlacesInOrder
    <2> HIDE DEF h
    <2>5. SentInOrder' /\ \A n \in Nat : Sent(n)' => Sent(n) \/ n = h
      BY <1>0, <2>1, <2>2, <2>4, SentCommand
    <2>6. \A n \in Nat : (Written(n)' => Written(n)) /\ (Queued(n)' => Queued(n))
                         /\ (Waiting(n)' => Waiting(n))
      BY <2>1, WrittenKept, QueuedKept, WaitingKept
    <2>7. QueuesInOrder'
      BY <1>0, <2>1, <2>5, WrittenKept, QueuedKept, WaitingKept DEF QueuesInOrder
    <2>8. \A p \in 1 .. 6, n \in Nat : At(p, n)' => At(p, n) \/ (p = 4 /\ n = h)
      BY <1>n, <2>1, <2>5, <2>6 DEF At
    <2>9. \A n \in Nat : ~At(5, n)'
      BY <1>n, <2>1 DEF At
    <2>10. Accepted' /\ PlacesInOrder'
      <3>1. \A p \in 1 .. 6, n \in Nat : 4 < p /\ p < 5 => ~At(p, n)'
        OBVIOUS
      <3>2. UNCHANGED submitted /\ 4 \in 1 .. 6 /\ 5 \in 1 .. 6 /\ 4 < 5
        BY <2>1
      <3>3. MovesTo(4, 5, h)
        BY <2>8, <2>9, <3>1 DEF MovesTo
      <3> QED
        BY <1>0, <2>2, <2>3, <3>2, <3>3, MovedTo
    <2> QED
      BY <2>7, <2>10
  <1>4. CASE /\ UNCHANGED <<submitted, blocked, commands, written>>
             /\ session'.holding \in {session.holding, None}
             /\ queue' = queue \/ queue' = None \/ queue' = <<>>
             /\ UNCHANGED toWorld \/ Signal("start") \/ Signal("stop")
    <2>1. SentInOrder' /\ \A n \in Nat : Sent(n)' => Sent(n)
      BY <1>0, <1>4, SentKept, SentSignal
    <2>2. /\ QueuedInOrder' /\ WaitingInOrder' /\ WrittenInOrder'
          /\ \A n \in Nat : (Written(n)' => Written(n)) /\ (Queued(n)' => Queued(n))
                            /\ (Waiting(n)' => Waiting(n))
      BY <1>0, <1>4, WrittenKept, QueuedKept, WaitingKept
    <2>3. \A n \in Nat : (blocked' = n => blocked = n) /\ (session'.holding = n => session.holding = n)
      BY <1>n, <1>4
    <2> QED
      BY <1>0, <1>4, <2>1, <2>2, <2>3, Kept DEF QueuesInOrder
  <1>5. session \in Session
    BY <1>0, Types
  <1>6. ASSUME Start
        PROVE  /\ session'.holding \in {session.holding, None}
               /\ queue' = queue \/ queue' = <<>>
               /\ UNCHANGED toWorld \/ Signal("start")
    BY <1>5, <1>6 DEF Start, Session
  <1>7. CASE HandleState
    BY <1>4, <1>5, <1>7 DEF HandleState, Session
  <1>8. ASSUME NEW action \in {"connect", "disconnect", "reconnect"}, Control(action)
        PROVE  Accepted' /\ PlacesInOrder' /\ QueuesInOrder'
    BY <1>4, <1>6, <1>8 DEF Control
  <1>9. CASE Detach
    BY <1>4, <1>5, <1>9 DEF Detach, Stopped, Session
  <1>10. CASE Restart
    BY <1>4, <1>6, <1>10 DEF Restart
  <1>11. CASE GatewayRestart
    <2>1. session'.holding = None
      BY <1>11 DEF GatewayRestart
    <2> QED
      BY <1>4, <1>11, <2>1 DEF GatewayRestart
  <1> QED
    BY <1>1, <1>2, <1>3, <1>7, <1>8, <1>9, <1>10, <1>11 DEF GatewayStep

(* ... and of the connector.                                               *)
LEMMA ConnectorOrder ==
  ASSUME OrderInv, ConnectorStep
  PROVE  Accepted' /\ PlacesInOrder' /\ QueuesInOrder'
  <1>0. TypeOK /\ Accepted /\ PlacesInOrder /\ QueuedInOrder /\ SentInOrder /\ WaitingInOrder
        /\ WrittenInOrder
    BY DEF OrderInv, QueuesInOrder
  <1>n. \A n \in Nat : n # None
    BY DEF CommandsAssumption
  <1>t. /\ toWorld \in Seq(ToWorld) /\ blocked \in Nat \cup {None} /\ commands \in Seq(Items)
        /\ world \in World
    BY <1>0, Types
  <1>u. ASSUME UNCHANGED upstream
        PROVE  UNCHANGED <<submitted, session, queue>>
    BY <1>u DEF upstream
  <1>a. ASSUME Abandon
        PROVE  QueuedInOrder' /\ \A n \in Nat : Queued(n)' => Queued(n)
    <2>1. UNCHANGED commands \/ (commands # <<>> /\ commands' = Tail(commands))
      BY <1>a DEF Abandon
    <2> QED
      BY <1>0, <2>1, QueuedKept, QueuedTail
  <1>1. CASE /\ UNCHANGED <<submitted, session, queue, blocked, written>>
             /\ UNCHANGED toWorld \/ (toWorld # <<>> /\ toWorld' = Tail(toWorld))
             /\ QueuedInOrder' /\ \A n \in Nat : Queued(n)' => Queued(n)
    <2>1. SentInOrder' /\ \A n \in Nat : Sent(n)' => Sent(n)
      BY <1>0, <1>1, SentKept, SentTail
    <2>2. /\ WaitingInOrder' /\ WrittenInOrder'
          /\ \A n \in Nat : (Written(n)' => Written(n)) /\ (Waiting(n)' => Waiting(n))
      BY <1>0, <1>1, WrittenKept, WaitingKept
    <2>3. \A n \in Nat : (blocked' = n => blocked = n) /\ (session'.holding = n => session.holding = n)
      BY <1>1
    <2> QED
      BY <1>0, <1>1, <2>1, <2>2, <2>3, Kept DEF QueuesInOrder
  <1>k. ASSUME UNCHANGED commands
        PROVE  QueuedInOrder' /\ \A n \in Nat : Queued(n)' => Queued(n)
    BY <1>0, <1>k, QueuedKept
  <1>2. CASE Receive
    <2> DEFINE m == Head(toWorld)
    <2>1. /\ m \in ToWorld /\ toWorld # <<>> /\ toWorld' = Tail(toWorld) /\ blocked = None
          /\ UNCHANGED <<submitted, session, queue, written>>
      BY <1>2, <1>t, <1>u, HeadTailProperties DEF Receive
    <2>2. CASE m.type = "start"
      <3>1. UNCHANGED <<commands, blocked>>
        BY <1>2, <2>2 DEF Receive
      <3> QED
        BY <1>1, <1>k, <2>1, <3>1
    <2>3. CASE m.type = "stop"
      <3>1. Abandon /\ UNCHANGED blocked
        BY <1>2, <2>3 DEF Receive
      <3> QED
        BY <1>1, <1>a, <2>1, <3>1
    <2>4. CASE m.type = "send"
      <3> DEFINE h == m.n
      <3>1. /\ h \in Nat /\ m = SendMessage(h)
            /\ \/ commands' = Append(commands, Command(h)) /\ UNCHANGED blocked
               \/ blocked' = h /\ UNCHANGED commands
        <4>1. m.n \in Nat /\ m = SendMessage(m.n)
          BY <2>1, <2>4 DEF ToWorld, SendMessage
        <4>2. \/ commands' = Append(commands, Command(m.n)) /\ UNCHANGED blocked
              \/ blocked' = m.n /\ UNCHANGED commands
          BY <1>2, <2>4 DEF Receive
        <4> QED
          BY <4>1, <4>2
      <3>2. /\ SentInOrder' /\ \A n \in Nat : Sent(n)' => Sent(n)
            /\ \A n \in Nat : Sent(n)' => h < n
        BY <1>0, <2>1, <3>1, SentTail
      <3>3. At(4, h)
        <4>1. m = toWorld[1] /\ 1 \in DOMAIN toWorld
          BY <1>t, <2>1, TailItems
        <4> QED
          BY <3>1, <4>1 DEF At, Sent, SendMessage
      <3> HIDE DEF h, m
      <3>4. \A n \in Nat : Queued(n) => n < h
        <4>1. \A n \in Nat : Queued(n) => At(2, n)
          BY DEF At
        <4> QED
          BY <1>0, <3>1, <3>3, <4>1 DEF PlacesInOrder
      <3>5. /\ WaitingInOrder' /\ WrittenInOrder'
            /\ \A n \in Nat : (Written(n)' => Written(n)) /\ (Waiting(n)' => Waiting(n))
        BY <1>0, <2>1, WrittenKept, WaitingKept
      <3>6. \A n \in Nat : At(4, n)' => h < n
        BY <3>2 DEF At
      <3>7. CASE commands' = Append(commands, Command(h)) /\ UNCHANGED blocked
        <4>1. QueuedInOrder' /\ \A n \in Nat : Queued(n)' => Queued(n) \/ n = h
          BY <1>0, <3>1, <3>4, <3>7, QueuedCommand
        <4>2. \A p \in 1 .. 6, n \in Nat : At(p, n)' => At(p, n) \/ (p = 2 /\ n = h)
          BY <2>1, <3>2, <3>5, <3>7, <4>1 DEF At
        <4>3. \A p \in 1 .. 6, n \in Nat : 2 < p /\ p < 4 => ~At(p, n)'
          BY <1>n, <2>1, <3>7 DEF At
        <4>4. UNCHANGED submitted /\ 2 \in 1 .. 6 /\ 4 \in 1 .. 6 /\ 2 < 4
          BY <2>1
        <4>5. MovesTo(2, 4, h)
          BY <3>6, <4>2, <4>3 DEF MovesTo
        <4>6. Accepted' /\ PlacesInOrder'
          BY <1>0, <3>1, <3>3, <4>4, <4>5, MovedTo
        <4> QED
          BY <3>2, <3>5, <4>1, <4>6 DEF QueuesInOrder
      <3>8. CASE blocked' = h /\ UNCHANGED commands
        <4>1. QueuedInOrder' /\ \A n \in Nat : Queued(n)' => Queued(n)
          BY <1>k, <3>8
        <4>2. \A p \in 1 .. 6, n \in Nat : At(p, n)' => At(p, n) \/ (p = 3 /\ n = h)
          BY <2>1, <3>2, <3>5, <3>8, <4>1 DEF At
        <4>3. \A p \in 1 .. 6, n \in Nat : 3 < p /\ p < 4 => ~At(p, n)'
          OBVIOUS
        <4>4. UNCHANGED submitted /\ 3 \in 1 .. 6 /\ 4 \in 1 .. 6 /\ 3 < 4
          BY <2>1
        <4>5. MovesTo(3, 4, h)
          BY <3>6, <4>2, <4>3 DEF MovesTo
        <4>6. Accepted' /\ PlacesInOrder'
          BY <1>0, <3>1, <3>3, <4>4, <4>5, MovedTo
        <4> QED
          BY <3>2, <3>5, <4>1, <4>6 DEF QueuesInOrder
      <3> QED
        BY <3>1, <3>7, <3>8
    <2> QED
      BY <2>1, <2>2, <2>3, <2>4 DEF ToWorld
  <1>3. CASE Unblock
    <2> DEFINE h == blocked
    <2>1. /\ h \in Nat /\ commands' = Append(commands, Command(h)) /\ blocked' = None
          /\ UNCHANGED <<submitted, session, queue, toWorld, written>>
      BY <1>3, <1>t, <1>u DEF Unblock
    <2>2. At(3, h)
      BY DEF At
    <2> HIDE DEF h
    <2>3. \A n \in Nat : Queued(n) => n < h
      <3>1. \A n \in Nat : Queued(n) => At(2, n)
        BY DEF At
      <3> QED
        BY <1>0, <2>1, <2>2, <3>1 DEF PlacesInOrder
    <2>4. QueuedInOrder' /\ \A n \in Nat : Queued(n)' => Queued(n) \/ n = h
      BY <1>0, <2>1, <2>3, QueuedCommand
    <2>5. /\ WaitingInOrder' /\ WrittenInOrder' /\ SentInOrder'
          /\ \A n \in Nat : (Written(n)' => Written(n)) /\ (Waiting(n)' => Waiting(n))
                            /\ (Sent(n)' => Sent(n))
      BY <1>0, <2>1, WrittenKept, WaitingKept, SentKept
    <2>6. \A p \in 1 .. 6, n \in Nat : At(p, n)' => At(p, n) \/ (p = 2 /\ n = h)
      BY <1>n, <2>1, <2>4, <2>5 DEF At
    <2>7. \A n \in Nat : At(3, n)' => h < n
      BY <1>n, <2>1 DEF At
    <2>8. Accepted' /\ PlacesInOrder'
      <3>1. \A p \in 1 .. 6, n \in Nat : 2 < p /\ p < 3 => ~At(p, n)'
        OBVIOUS
      <3>2. UNCHANGED submitted /\ 2 \in 1 .. 6 /\ 3 \in 1 .. 6 /\ 2 < 3
        BY <2>1
      <3>3. MovesTo(2, 3, h)
        BY <2>6, <2>7, <3>1 DEF MovesTo
      <3> QED
        BY <1>0, <2>1, <2>2, <3>2, <3>3, MovedTo
    <2> QED
      BY <2>4, <2>5, <2>8 DEF QueuesInOrder
  <1>4. CASE Connect
    BY <1>1, <1>k, <1>u, <1>4 DEF Connect
  <1>5. CASE ConnectFails
    BY <1>1, <1>k, <1>u, <1>5 DEF ConnectFails
  <1>6. CASE RemoteCloses
    BY <1>1, <1>a, <1>u, <1>6 DEF RemoteCloses
  <1>7. CASE Retry
    BY <1>1, <1>k, <1>u, <1>7 DEF Retry
  <1>8. CASE SendStartup
    <2>1. UNCHANGED <<submitted, session, queue, toWorld, blocked, written>>
      BY <1>u, <1>8 DEF SendStartup
    <2>2. QueuedInOrder' /\ \A n \in Nat : Queued(n)' => Queued(n)
      <3>1. \/ UNCHANGED commands
            \/ /\ world.sent # StartupCount
               /\ commands' = Append(commands, Startup(world.generation, world.sent + 1))
        BY <1>8 DEF SendStartup
      <3>2. /\ world.generation \in Nat
            /\ world.sent # StartupCount => world.sent + 1 \in 1 .. StartupCount
        BY <1>t DEF World, CommandsAssumption
      <3> QED
        BY <1>0, <1>k, <3>1, <3>2, QueuedStartup
    <2> QED
      BY <1>1, <2>1, <2>2
  <1>9. CASE WriteCommand
    <2> DEFINE x == [item |-> Head(commands), generation |-> world.generation]
    <2>1. /\ commands # <<>> /\ commands' = Tail(commands) /\ written' = Append(written, x)
          /\ UNCHANGED <<submitted, session, queue, toWorld, blocked>>
      BY <1>9, <1>u DEF WriteCommand
    <2>2. x \in [item : Items, generation : Nat] /\ x.item = Head(commands)
      <3>1. Head(commands) \in Items /\ world.generation \in Nat
        BY <1>t, <2>1, HeadTailProperties DEF World
      <3> QED
        BY <3>1
    <2> HIDE DEF x
    <2>3. /\ QueuedInOrder' /\ \A n \in Nat : Queued(n)' => Queued(n)
          /\ \A m, n \in Nat : Head(commands) = Command(m) /\ Queued(n)' => m < n
      BY <1>0, <2>1, QueuedTail
    <2>4. /\ WaitingInOrder' /\ SentInOrder'
          /\ \A n \in Nat : (Waiting(n)' => Waiting(n)) /\ (Sent(n)' => Sent(n))
      BY <1>0, <2>1, WaitingKept, SentKept
    <2>5. CASE ~IsCommand(x)
      <3>1. WrittenInOrder' /\ \A n \in Nat : Written(n)' => Written(n)
        BY <1>0, <2>1, <2>2, <2>5, WrittenAppend
      <3>2. Accepted' /\ PlacesInOrder'
        BY <1>0, <2>1, <2>3, <2>4, <3>1, Kept
      <3> QED
        BY <2>3, <2>4, <3>1, <3>2 DEF QueuesInOrder
    <2>6. CASE IsCommand(x)
      <3> DEFINE h == x.item.n
      <3>1. h \in Nat /\ Head(commands) = Command(h)
        BY <2>2, <2>6 DEF Items, IsCommand, Command
      <3>2. At(2, h)
        <4>1. commands[1] = Head(commands) /\ 1 \in DOMAIN commands
          BY <1>t, <2>1, TailItems
        <4> QED
          BY <3>1, <4>1 DEF At, Queued
      <3> HIDE DEF h
      <3>3. \A n \in Nat : Written(n) => n < h
        <4>1. \A n \in Nat : Written(n) => At(1, n)
          BY DEF At
        <4> QED
          BY <1>0, <3>1, <3>2, <4>1 DEF PlacesInOrder
      <3>4. WrittenInOrder' /\ \A n \in Nat : Written(n)' => Written(n) \/ n = h
        BY <1>0, <2>1, <2>2, <3>3, WrittenAppend DEF h
      <3>5. \A p \in 1 .. 6, n \in Nat : At(p, n)' => At(p, n) \/ (p = 1 /\ n = h)
        BY <2>1, <2>3, <2>4, <3>4 DEF At
      <3>6. \A n \in Nat : At(2, n)' => h < n
        BY <2>3, <3>1 DEF At
      <3>7. \A p \in 1 .. 6, n \in Nat : 1 < p /\ p < 2 => ~At(p, n)'
        OBVIOUS
      <3>8. UNCHANGED submitted /\ 1 \in 1 .. 6 /\ 2 \in 1 .. 6 /\ 1 < 2
        BY <2>1
      <3>9. MovesTo(1, 2, h)
        BY <3>5, <3>6, <3>7 DEF MovesTo
      <3>10. Accepted' /\ PlacesInOrder'
        BY <1>0, <3>1, <3>2, <3>8, <3>9, MovedTo
      <3> QED
        BY <2>3, <2>4, <3>4, <3>10 DEF QueuesInOrder
    <2> QED
      BY <2>5, <2>6
  <1> QED
    BY <1>2, <1>3, <1>4, <1>5, <1>6, <1>7, <1>8, <1>9 DEF ConnectorStep

LEMMA InitOrder == Init => OrderInv
  <1> SUFFICES ASSUME Init PROVE OrderInv
    OBVIOUS
  <1>1. TypeOK
    BY InitTypeOK
  <1>2. DOMAIN commands = {} /\ DOMAIN written = {} /\ (queue # None => DOMAIN queue = {})
    BY DEF Init
  <1>3. \A i \in DOMAIN toWorld : \A n : toWorld[i] # [type |-> "send", n |-> n]
    <2>1. \A i \in DOMAIN toWorld : toWorld[i].type = "start"
      BY DEF Init
    <2> QED
      BY <2>1
  <1>4. \A n \in Nat : blocked # n /\ session.holding # n
    BY DEF Init, CommandsAssumption
  <1>5. \A p \in 1 .. 6, n \in Nat : ~At(p, n)
    BY <1>2, <1>3, <1>4 DEF At, Written, Queued, Sent, Waiting
  <1>6. QueuesInOrder
    BY <1>2, <1>3
    DEF QueuesInOrder, QueuedInOrder, SentInOrder, WaitingInOrder, WrittenInOrder
  <1> QED
    BY <1>1, <1>5, <1>6 DEF OrderInv, Accepted, PlacesInOrder

(* Whatever is disconnected, reconnected, restarted or blocked, and for    *)
(* queues of any size, a world receives the commands of the UIs in the     *)
(* order of their submission and none twice (both command queues, both     *)
(* write loops and the connector's reader).                                *)
THEOREM OrderKept == Spec => []WrittenInOrder
  <1>1. OrderInv /\ [Next]_vars => OrderInv'
    <2> SUFFICES ASSUME OrderInv, [Next]_vars PROVE OrderInv'
      OBVIOUS
    <2>1. CASE Next
      <3>1. TypeOK'
        BY <2>1, GatewayTypeOK, ConnectorTypeOK DEF Next, OrderInv
      <3>2. Accepted' /\ PlacesInOrder' /\ QueuesInOrder'
        BY <2>1, GatewayOrder, ConnectorOrder DEF Next
      <3> QED
        BY <3>1, <3>2 DEF OrderInv
    <2>2. CASE UNCHANGED vars
      <3>1. TypeOK'
        BY <2>2, Types, TypesMeanTypeOK DEF OrderInv, vars, upstream
      <3>2. /\ QueuedInOrder' /\ WaitingInOrder' /\ WrittenInOrder' /\ SentInOrder'
            /\ \A n \in Nat : (Written(n)' => Written(n)) /\ (Queued(n)' => Queued(n))
                              /\ (Waiting(n)' => Waiting(n)) /\ (Sent(n)' => Sent(n))
        BY <2>2, WrittenKept, QueuedKept, WaitingKept, SentKept
        DEF OrderInv, QueuesInOrder, vars, upstream
      <3>3. UNCHANGED <<submitted, session, blocked>>
        BY <2>2 DEF vars, upstream
      <3>4. Accepted' /\ PlacesInOrder'
        BY <3>2, <3>3, Kept DEF OrderInv
      <3> QED
        BY <3>1, <3>2, <3>4 DEF OrderInv, QueuesInOrder
    <2> QED
      BY <2>1, <2>2
  <1>2. OrderInv => WrittenInOrder
    BY DEF OrderInv, QueuesInOrder
  <1> QED
    BY <1>1, <1>2, InitOrder, PTL DEF Spec
-----------------------------------------------------------------------------
(* The Gateway's view: what it will know of the world once it has handled  *)
(* the state events on their way, and the signals that may still change it.*)

Known ==
  IF toGateway = <<>> THEN Note(session.state, session.generation) ELSE toGateway[Len(toGateway)]

Pending(type) == \E i \in DOMAIN toWorld : toWorld[i].type = type

(* The world will be stopped: no start follows the last stop.              *)
StopIsLast ==
  \E i \in DOMAIN toWorld :
    toWorld[i].type = "stop" /\ \A j \in DOMAIN toWorld : toWorld[j].type = "start" => j < i

(* Unless the world will repeat its state, the Gateway will know it, or    *)
(* knows already that it will be stopped.                                  *)
ViewFollows ==
  ~Pending("start") =>
    /\ Known.generation = world.generation
    /\ Known.state = world.state \/ (Known.state = "stopped" /\ Pending("stop"))

(* A session is detached only after the world was told to stop.            *)
StopComesFirst ==
  control \in {"disconnect", "reconnect"} =>
    StopIsLast \/ (world.phase = "none" /\ ~Pending("start"))

ViewInv ==
  /\ world.phase = "none" => world.state = "stopped"
  /\ ViewFollows /\ StopComesFirst

(* What the way to the Gateway does to the view.                           *)
LEMMA HandledKnown ==
  ASSUME TypeOK, HandleState
  PROVE  Known' = Known
  <1>1. toGateway \in Seq(ToGateway) /\ session \in Session /\ toGateway # <<>>
    BY Types DEF HandleState
  <1>2. /\ Head(toGateway) = toGateway[1] /\ toGateway[1] \in ToGateway
        /\ Tail(toGateway) \in Seq(ToGateway) /\ Len(Tail(toGateway)) = Len(toGateway) - 1
        /\ \A j \in DOMAIN Tail(toGateway) : Tail(toGateway)[j] = toGateway[j + 1]
    BY <1>1, TailItems
  <1>3. toGateway' = Tail(toGateway) /\ Len(toGateway) \in Nat \ {0}
        /\ DOMAIN Tail(toGateway) = 1 .. Len(toGateway) - 1
    BY <1>1, <1>2, LenProperties, EmptySeq DEF HandleState
  <1>4. session'.state = toGateway[1].state /\ session'.generation = toGateway[1].generation
    BY <1>1, <1>2 DEF HandleState, Session
  <1>5. Note(session'.state, session'.generation) = toGateway[1]
    BY <1>2, <1>4 DEF Note, ToGateway
  <1> DEFINE rest == Tail(toGateway)
             n == Len(toGateway)
  <1>6. /\ rest \in Seq(ToGateway) /\ Len(rest) = n - 1 /\ n \in Nat \ {0}
        /\ DOMAIN rest = 1 .. n - 1 /\ \A j \in DOMAIN rest : rest[j] = toGateway[j + 1]
    BY <1>2, <1>3
  <1>7. toGateway' = rest
    BY <1>3
  <1> HIDE DEF rest
  <1>8. CASE n = 1
    <2>1. Len(rest) = 0
      BY <1>6, <1>8
    <2>2. rest = <<>>
      BY <1>6, <2>1, EmptySeq
    <2> QED
      BY <1>1, <1>5, <1>7, <1>8, <2>2 DEF Known
  <1>9. CASE n # 1
    <2>1. n - 1 \in DOMAIN rest /\ n - 1 + 1 = n /\ Len(rest) # 0
      BY <1>6, <1>9, SMT
    <2>2. rest # <<>>
      BY <1>6, <2>1, EmptySeq
    <2>3. rest[n - 1] = toGateway[n]
      BY <1>6, <2>1
    <2>4. Len(rest) = n - 1
      BY <1>6
    <2> QED
      BY <1>1, <1>7, <2>2, <2>3, <2>4 DEF Known
  <1> QED
    BY <1>8, <1>9

LEMMA ToldKnown ==
  ASSUME TypeOK, NEW states \in Seq(States), states # <<>>, NEW g \in Nat, Tell(states, g)
  PROVE  Known' = Note(states[Len(states)], g)
  <1> DEFINE notes == [i \in DOMAIN states |-> Note(states[i], g)]
  <1>1. DOMAIN states = 1 .. Len(states) /\ Len(states) \in Nat \ {0}
    BY LenProperties, EmptySeq
  <1>2. notes \in [1 .. Len(states) -> ToGateway]
    BY <1>1, ElementOfSeq DEF Note, ToGateway
  <1>3. notes \in Seq(ToGateway) /\ Len(notes) = Len(states)
    <2>1. notes \in Seq(ToGateway)
      BY <1>1, <1>2, SeqDef
    <2>2. DOMAIN notes = 1 .. Len(notes) /\ Len(notes) \in Nat
      BY <2>1, LenProperties
    <2>3. DOMAIN notes = 1 .. Len(states)
      BY <1>1
    <2> QED
      BY <1>1, <2>1, <2>2, <2>3
  <1>4. notes[Len(states)] = Note(states[Len(states)], g)
    BY <1>1
  <1> HIDE DEF notes
  <1>5. toGateway' = toGateway \o notes /\ toGateway \in Seq(ToGateway)
    BY Types DEF Tell, notes
  <1>6. /\ toGateway' \in Seq(ToGateway)
        /\ Len(toGateway') = Len(toGateway) + Len(states)
        /\ toGateway'[Len(toGateway) + Len(states)] = notes[Len(states)]
    <2>1. Len(toGateway) \in Nat
      BY <1>5, LenProperties
    <2>2. /\ toGateway \o notes \in Seq(ToGateway)
          /\ Len(toGateway \o notes) = Len(toGateway) + Len(notes)
          /\ \A i \in 1 .. Len(toGateway) + Len(notes) :
               (toGateway \o notes)[i] = IF i <= Len(toGateway) THEN toGateway[i]
                                         ELSE notes[i - Len(toGateway)]
      BY <1>3, <1>5, ConcatProperties
    <2>3. Len(notes) = Len(states) /\ Len(states) \in Nat \ {0}
      BY <1>1, <1>3
    <2> DEFINE m == Len(toGateway)
               k == Len(states)
    <2>4. m \in Nat /\ k \in Nat \ {0}
      BY <2>1, <2>3
    <2> HIDE DEF m, k
    <2>5. m + k \in 1 .. m + k /\ ~(m + k <= m) /\ m + k - m = k
      BY <2>4
    <2>6. (toGateway \o notes)[m + k] = notes[k]
      BY <2>2, <2>3, <2>5 DEF m, k
    <2> QED
      BY <1>5, <2>2, <2>3, <2>6 DEF m, k
  <1>7. Len(toGateway) \in Nat
    BY <1>5, LenProperties
  <1>8. toGateway' # <<>>
    BY <1>1, <1>6, <1>7, EmptySeq
  <1> QED
    BY <1>4, <1>6, <1>8 DEF Known

LEMMA SingleTold ==
  ASSUME TypeOK, NEW state \in States, NEW g \in Nat, Tell(<<state>>, g)
  PROVE  Known'.state = state /\ Known'.generation = g
  <1>1. <<state>> \in Seq(States) /\ <<state>> # <<>> /\ Len(<<state>>) = 1 /\ <<state>>[1] = state
    OBVIOUS
  <1>2. Known' = Note(state, g)
    BY <1>1, ToldKnown
  <1> QED
    BY <1>2 DEF Note

(* What the way to the connector does to the signals.                      *)
LEMMA SignalTaken ==
  ASSUME TypeOK, toWorld # <<>>, toWorld' = Tail(toWorld)
  PROVE  /\ \A type : Pending(type)' => Pending(type)
         /\ \A type : Pending(type) => Pending(type)' \/ Head(toWorld).type = type
         /\ StopIsLast => StopIsLast' \/ (Head(toWorld).type = "stop" /\ ~Pending("start")')
  <1>1. toWorld \in Seq(ToWorld) /\ Len(toWorld) \in Nat /\ DOMAIN toWorld = 1 .. Len(toWorld)
    BY Types, LenProperties
  <1>2. /\ Head(toWorld) = toWorld[1] /\ 1 \in DOMAIN toWorld
        /\ \A j \in DOMAIN toWorld' :
             toWorld'[j] = toWorld[j + 1] /\ j + 1 \in DOMAIN toWorld /\ j \in Nat \ {0}
    BY <1>1, TailItems
  <1>3. \A j \in DOMAIN toWorld : j # 1 => j - 1 \in DOMAIN toWorld' /\ toWorld'[j - 1] = toWorld[j]
    <2>1. DOMAIN toWorld' = 1 .. Len(toWorld) - 1
      BY <1>1, TailItems, LenProperties
    <2> QED
      BY <1>1, <1>2, <2>1
  <1>4. \A type : Pending(type)' => Pending(type)
    BY <1>2 DEF Pending
  <1>5. \A type : Pending(type) => Pending(type)' \/ Head(toWorld).type = type
    BY <1>2, <1>3, ZenonT(60) DEF Pending
  <1>6. ASSUME StopIsLast
        PROVE  StopIsLast' \/ (Head(toWorld).type = "stop" /\ ~Pending("start")')
    <2>1. PICK i \in DOMAIN toWorld :
            toWorld[i].type = "stop" /\ \A j \in DOMAIN toWorld : toWorld[j].type = "start" => j < i
      BY <1>6 DEF StopIsLast
    <2>2. CASE i = 1
      <3>1. ASSUME NEW j \in DOMAIN toWorld' PROVE toWorld'[j].type # "start"
        <4>1. j \in Nat \ {0} /\ j + 1 \in DOMAIN toWorld /\ toWorld'[j] = toWorld[j + 1]
          BY <1>2
        <4>2. ~(j + 1 < i)
          BY <2>2, <4>1
        <4> QED
          BY <2>1, <4>1, <4>2
      <3> QED
        BY <1>2, <2>1, <2>2, <3>1 DEF Pending
    <2>3. CASE i # 1
      <3>1. i - 1 \in DOMAIN toWorld' /\ toWorld'[i - 1].type = "stop"
        BY <1>3, <2>1, <2>3
      <3>2. ASSUME NEW j \in DOMAIN toWorld', toWorld'[j].type = "start" PROVE j < i - 1
        <4>1. j \in Nat \ {0} /\ j + 1 \in DOMAIN toWorld /\ toWorld[j + 1].type = "start"
          BY <1>2, <3>2
        <4>2. j + 1 < i /\ i \in Nat
          BY <1>1, <2>1, <4>1
        <4> QED
          BY <4>1, <4>2
      <3> QED
        BY <3>1, <3>2 DEF StopIsLast
    <2> QED
      BY <2>2, <2>3
  <1> QED
    BY <1>4, <1>5, <1>6

LEMMA SignalSent ==
  ASSUME TypeOK, NEW m \in ToWorld, toWorld' = Append(toWorld, m)
  PROVE  /\ \A type : Pending(type)' <=> Pending(type) \/ m.type = type
         /\ m.type = "stop" => StopIsLast'
         /\ m.type # "start" /\ StopIsLast => StopIsLast'
  <1>1. toWorld \in Seq(ToWorld) /\ Len(toWorld) \in Nat /\ DOMAIN toWorld = 1 .. Len(toWorld)
    BY Types, LenProperties
  <1>2. /\ \A j \in DOMAIN toWorld' :
             \/ j \in DOMAIN toWorld /\ toWorld'[j] = toWorld[j]
             \/ j = Len(toWorld) + 1 /\ toWorld'[j] = m
        /\ \A j \in DOMAIN toWorld : j \in Nat /\ j < Len(toWorld) + 1
    BY <1>1, AppendItems
  <1>3. /\ \A j \in DOMAIN toWorld : j \in DOMAIN toWorld' /\ toWorld'[j] = toWorld[j]
        /\ Len(toWorld) + 1 \in DOMAIN toWorld' /\ toWorld'[Len(toWorld) + 1] = m
    <2>1. DOMAIN toWorld' = 1 .. Len(toWorld) + 1
      BY <1>1, AppendProperties, LenProperties
    <2>2. \A j \in 1 .. Len(toWorld) : toWorld'[j] = toWorld[j]
      BY <1>1, AppendProperties
    <2>3. toWorld'[Len(toWorld) + 1] = m
      BY <1>1, AppendProperties
    <2> QED
      BY <1>1, <2>1, <2>2, <2>3
  <1>4. \A type : Pending(type)' <=> Pending(type) \/ m.type = type
    BY <1>2, <1>3 DEF Pending
  <1>5. ASSUME m.type = "stop" PROVE StopIsLast'
    <2>1. \A j \in DOMAIN toWorld' : toWorld'[j].type = "start" => j < Len(toWorld) + 1
      BY <1>2, <1>5
    <2> QED
      BY <1>3, <1>5, <2>1 DEF StopIsLast
  <1>6. ASSUME m.type # "start", StopIsLast PROVE StopIsLast'
    BY <1>2, <1>3, <1>6 DEF StopIsLast
  <1> QED
    BY <1>4, <1>5, <1>6

LEMMA SignalledView ==
  ASSUME TypeOK, NEW type \in {"start", "stop"}, Signal(type)
  PROVE  /\ \A t : Pending(t)' <=> Pending(t) \/ type = t
         /\ type = "stop" => StopIsLast'
  <1> DEFINE m == [type |-> type, n |-> 0]
  <1>1. m \in ToWorld /\ m.type = type
    BY DEF ToWorld
  <1>2. toWorld' = Append(toWorld, m)
    BY DEF Signal
  <1> HIDE DEF m
  <1> QED
    BY <1>1, <1>2, SignalSent
(* Steps that leave the signals and the claims of both sides.              *)
LEMMA SameSignals ==
  ASSUME toWorld' = toWorld
  PROVE  /\ \A type : Pending(type)' <=> Pending(type)
         /\ StopIsLast' <=> StopIsLast
  BY DEF Pending, StopIsLast

LEMMA SameKnown ==
  ASSUME toGateway' = toGateway,
         session'.state = session.state, session'.generation = session.generation
  PROVE  Known' = Known
  BY DEF Known, Note

LEMMA SameView ==
  ASSUME ViewInv, toWorld' = toWorld, toGateway' = toGateway,
         session'.state = session.state, session'.generation = session.generation,
         world'.state = world.state, world'.generation = world.generation,
         world'.phase = "none" <=> world.phase = "none",
         control' \in {"disconnect", "reconnect"} => control' = control
  PROVE  ViewInv'
  <1>1. (\A type : Pending(type)' <=> Pending(type)) /\ (StopIsLast' <=> StopIsLast)
    BY SameSignals
  <1>2. Known' = Known
    BY SameKnown
  <1>3. ViewFollows'
    BY <1>1, <1>2 DEF ViewInv, ViewFollows
  <1>4. StopComesFirst'
    BY <1>1 DEF ViewInv, StopComesFirst
  <1> QED
    BY <1>3, <1>4 DEF ViewInv

(* The world tells what it has become.                                     *)
LEMMA ToldView ==
  ASSUME ViewInv, toWorld' = toWorld, control' = control, world.phase # "none",
         Known'.state = world'.state, Known'.generation = world'.generation,
         world'.phase = "none" => world'.state = "stopped"
  PROVE  ViewInv'
  <1>1. (\A type : Pending(type)' <=> Pending(type)) /\ (StopIsLast' <=> StopIsLast)
    BY SameSignals
  <1>2. ViewFollows'
    BY DEF ViewFollows
  <1>3. StopComesFirst'
    BY <1>1 DEF ViewInv, StopComesFirst
  <1> QED
    BY <1>2, <1>3 DEF ViewInv

(* Telling the world to start leaves the rest to its answer.               *)
LEMMA StartedView ==
  ASSUME TypeOK, ViewInv, Signal("start"), world' = world,
         control' \notin {"disconnect", "reconnect"}
  PROVE  ViewInv'
  <1>1. Pending("start")'
    BY SignalledView
  <1>2. ViewFollows' /\ StopComesFirst'
    BY <1>1 DEF ViewFollows, StopComesFirst
  <1> QED
    BY <1>2 DEF ViewInv

LEMMA StartView ==
  ASSUME TypeOK, ViewInv, Start, UNCHANGED <<toGateway, world>>
  PROVE  ViewInv'
  <1>1. CASE session.runner
    <2>1. control' = "refused" /\ UNCHANGED <<session, toWorld, toGateway, world>>
      BY <1>1 DEF Start
    <2> QED
      BY <2>1, SameView
  <1>2. CASE ~session.runner
    <2>1. control' = "idle" /\ Signal("start") /\ world' = world
      BY <1>2 DEF Start
    <2> QED
      BY <2>1, StartedView
  <1> QED
    BY <1>1, <1>2

(* The steps of the Gateway.                                               *)
LEMMA GatewayView ==
  ASSUME TypeOK, ViewInv, GatewayStep, Autoconnect \/ MaxRestarts = 0
  PROVE  ViewInv'
  <1>0. session \in Session /\ used \in [attempts : Nat, controls : Nat, restarts : Nat]
    BY Types
  <1>1. ASSUME NEW expected, Submit(expected) PROVE ViewInv'
    <2>1. UNCHANGED <<session, control, toWorld, toGateway, world>>
      BY <1>1 DEF Submit
    <2> QED
      BY <2>1, SameView
  <1>2. CASE TakeCommand
    <2>1. UNCHANGED <<control, toWorld, toGateway, world>>
      BY <1>2 DEF TakeCommand
    <2>2. session'.state = session.state /\ session'.generation = session.generation
      BY <1>0, <1>2 DEF TakeCommand, Session
    <2> QED
      BY <2>1, <2>2, SameView
  <1>3. CASE SendCommand
    <2> DEFINE m == [type |-> "send", n |-> session.holding]
    <2>1. m \in ToWorld /\ m.type = "send"
      BY <1>0, <1>3 DEF SendCommand, Session, ToWorld
    <2>2. toWorld' = Append(toWorld, m) /\ UNCHANGED <<control, toGateway, world>>
      BY <1>3 DEF SendCommand
    <2>3. session'.state = session.state /\ session'.generation = session.generation
      BY <1>0, <1>3 DEF SendCommand, Session
    <2> HIDE DEF m
    <2>4. /\ \A type \in {"start", "stop"} : Pending(type)' <=> Pending(type)
          /\ StopIsLast => StopIsLast'
      BY <2>1, <2>2, SignalSent
    <2>5. Known' = Known
      BY <2>2, <2>3, SameKnown
    <2>6. ViewFollows'
      BY <2>2, <2>4, <2>5 DEF ViewInv, ViewFollows
    <2>7. StopComesFirst'
      BY <2>2, <2>4 DEF ViewInv, StopComesFirst
    <2> QED
      BY <2>2, <2>6, <2>7 DEF ViewInv
  <1>4. CASE HandleState
    <2>1. UNCHANGED <<control, toWorld, world>>
      BY <1>4 DEF HandleState
    <2>2. Known' = Known
      BY <1>4, HandledKnown
    <2>3. (\A type : Pending(type)' <=> Pending(type)) /\ (StopIsLast' <=> StopIsLast)
      BY <2>1, SameSignals
    <2>4. ViewFollows'
      BY <2>1, <2>2, <2>3 DEF ViewInv, ViewFollows
    <2>5. StopComesFirst'
      BY <2>1, <2>3 DEF ViewInv, StopComesFirst
    <2> QED
      BY <2>1, <2>4, <2>5 DEF ViewInv
  <1>5. ASSUME NEW action, Control(action) PROVE ViewInv'
    <2>1. UNCHANGED <<toGateway, world>>
      BY <1>5 DEF Control
    <2>2. CASE action = "connect"
      BY <1>5, <2>1, <2>2, StartView DEF Control
    <2>3. CASE action # "connect"
      <3>1. control' = action /\ Signal("stop") /\ UNCHANGED session
        BY <1>5, <2>3 DEF Control
      <3>2. (\A t : Pending(t)' <=> Pending(t) \/ "stop" = t) /\ StopIsLast'
        BY <3>1, SignalledView
      <3>3. Known' = Known
        BY <2>1, <3>1, SameKnown
      <3>4. (Pending("start")' <=> Pending("start")) /\ Pending("stop")'
        BY <3>2
      <3>5. ViewFollows'
        BY <2>1, <3>3, <3>4 DEF ViewInv, ViewFollows
      <3>6. StopComesFirst'
        BY <3>2 DEF StopComesFirst
      <3> QED
        BY <2>1, <3>5, <3>6 DEF ViewInv
    <2> QED
      BY <2>2, <2>3
  <1>6. CASE Detach
    <2>1. /\ control \in {"disconnect", "reconnect"}
          /\ control' \notin {"disconnect", "reconnect"}
          /\ UNCHANGED <<toWorld, toGateway, world>>
      BY <1>6 DEF Detach
    <2>2. session'.state = "stopped" /\ session'.generation = session.generation
      BY <1>0, <1>6 DEF Detach, Stopped, Session
    <2>3. (\A type : Pending(type)' <=> Pending(type)) /\ (StopIsLast' <=> StopIsLast)
      BY <2>1, SameSignals
    <2>4. Known' = Known \/ (Known'.state = "stopped" /\ Known'.generation = Known.generation)
      BY <2>1, <2>2 DEF Known, Note
    <2>5. Pending("stop") \/ (world.phase = "none" /\ world.state = "stopped")
      BY <2>1 DEF ViewInv, StopComesFirst, StopIsLast, Pending
    <2>6. ViewFollows'
      BY <2>1, <2>3, <2>4, <2>5 DEF ViewInv, ViewFollows
    <2>7. StopComesFirst'
      BY <2>1 DEF StopComesFirst
    <2> QED
      BY <2>1, <2>6, <2>7 DEF ViewInv
  <1>7. CASE Restart
    <2>1. Start /\ UNCHANGED <<toGateway, world>>
      BY <1>7 DEF Restart
    <2> QED
      BY <2>1, StartView
  <1>8. CASE GatewayRestart
    <2>1. used.restarts < MaxRestarts /\ MaxRestarts # 0
      BY <1>0, <1>8 DEF GatewayRestart
    <2>2. Autoconnect
      BY <2>1
    <2>3. control' = "idle" /\ world' = world /\ Signal("start")
      BY <1>8, <2>2 DEF GatewayRestart
    <2> QED
      BY <2>3, StartedView
  <1> QED
    BY <1>1, <1>2, <1>3, <1>4, <1>5, <1>6, <1>7, <1>8 DEF GatewayStep

(* The connector takes a message.                                          *)
LEMMA ReceiveView ==
  ASSUME TypeOK, ViewInv, Receive
  PROVE  ViewInv'
  <1> DEFINE m == Head(toWorld)
  <1>1. /\ toWorld # <<>> /\ toWorld' = Tail(toWorld)
        /\ UNCHANGED <<session, control>>
    BY DEF Receive, upstream
  <1>2. /\ toWorld \in Seq(ToWorld) /\ world \in World
    BY Types
  <1>3. m \in ToWorld /\ m = toWorld[1] /\ 1 \in DOMAIN toWorld
    BY <1>1, <1>2, TailItems
  <1>4. Pending(m.type)
    BY <1>3 DEF Pending
  <1>5. /\ \A type : Pending(type)' => Pending(type)
        /\ \A type : Pending(type) => Pending(type)' \/ m.type = type
        /\ StopIsLast => StopIsLast' \/ (m.type = "stop" /\ ~Pending("start")')
    BY <1>1, SignalTaken
  <1>6. m.type \in {"start", "stop", "send"}
    BY <1>3 DEF ToWorld
  <1> HIDE DEF m
  <1>7. CASE m.type = "start"
    <2>1. /\ world'.phase # "none"
          /\ Tell(<<world'.state>>, world'.generation)
          /\ world'.state \in States /\ world'.generation \in Nat
      <3>1. CASE world.phase # "none"
        BY <1>2, <1>7, <3>1 DEF Receive, Resumed, m, World
      <3>2. CASE world.phase = "none"
        <4>1. /\ world' = [Started EXCEPT !.state = "connecting"]
              /\ Tell(<<"connecting">>, world.generation)
          BY <1>7, <3>2 DEF Receive, m
        <4>2. /\ world'.phase = "connecting" /\ world'.state = "connecting"
              /\ world'.generation = world.generation /\ world.generation \in Nat
          BY <1>2, <4>1 DEF Started, World
        <4> QED
          BY <4>1, <4>2 DEF States
      <3> QED
        BY <3>1, <3>2
    <2>2. Known'.state = world'.state /\ Known'.generation = world'.generation
      BY <2>1, SingleTold
    <2>3. ViewFollows'
      BY <2>2 DEF ViewFollows
    <2>4. StopComesFirst'
      BY <1>1, <1>4, <1>5, <1>7 DEF ViewInv, StopComesFirst
    <2> QED
      BY <2>1, <2>3, <2>4 DEF ViewInv
  <1>8. CASE m.type = "stop"
    <2>1. /\ world' = [world EXCEPT !.phase = "none", !.state = "stopped"]
          /\ IF world.phase = "none" THEN UNCHANGED toGateway
             ELSE Tell(<<"stopped">>, world.generation)
      BY <1>8 DEF Receive, m
    <2>2. /\ world'.phase = "none" /\ world'.state = "stopped"
          /\ world'.generation = world.generation /\ world.generation \in Nat
      BY <1>2, <2>1 DEF World
    <2>3. Pending("start")' <=> Pending("start")
      BY <1>5, <1>8
    <2>4. ASSUME world.phase = "none" PROVE ViewFollows'
      <3>1. Known' = Known
        BY <1>1, <2>1, <2>4, SameKnown
      <3>2. world.state = "stopped"
        BY <2>4 DEF ViewInv
      <3> QED
        BY <2>2, <2>3, <3>1, <3>2 DEF ViewInv, ViewFollows
    <2>5. ASSUME world.phase # "none" PROVE ViewFollows'
      <3>1. Tell(<<"stopped">>, world.generation) /\ "stopped" \in States
        BY <2>1, <2>5 DEF States
      <3>2. Known'.state = "stopped" /\ Known'.generation = world.generation
        BY <2>2, <3>1, SingleTold
      <3> QED
        BY <2>2, <3>2 DEF ViewFollows
    <2>6. StopComesFirst'
      BY <1>1, <1>5, <2>2 DEF ViewInv, StopComesFirst
    <2> QED
      BY <2>2, <2>4, <2>5, <2>6 DEF ViewInv
  <1>9. CASE m.type = "send"
    <2>1. PICK quit \in Quits : world' = [world EXCEPT !.quit = @ \/ quit]
      BY <1>9 DEF Receive, m
    <2>2. toGateway' = toGateway
      BY <1>9 DEF Receive, m
    <2>3. /\ world'.phase = world.phase /\ world'.state = world.state
          /\ world'.generation = world.generation
      BY <1>2, <2>1 DEF World
    <2>4. Known' = Known
      BY <1>1, <2>2, SameKnown
    <2>5. /\ Pending("start")' <=> Pending("start")
          /\ Pending("stop")' <=> Pending("stop")
          /\ StopIsLast => StopIsLast'
      BY <1>5, <1>9
    <2>6. ViewFollows'
      BY <2>3, <2>4, <2>5 DEF ViewInv, ViewFollows
    <2>7. StopComesFirst'
      BY <1>1, <2>3, <2>5 DEF ViewInv, StopComesFirst
    <2> QED
      BY <2>3, <2>6, <2>7 DEF ViewInv
  <1> QED
    BY <1>6, <1>7, <1>8, <1>9
(* The end of an attempt or of a connection.                               *)
LEMMA EndedView ==
  ASSUME TypeOK, ViewInv, Ended, UNCHANGED <<toWorld, control>>, world.phase # "none"
  PROVE  ViewInv'
  <1> DEFINE next == world'.state
  <1>1. world \in World
    BY Types
  <1>2. /\ next \in {"reconnect_wait", "stopped"} /\ world'.generation = world.generation
        /\ world'.phase = "none" => next = "stopped"
        /\ Tell(<<"disconnected", next>>, world.generation)
    BY <1>1 DEF Ended, World
  <1> HIDE DEF next
  <1>3. <<"disconnected", next>> \in Seq(States) /\ <<"disconnected", next>> # <<>>
        /\ Len(<<"disconnected", next>>) = 2 /\ <<"disconnected", next>>[2] = next
    BY <1>2 DEF States
  <1>4. world.generation \in Nat
    BY <1>1 DEF World
  <1>5. Known' = Note(next, world.generation)
    BY <1>2, <1>3, <1>4, ToldKnown
  <1>6. Known'.state = next /\ Known'.generation = world'.generation
    BY <1>2, <1>5 DEF Note
  <1> QED
    BY <1>2, <1>6, ToldView DEF next

(* The steps of the connector.                                             *)
LEMMA ConnectorView ==
  ASSUME TypeOK, ViewInv, ConnectorStep
  PROVE  ViewInv'
  <1>0. world \in World
    BY Types
  <1>1. CASE Receive
    BY <1>1, ReceiveView
  <1>2. CASE Unblock \/ WriteCommand
    <2>1. UNCHANGED <<session, control, toWorld, toGateway, world>>
      BY <1>2 DEF Unblock, WriteCommand, upstream
    <2> QED
      BY <2>1, SameView
  <1>3. CASE Connect
    <2>1. /\ UNCHANGED <<toWorld, control>> /\ world.phase # "none"
          /\ world'.phase = "startup" /\ world'.state = "connected"
          /\ world'.generation \in Nat /\ Tell(<<"connected">>, world'.generation)
      BY <1>0, <1>3 DEF Connect, World, upstream
    <2>2. Known'.state = "connected" /\ Known'.generation = world'.generation
      BY <2>1, SingleTold DEF States
    <2> QED
      BY <2>1, <2>2, ToldView
  <1>4. CASE ConnectFails \/ RemoteCloses
    <2>1. Ended /\ UNCHANGED <<toWorld, control>> /\ world.phase # "none"
      BY <1>4 DEF ConnectFails, RemoteCloses, upstream
    <2> QED
      BY <2>1, EndedView
  <1>5. CASE Retry
    <2>1. /\ UNCHANGED <<toWorld, control>> /\ world.phase # "none"
          /\ world'.phase = "connecting" /\ world'.state = "connecting"
          /\ world'.generation = world.generation /\ world.generation \in Nat
          /\ Tell(<<"connecting">>, world.generation)
      BY <1>0, <1>5 DEF Retry, World, upstream
    <2>2. Known'.state = "connecting" /\ Known'.generation = world.generation
      BY <2>1, SingleTold DEF States
    <2> QED
      BY <2>1, <2>2, ToldView
  <1>6. CASE SendStartup
    <2>1. UNCHANGED <<session, control, toWorld, toGateway>>
      BY <1>6 DEF SendStartup, upstream
    <2>2. /\ world'.state = world.state /\ world'.generation = world.generation
          /\ world'.phase # "none" /\ world.phase # "none"
      BY <1>0, <1>6 DEF SendStartup, World
    <2> QED
      BY <2>1, <2>2, SameView
  <1> QED
    BY <1>1, <1>2, <1>3, <1>4, <1>5, <1>6 DEF ConnectorStep

LEMMA InitView == Init => ViewInv
  <1> SUFFICES ASSUME Init PROVE ViewInv
    OBVIOUS
  <1>1. world.state = "stopped" /\ world.generation = 0 /\ control = "idle"
    BY DEF Init
  <1>2. Known.state = "stopped" /\ Known.generation = 0
    BY DEF Init, Known, Note
  <1> QED
    BY <1>1, <1>2 DEF ViewInv, ViewFollows, StopComesFirst

(* The view of a Gateway that has heard everything.                        *)
LEMMA ViewInvAgrees == ViewInv => ViewAgrees
  <1> SUFFICES ASSUME ViewInv, toWorld = <<>>, toGateway = <<>>
               PROVE  session.state = world.state /\ session.generation = world.generation
    BY DEF ViewAgrees
  <1>1. \A type : ~Pending(type)
    BY DEF Pending
  <1>2. Known.state = session.state /\ Known.generation = session.generation
    BY DEF Known, Note
  <1> QED
    BY <1>1, <1>2 DEF ViewInv, ViewFollows

(* Once nothing is under way the Gateway knows the state and generation of *)
(* the world connection, whatever was submitted, connected, lost, stopped  *)
(* and reconnected before, when every Gateway process that follows another *)
(* starts the world itself (handle_connector_event, start()'s resumed      *)
(* state, _detach).                                                        *)
THEOREM ViewIsRight ==
  ASSUME Autoconnect \/ MaxRestarts = 0
  PROVE  Spec => []ViewAgrees
  <1>1. Init => ViewInv
    BY InitView
  <1>2. TypeOK /\ ViewInv /\ [Next]_vars => ViewInv'
    <2> SUFFICES ASSUME TypeOK, ViewInv, [Next]_vars PROVE ViewInv'
      OBVIOUS
    <2>1. CASE GatewayStep
      BY <2>1, GatewayView
    <2>2. CASE ConnectorStep
      BY <2>2, ConnectorView
    <2>3. CASE UNCHANGED vars
      <3>1. UNCHANGED <<session, control, toWorld, toGateway, world>>
        BY <2>3 DEF vars, upstream
      <3> QED
        BY <3>1, SameView
    <2> QED
      BY <2>1, <2>2, <2>3 DEF Next
  <1>3. ViewInv => ViewAgrees
    BY ViewInvAgrees
  <1> QED
    BY <1>1, <1>2, <1>3, TypeCorrect, PTL DEF Spec
=============================================================================
