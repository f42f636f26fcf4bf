-------------------------------- MODULE MuxProofs ------------------------------
(***************************************************************************)
(* Proofs about the two stream multiplexers.  For all windows, bounds and  *)
(* priority bands their books agree: the bytes queued, under way, buffered *)
(* and owed account for every credit, so that no frame meets a window      *)
(* without room, and a FIN is the last of its stream.  Phases never return.*)
(***************************************************************************)
EXTENDS StreamMux, WellFoundedInduction, TLAPS

\* A set of natural numbers that is not empty has a least member.
LEMMA LeastNat == ASSUME NEW S, S \subseteq Nat, S # {} PROVE \E x \in S : \A y \in S : x <= y
<1> DEFINE R == OpToRel(<, Nat)
<1>1. \A x, y \in Nat : <<y, x>> \in R <=> y < x
  BY DEF OpToRel
<1>2. IsWellFoundedOn(R, Nat)
  BY NatLessThanWellFounded, ZenonT(60)
<1> HIDE DEF R
<1>3. \E x \in S : \A y \in S : ~ (<<y, x>> \in R)
  BY <1>2, WFMin, ZenonT(60)
<1>4. PICK x \in S : \A y \in S : ~ (<<y, x>> \in R)
  BY <1>3
<1>5. \A y \in S : x <= y
  <2> SUFFICES ASSUME NEW y \in S PROVE x <= y
    OBVIOUS
  <2>1. x \in Nat /\ y \in Nat
    OBVIOUS
  <2>2. ~ (y < x)
    BY <1>1, <1>4, <2>1, ZenonT(60)
  <2> QED BY <2>1, <2>2
<1> QED BY <1>5

\* Induction over the numbers up to N: a set that has 0, and with n - 1 also n, has all.
LEMMA Induction ==
    ASSUME NEW N \in Nat, NEW G, 0 \in G, \A n \in 1..N : n - 1 \in G => n \in G
    PROVE  \A n \in 0..N : n \in G
<1> DEFINE bad == {n \in Nat : n \in 0..N /\ n \notin G}
<1> SUFFICES ASSUME bad # {} PROVE FALSE
  <2>1. \A n \in 0..N : n \in Nat
    OBVIOUS
  <2> QED BY <2>1, Zenon
<1>1. bad \subseteq Nat
  BY Zenon
<1>2. PICK m \in bad : \A y \in bad : m <= y
  BY <1>1, LeastNat, Zenon
<1>3. m \in Nat /\ m \in 0..N /\ m \notin G
  BY Zenon
<1>4. m # 0
  BY <1>3, Zenon
<1>5. m \in 1..N /\ m - 1 \in Nat /\ m - 1 \in 0..N /\ ~(m <= m - 1)
  BY <1>3, <1>4
<1>6. m - 1 \notin bad
  BY <1>2, <1>5, Zenon
<1>7. m - 1 \in G
  BY <1>5, <1>6, Zenon
<1> QED BY <1>3, <1>5, <1>7, Zenon
-------------------------------------------------------------------------------
\* The recursion by which the sums are defined has a solution.
Adds(f, s, n) == f = [m \in 0..n |-> IF m = 0 THEN 0 ELSE f[m - 1] + s[m]]

LEMMA SumsExtend ==
    ASSUME NEW s, NEW n \in Nat, n # 0, NEW f, Adds(f, s, n - 1)
    PROVE  \E g : Adds(g, s, n)
<1> DEFINE g == [m \in 0..n |-> IF m = n THEN f[n - 1] + s[n] ELSE f[m]]
<1>1. ASSUME NEW m \in 0..n
      PROVE  g[m] = IF m = 0 THEN 0 ELSE g[m - 1] + s[m]
  <2>1. CASE m = 0
    <3>1. 0 \in 0..n - 1 /\ 0 # n
      OBVIOUS
    <3>2. g[m] = f[0]
      BY <2>1, <3>1, Zenon
    <3> QED BY <2>1, <3>1, <3>2, Zenon DEF Adds
  <2>2. CASE m # 0 /\ m = n
    <3>1. m - 1 \in 0..n /\ m - 1 # n
      BY <2>2
    <3> QED BY <2>2, <3>1, Zenon
  <2>3. CASE m # 0 /\ m # n
    <3>1. m \in 0..n - 1 /\ m - 1 \in 0..n /\ m - 1 # n
      BY <2>3
    <3>2. f[m] = f[m - 1] + s[m]
      BY <2>3, <3>1, Zenon DEF Adds
    <3>3. g[m] = f[m] /\ g[m - 1] = f[m - 1]
      BY <2>3, <3>1, Zenon
    <3> QED BY <2>3, <3>2, <3>3, Zenon
  <2> QED BY <2>1, <2>2, <2>3, Zenon
<1>2. g = [m \in 0..n |-> g[m]]
  BY Zenon
<1> HIDE DEF g
<1>3. g = [m \in 0..n |-> IF m = 0 THEN 0 ELSE g[m - 1] + s[m]]
  BY <1>1, <1>2, Zenon
<1> QED BY <1>3, Zenon DEF Adds

\* Hence a sum is the one before it and the last number.
LEMMA SumsUnfold ==
    ASSUME NEW s, Len(s) \in Nat, NEW n \in 0..Len(s)
    PROVE  Sums(s)[n] = IF n = 0 THEN 0 ELSE Sums(s)[n - 1] + s[n]
<1> DEFINE G == {m \in Nat : \E f : Adds(f, s, m)}
<1>1. 0 \in G
  <2>1. Adds([i \in 0..0 |-> 0], s, 0)
    <3>1. \A i \in 0..0 : i = 0
      OBVIOUS
    <3> QED BY <3>1, Zenon DEF Adds
  <2> QED BY <2>1
<1>2. ASSUME NEW m \in 1..Len(s), m - 1 \in G PROVE m \in G
  <2>1. m \in Nat /\ m # 0
    OBVIOUS
  <2> QED BY <1>2, <2>1, SumsExtend, Zenon
<1>3. \A m \in 0..Len(s) : m \in G
  <2> HIDE DEF G
  <2> QED BY <1>1, <1>2, Induction, Zenon
<1>4. Len(s) \in 0..Len(s)
  OBVIOUS
<1>5. \E f : Adds(f, s, Len(s))
  BY <1>3, <1>4, Zenon
<1>6. Adds(Sums(s), s, Len(s))
  BY <1>5, Zenon DEF Sums, Adds
<1> QED BY <1>6, Zenon DEF Adds

\* Facts of arithmetic, named so that they can be cited as they stand.
Grouped(a, b, x) == (a + b) + x = a + (b + x)
Balanced(a, b, p, q) == a + p = b + q

LEMMA AddMore == ASSUME NEW a \in Nat, NEW b \in Nat, NEW x \in Nat PROVE Grouped(a, b, x)
BY DEF Grouped

LEMMA AddBoth ==
    ASSUME NEW a \in Nat, NEW b \in Nat, NEW p \in Nat, NEW q \in Nat, NEW x \in Nat,
           Balanced(a, b, p, q)
    PROVE  Balanced(a + x, b + x, p, q)
BY DEF Balanced

LEMMA SeqAt == ASSUME NEW s \in Seq(Nat), NEW k \in 1..Len(s) PROVE s[k] \in Nat
OBVIOUS

\* Sums of natural numbers are natural numbers.
LEMMA SumsNat ==
    ASSUME NEW s \in Seq(Nat), NEW n \in 0..Len(s)
    PROVE  Sums(s)[n] \in Nat
<1> DEFINE G == {m \in Nat : Sums(s)[m] \in Nat}
<1>0. Len(s) \in Nat
  OBVIOUS
<1>1. 0 \in G
  <2>1. 0 \in 0..Len(s) /\ 0 \in Nat
    BY <1>0
  <2> QED BY <1>0, <2>1, SumsUnfold, Zenon
<1>2. ASSUME NEW m \in 1..Len(s), m - 1 \in G PROVE m \in G
  <2>1. m \in Nat /\ m # 0 /\ m \in 0..Len(s) /\ s[m] \in Nat
    OBVIOUS
  <2>2. Sums(s)[m] = Sums(s)[m - 1] + s[m]
    BY <1>0, <2>1, SumsUnfold, Zenon
  <2>3. Sums(s)[m - 1] \in Nat
    BY <1>2, Zenon
  <2>4. Sums(s)[m] \in Nat
    BY <2>1, <2>2, <2>3
  <2> QED BY <2>1, <2>4, Zenon
<1>3. \A m \in 0..Len(s) : m \in G
  <2> HIDE DEF G
  <2> QED BY <1>0, <1>1, <1>2, Induction, Zenon
<1> QED BY <1>3, Zenon

LEMMA TotalNat == ASSUME NEW s \in Seq(Nat) PROVE Total(s) \in Nat
<1>1. Len(s) \in 0..Len(s)
  OBVIOUS
<1> QED BY <1>1, SumsNat, Zenon DEF Total

\* Sums of beginnings depend on these beginnings only, ...
LEMMA SumsAgree ==
    ASSUME NEW s \in Seq(Nat), NEW t \in Seq(Nat), NEW n \in Nat, n <= Len(s), n <= Len(t),
           \A k \in 1..n : s[k] = t[k]
    PROVE  Sums(s)[n] = Sums(t)[n]
<1> DEFINE G == {m \in Nat : Sums(s)[m] = Sums(t)[m]}
<1>0. Len(s) \in Nat /\ Len(t) \in Nat
  OBVIOUS
<1>1. 0 \in G
  <2>1. 0 \in 0..Len(s) /\ 0 \in 0..Len(t)
    BY <1>0
  <2>2. Sums(s)[0] = 0 /\ Sums(t)[0] = 0
    BY <1>0, <2>1, SumsUnfold, Zenon
  <2> QED BY <2>2, Zenon
<1>2. ASSUME NEW m \in 1..n, m - 1 \in G PROVE m \in G
  <2>1. m \in Nat /\ m # 0 /\ m \in 0..Len(s) /\ m \in 0..Len(t)
    BY <1>0
  <2>2. Sums(s)[m] = Sums(s)[m - 1] + s[m] /\ Sums(t)[m] = Sums(t)[m - 1] + t[m]
    BY <1>0, <2>1, SumsUnfold, Zenon
  <2> QED BY <1>2, <2>1, <2>2, Zenon
<1>3. \A m \in 0..n : m \in G
  <2> HIDE DEF G
  <2> QED BY <1>1, <1>2, Induction, Zenon
<1>4. n \in 0..n
  OBVIOUS
<1> QED BY <1>3, <1>4, Zenon

LEMMA TotalAgree ==
    ASSUME NEW s \in Seq(Nat), NEW t \in Seq(Nat), Len(s) = Len(t), \A k \in 1..Len(s) : s[k] = t[k]
    PROVE  Total(s) = Total(t)
<1>1. Len(s) \in Nat /\ Len(s) <= Len(s) /\ Len(s) <= Len(t)
  OBVIOUS
<1>2. Sums(s)[Len(s)] = Sums(t)[Len(s)]
  BY <1>1, SumsAgree, Zenon
<1> QED BY <1>2, Zenon DEF Total

\* ... so that appending a number adds it.
LEMMA TotalAppend ==
    ASSUME NEW s \in Seq(Nat), NEW x \in Nat
    PROVE  Total(Append(s, x)) = Total(s) + x
<1> DEFINE t == Append(s, x)
           n == Len(s)
<1>1. t \in Seq(Nat) /\ Len(t) = n + 1 /\ n \in Nat /\ t[n + 1] = x
  OBVIOUS
<1>2. \A k \in 1..n : s[k] = t[k]
  OBVIOUS
<1>3. n <= Len(t) /\ n <= Len(s) /\ n + 1 \in 0..Len(t) /\ n + 1 # 0 /\ (n + 1) - 1 = n /\ Len(t) \in Nat
  BY <1>1
<1> HIDE DEF t
<1>4. Sums(t)[n + 1] = Sums(t)[n] + x
  BY <1>1, <1>3, SumsUnfold, Zenon
<1> HIDE DEF n
<1>5. Sums(s)[n] = Sums(t)[n]
  BY <1>1, <1>2, <1>3, SumsAgree, Zenon
<1> QED BY <1>1, <1>4, <1>5, Zenon DEF Total, t, n

\* Taking the head away takes it from the sums.
LEMMA SumsTail ==
    ASSUME NEW s \in Seq(Nat), s # <<>>, NEW n \in 0..Len(s) - 1
    PROVE  Sums(s)[n + 1] = Head(s) + Sums(Tail(s))[n]
<1> DEFINE t == Tail(s)
           G == {m \in Nat : Sums(s)[m + 1] = Head(s) + Sums(t)[m]}
<1>0. /\ Len(s) \in Nat /\ t \in Seq(Nat) /\ Len(t) = Len(s) - 1 /\ Len(t) \in Nat
      /\ Head(s) = s[1] /\ Head(s) \in Nat
      /\ \A k \in 1..Len(t) : t[k] = s[k + 1]
  OBVIOUS
<1> HIDE DEF t
<1>1. 0 \in G
  <2>1. 0 \in 0..Len(s) /\ 0 \in 0..Len(t) /\ 1 \in 0..Len(s) /\ 1 - 1 = 0 /\ 1 # 0 /\ 0 + 1 = 1
    BY <1>0
  <2>2. Sums(s)[0] = 0 /\ Sums(t)[0] = 0
    BY <1>0, <2>1, SumsUnfold, Zenon
  <2>3. Sums(s)[1] = Sums(s)[0] + s[1]
    BY <1>0, <2>1, SumsUnfold, Zenon
  <2> QED BY <1>0, <2>2, <2>3
<1>2. ASSUME NEW m \in 1..Len(t), m - 1 \in G PROVE m \in G
  <2>0. PICK a \in Nat, b \in Nat : a = Len(s) /\ b = Len(t) /\ b = a - 1
    BY <1>0, Zenon
  <2>1. /\ m \in Nat /\ m # 0 /\ m \in 0..Len(t) /\ m + 1 \in 0..Len(s) /\ m + 1 # 0 /\ m \in 0..Len(s)
        /\ (m - 1) + 1 = m /\ (m + 1) - 1 = m /\ m - 1 \in 0..Len(t)
    BY <2>0
  <2>2. Sums(s)[m + 1] = Sums(s)[m] + s[m + 1]
    BY <1>0, <2>1, SumsUnfold, Zenon
  <2>3. Sums(t)[m] = Sums(t)[m - 1] + t[m]
    BY <1>0, <2>1, SumsUnfold, Zenon
  <2>4. Sums(s)[m] = Head(s) + Sums(t)[m - 1]
    BY <1>2, <2>1, Zenon
  <2>5. t[m] = s[m + 1] /\ t[m] \in Nat
    BY <1>0, SeqAt, Zenon
  <2>6. Sums(t)[m - 1] \in Nat
    BY <1>0, <2>1, SumsNat, Zenon
  <2>7. Sums(s)[m + 1] = Head(s) + Sums(t)[m]
    <3>1. Grouped(Head(s), Sums(t)[m - 1], t[m])
      BY <1>0, <2>5, <2>6, AddMore, Zenon
    <3> QED BY <2>2, <2>3, <2>4, <2>5, <3>1, Zenon DEF Grouped
  <2> QED BY <2>1, <2>7, Zenon
<1>3. \A m \in 0..Len(t) : m \in G
  <2> HIDE DEF G
  <2> QED BY <1>0, <1>1, <1>2, Induction, Zenon
<1>4. n \in 0..Len(t)
  BY <1>0
<1> QED BY <1>3, <1>4, Zenon DEF t

\* ... and from the total.
LEMMA TotalTail ==
    ASSUME NEW s \in Seq(Nat), s # <<>>
    PROVE  Total(s) = Head(s) + Total(Tail(s)) /\ Total(Tail(s)) \in Nat /\ Head(s) \in Nat
<1>1. /\ Len(Tail(s)) \in 0..Len(s) - 1 /\ Len(Tail(s)) + 1 = Len(s) /\ Tail(s) \in Seq(Nat)
      /\ Head(s) \in Nat
  OBVIOUS
<1>2. Sums(s)[Len(Tail(s)) + 1] = Head(s) + Sums(Tail(s))[Len(Tail(s))]
  BY <1>1, SumsTail, Zenon
<1> QED BY <1>1, <1>2, TotalNat, Zenon DEF Total

LEMMA TotalEmpty == Total(<<>>) = 0
<1>1. Len(<<>>) = 0 /\ Len(<<>>) \in Nat /\ 0 \in 0..Len(<<>>)
  OBVIOUS
<1> QED BY <1>1, SumsUnfold, Zenon DEF Total

\* Zeros add up to zero.
LEMMA TotalZero ==
    ASSUME NEW s \in Seq(Nat), \A k \in 1..Len(s) : s[k] = 0
    PROVE  Total(s) = 0
<1> DEFINE G == {m \in Nat : Sums(s)[m] = 0}
<1>0. Len(s) \in Nat /\ Len(s) \in 0..Len(s) /\ 0 \in 0..Len(s)
  OBVIOUS
<1>1. 0 \in G
  BY <1>0, SumsUnfold, Zenon
<1>2. ASSUME NEW m \in 1..Len(s), m - 1 \in G PROVE m \in G
  <2>1. m \in Nat /\ m # 0 /\ m \in 0..Len(s)
    OBVIOUS
  <2>2. Sums(s)[m] = Sums(s)[m - 1] + s[m]
    BY <1>0, <2>1, SumsUnfold, Zenon
  <2>3. Sums(s)[m] = 0 + 0
    BY <1>2, <2>2, Zenon
  <2>4. 0 + 0 = 0
    OBVIOUS
  <2> QED BY <2>1, <2>3, <2>4, Zenon
<1>3. \A m \in 0..Len(s) : m \in G
  <2> HIDE DEF G
  <2> QED BY <1>0, <1>1, <1>2, Induction, Zenon
<1> QED BY <1>0, <1>3, Zenon DEF Total

\* Replacing one number changes the total by the difference.
LEMMA TotalUpdate ==
    ASSUME NEW s \in Seq(Nat), NEW t \in Seq(Nat), Len(t) = Len(s), NEW i \in 1..Len(s),
           \A k \in 1..Len(s) : k # i => t[k] = s[k]
    PROVE  Total(t) + s[i] = Total(s) + t[i]
<1> DEFINE G == {m \in Nat : m < i \/ Sums(t)[m] + s[i] = Sums(s)[m] + t[i]}
<1>0. /\ Len(s) \in Nat /\ Len(s) \in 0..Len(s) /\ 0 \in 0..Len(s) /\ ~(Len(s) < i)
      /\ s[i] \in Nat /\ t[i] \in Nat /\ i \in Nat /\ 0 < i
  OBVIOUS
<1>1. 0 \in G
  BY <1>0, Zenon
<1>2. ASSUME NEW m \in 1..Len(s), m - 1 \in G PROVE m \in G
  <2>0. m \in Nat /\ m # 0 /\ m \in 0..Len(s) /\ m - 1 \in 0..Len(s)
    BY <1>0
  <2>1. m \in Nat /\ m # 0 /\ m \in 0..Len(s) /\ m - 1 \in 0..Len(s) /\ s[m] \in Nat /\ t[m] \in Nat
    BY <2>0, SeqAt, Zenon
  <2>2. Sums(s)[m] = Sums(s)[m - 1] + s[m] /\ Sums(t)[m] = Sums(t)[m - 1] + t[m]
    BY <1>0, <2>1, SumsUnfold, Zenon
  <2>3. Sums(s)[m - 1] \in Nat /\ Sums(t)[m - 1] \in Nat
    BY <2>1, SumsNat, Zenon
  <2>4. m - 1 < i \/ Sums(t)[m - 1] + s[i] = Sums(s)[m - 1] + t[i]
    BY <1>2, Zenon
  <2> HIDE DEF G
  <2>5. CASE m < i
    BY <2>1, <2>5, Zenon DEF G
  <2>6. CASE m = i
    <3>1. ASSUME NEW k \in 1..m - 1 PROVE s[k] = t[k]
      <4>1. k \in 1..Len(s) /\ k # i
        BY <2>6
      <4> QED BY <4>1, Zenon
    <3>2. m - 1 <= Len(s) /\ m - 1 <= Len(t) /\ m - 1 \in Nat
      OBVIOUS
    <3>3. Sums(s)[m - 1] = Sums(t)[m - 1]
      BY <3>1, <3>2, SumsAgree, Zenon
    <3>4. Sums(t)[m] + s[i] = Sums(s)[m] + t[i]
      BY <1>0, <2>2, <2>3, <2>6, <3>3
    <3> QED BY <2>1, <3>4, Zenon DEF G
  <2>7. CASE m > i
    <3>0. m # i
      BY <1>0, <2>1, <2>7
    <3>1. s[m] = t[m]
      BY <3>0, Zenon
    <3>2. ~(m - 1 < i)
      BY <1>0, <2>1, <2>7
    <3>5. Sums(t)[m - 1] + s[i] = Sums(s)[m - 1] + t[i]
      BY <2>4, <3>2, Zenon
    <3>6. s[i] \in Nat /\ t[i] \in Nat /\ s[m] \in Nat
      BY <1>0, <2>1, Zenon
    <3>3. (Sums(t)[m - 1] + s[m]) + s[i] = (Sums(s)[m - 1] + s[m]) + t[i]
      <4>1. PICK a \in Nat, b \in Nat, p \in Nat, q \in Nat, x \in Nat :
                a = Sums(t)[m - 1] /\ b = Sums(s)[m - 1] /\ p = s[i] /\ q = t[i] /\ x = s[m]
        BY <2>3, <3>6, Zenon
      <4>2. Balanced(a, b, p, q)
        BY <3>5, <4>1, Zenon DEF Balanced
      <4>3. Balanced(a + x, b + x, p, q)
        BY <4>2, AddBoth, Zenon
      <4> QED BY <4>1, <4>3, Zenon DEF Balanced
    <3>4. Sums(t)[m] + s[i] = Sums(s)[m] + t[i]
      BY <2>2, <3>1, <3>3, Zenon
    <3> QED BY <2>1, <3>4, Zenon DEF G
  <2>8. m < i \/ m = i \/ m > i
    BY <1>0, <2>1
  <2> QED BY <2>5, <2>6, <2>7, <2>8, Zenon
<1>3. \A m \in 0..Len(s) : m \in G
  <2> HIDE DEF G
  <2> QED BY <1>0, <1>1, <1>2, Induction, Zenon
<1> QED BY <1>0, <1>3, Zenon DEF Total
-------------------------------------------------------------------------------
Frames == {f \in [type : {"DATA", "WINDOW", "RESET"}, id : Nat, len : Nat, fin : BOOLEAN] :
               f.type = "DATA" => f.id # 0}

LEMMA WeightNat == ASSUME NEW f \in Frames, NEW ids, NEW t PROVE Weight(f, ids, t) \in Nat
BY DEF Weight, Frames

\* The bytes under way are a sum of natural numbers, ...
Weights(fr, ids, t) == [n \in 1..Len(fr) |-> Weight(fr[n], ids, t)]

LEMMA WeightsSeq ==
    ASSUME NEW fr \in Seq(Frames), NEW ids, NEW t
    PROVE  /\ Weights(fr, ids, t) \in Seq(Nat) /\ Len(Weights(fr, ids, t)) = Len(fr)
           /\ UnderWay(fr, ids, t) = Total(Weights(fr, ids, t))
<1>1. \A n \in 1..Len(fr) : fr[n] \in Frames
  OBVIOUS
<1>2. \A n \in 1..Len(fr) : Weight(fr[n], ids, t) \in Nat
  BY <1>1, WeightNat, Zenon
<1>3. Len(fr) \in Nat
  OBVIOUS
<1>4. Weights(fr, ids, t) \in Seq(Nat) /\ Len(Weights(fr, ids, t)) = Len(fr)
  BY <1>2, <1>3 DEF Weights
<1> QED BY <1>4, Zenon DEF UnderWay, Weights

LEMMA UnderWayNat ==
    ASSUME NEW fr \in Seq(Frames), NEW ids, NEW t PROVE UnderWay(fr, ids, t) \in Nat
BY WeightsSeq, TotalNat, Zenon

\* ... to which a frame sent adds its own, ...
LEMMA UnderWayAppend ==
    ASSUME NEW fr \in Seq(Frames), NEW f \in Frames, NEW ids, NEW t
    PROVE  UnderWay(Append(fr, f), ids, t) = UnderWay(fr, ids, t) + Weight(f, ids, t)
<1>1. Append(fr, f) \in Seq(Frames)
  OBVIOUS
<1>2. PICK w, v, x : /\ w = Weights(Append(fr, f), ids, t) /\ v = Weights(fr, ids, t)
                     /\ x = Weight(f, ids, t)
  BY Zenon
<1>3. w \in Seq(Nat) /\ Len(w) = Len(Append(fr, f)) /\ UnderWay(Append(fr, f), ids, t) = Total(w)
  BY <1>1, <1>2, WeightsSeq, Zenon
<1>4. v \in Seq(Nat) /\ Len(v) = Len(fr) /\ UnderWay(fr, ids, t) = Total(v) /\ x \in Nat
  BY <1>2, WeightsSeq, WeightNat, Zenon
<1>5. Append(v, x) \in Seq(Nat) /\ Len(Append(v, x)) = Len(w)
  BY <1>3, <1>4
<1>6. ASSUME NEW k \in 1..Len(w) PROVE w[k] = Append(v, x)[k]
  <2>1. w[k] = Weight(Append(fr, f)[k], ids, t)
    BY <1>2, <1>3, Zenon DEF Weights
  <2>2. CASE k \in 1..Len(fr)
    <3>1. Append(fr, f)[k] = fr[k] /\ Append(v, x)[k] = v[k]
      BY <1>4, <2>2
    <3>2. v[k] = Weight(fr[k], ids, t)
      BY <1>2, <2>2, Zenon DEF Weights
    <3> QED BY <2>1, <3>1, <3>2, Zenon
  <2>3. CASE k \notin 1..Len(fr)
    <3>1. k = Len(fr) + 1
      BY <1>3, <2>3
    <3>2. Append(fr, f)[k] = f /\ Append(v, x)[k] = x
      BY <1>4, <3>1
    <3> QED BY <1>2, <2>1, <3>2, Zenon
  <2> QED BY <2>2, <2>3, Zenon
<1>7. Total(w) = Total(Append(v, x))
  BY <1>3, <1>5, <1>6, TotalAgree, Zenon
<1> QED BY <1>2, <1>3, <1>4, <1>7, TotalAppend, Zenon

\* ... and from which a frame received takes it.
LEMMA UnderWayTail ==
    ASSUME NEW fr \in Seq(Frames), fr # <<>>, NEW ids, NEW t
    PROVE  UnderWay(fr, ids, t) = Weight(Head(fr), ids, t) + UnderWay(Tail(fr), ids, t)
<1>1. Tail(fr) \in Seq(Frames)
  OBVIOUS
<1>2. PICK w, v : w = Weights(Tail(fr), ids, t) /\ v = Weights(fr, ids, t)
  BY Zenon
<1>3. w \in Seq(Nat) /\ Len(w) = Len(Tail(fr)) /\ UnderWay(Tail(fr), ids, t) = Total(w)
  BY <1>1, <1>2, WeightsSeq, Zenon
<1>4. v \in Seq(Nat) /\ Len(v) = Len(fr) /\ UnderWay(fr, ids, t) = Total(v)
  BY <1>2, WeightsSeq, Zenon
<1>5. /\ v # <<>> /\ Tail(v) \in Seq(Nat) /\ Len(Tail(v)) = Len(w) /\ Head(v) = v[1]
      /\ Head(fr) = fr[1] /\ 1 \in 1..Len(fr)
  BY <1>3, <1>4
<1>6. ASSUME NEW k \in 1..Len(w) PROVE w[k] = Tail(v)[k]
  <2>1. w[k] = Weight(Tail(fr)[k], ids, t)
    BY <1>2, <1>3, Zenon DEF Weights
  <2>2. Tail(fr)[k] = fr[k + 1] /\ Tail(v)[k] = v[k + 1] /\ k + 1 \in 1..Len(fr)
    BY <1>3, <1>4
  <2>3. v[k + 1] = Weight(fr[k + 1], ids, t)
    BY <1>2, <2>2, Zenon DEF Weights
  <2> QED BY <2>1, <2>2, <2>3, Zenon
<1>7. Total(w) = Total(Tail(v))
  BY <1>3, <1>5, <1>6, TotalAgree, Zenon
<1>8. Head(v) = Weight(Head(fr), ids, t)
  BY <1>2, <1>5, Zenon DEF Weights
<1> QED BY <1>3, <1>4, <1>5, <1>7, <1>8, TotalTail, Zenon

LEMMA UnderWayNone ==
    ASSUME NEW fr \in Seq(Frames), NEW ids, NEW t,
           \A n \in 1..Len(fr) : ~(fr[n].type = t /\ fr[n].id \in ids)
    PROVE  UnderWay(fr, ids, t) = 0
<1>1. PICK w : w = Weights(fr, ids, t)
  BY Zenon
<1>2. w \in Seq(Nat) /\ Len(w) = Len(fr) /\ UnderWay(fr, ids, t) = Total(w)
  BY <1>1, WeightsSeq, Zenon
<1>3. \A n \in 1..Len(w) : w[n] = 0
  BY <1>1, <1>2, Zenon DEF Weights, Weight
<1> QED BY <1>2, <1>3, TotalZero, Zenon
-------------------------------------------------------------------------------
\* Put changes one place of a table, and EXCEPT one place of a row.
Sets(V, f, e, i, v, g) ==
    /\ g \in [Ends -> [Ids -> V]]
    /\ g[e][i] = v
    /\ \A d \in Ends, j \in Ids : d # e \/ j # i => g[d][j] = f[d][j]

LEMMA PutIs ==
    ASSUME NEW V, NEW f \in [Ends -> [Ids -> V]], NEW e \in Ends, NEW i \in Ids, NEW v \in V,
           NEW g, g = Put(f, e, i, v)
    PROVE  Sets(V, f, e, i, v, g)
<1>1. [f[e] EXCEPT ![i] = v] \in [Ids -> V]
  BY Zenon
<1> QED BY <1>1, ZenonT(60) DEF Put, Sets

Turns(V, f, e, v, g) ==
    g \in [Ends -> V] /\ g[e] = v /\ \A d \in Ends : d # e => g[d] = f[d]

LEMMA TurnIs ==
    ASSUME NEW V, NEW f \in [Ends -> V], NEW e \in Ends, NEW v \in V,
           NEW g, g = [f EXCEPT ![e] = v]
    PROVE  Turns(V, f, e, v, g)
BY Zenon DEF Turns

LEMMA PeerIs == ASSUME NEW e \in Ends
                PROVE  Peer(e) \in Ends /\ Peer(e) # e /\ Peer(Peer(e)) = e /\ \A d \in Ends : d = e \/ d = Peer(e)
BY DEF Ends, Peer

\* Every id belongs to one side, and so does the next but one.
LEMMA Parity ==
    ASSUME NEW e \in Ends, NEW i \in Nat
    PROVE  /\ belongs_to_peer(i, Peer(e)) <=> ~belongs_to_peer(i, e)
           /\ belongs_to_peer(i + 2, e) <=> belongs_to_peer(i, e)
BY DEF Ends, Peer, belongs_to_peer

LEMMA AppendIs ==
    ASSUME NEW S, NEW s \in Seq(S), NEW x \in S
    PROVE  /\ Append(s, x) \in Seq(S) /\ Append(s, x) # <<>>
           /\ \A n \in 1..Len(Append(s, x)) :
                  \/ n \in 1..Len(s) /\ Append(s, x)[n] = s[n]
                  \/ n = Len(s) + 1 /\ Append(s, x)[n] = x
OBVIOUS

LEMMA TailIs ==
    ASSUME NEW S, NEW s \in Seq(S), s # <<>>
    PROVE  /\ Tail(s) \in Seq(S) /\ Head(s) \in S /\ Len(s) \in Nat /\ 1 \in 1..Len(s) /\ Head(s) = s[1]
           /\ \A n \in 1..Len(Tail(s)) : n + 1 \in 1..Len(s) /\ Tail(s)[n] = s[n + 1]
OBVIOUS

LEMMA LastOne == ASSUME NEW S, NEW s \in Seq(S), Len(s) = 1 PROVE Tail(s) = <<>>
<1>1. Tail(s) \in Seq(S) /\ Len(Tail(s)) = 0
  OBVIOUS
<1>2. \A q \in Seq(S) : Len(q) = 0 => q = <<>>
  OBVIOUS
<1> QED BY <1>1, <1>2, Zenon

LEMMA TwoAppends ==
    ASSUME NEW s \in Seq(Frames), NEW x \in Frames, NEW y \in Frames
    PROVE  s \o <<x, y>> = Append(Append(s, x), y)
<1>1. PICK S : S = Frames
  BY Zenon
<1>2. s \in Seq(S) /\ x \in S /\ y \in S
  BY <1>1, Zenon
<1> QED BY <1>2
-------------------------------------------------------------------------------
\* The books of one stream.  c is the sender's credit; q bytes are queued, d under way,
\* w under way back as credit and o owed; the receiver's window is R and its buffer holds
\* B; s bytes were sent and t taken.  The receiver's window covers all that is out, and
\* exactly as long as the books are whole.
Ledger(c, q, d, w, o, R, B, s, t, whole) ==
    /\ c \in Nat /\ q \in Nat /\ d \in Nat /\ w \in Nat /\ o \in Nat
    /\ R \in Nat /\ B \in Nat /\ s \in Nat /\ t \in Nat
    /\ R + B = InitialWindow
    /\ c + q + d + w + o <= R
    /\ whole => c + q + d + w + o = R /\ s = t + B + q + d

\* What a call may do to the books of a stream: send, pop, read, announce, lose.
LEMMA LedgerSteps ==
    ASSUME NEW c, NEW q, NEW d, NEW w, NEW o, NEW R, NEW B, NEW s, NEW t, NEW whole,
           Ledger(c, q, d, w, o, R, B, s, t, whole)
    PROVE  /\ \A n \in Nat : n <= c => Ledger(c - n, q + n, d, w, o, R, B, s + n, t, whole)
           /\ \A n, m \in Nat : q = n + m => Ledger(c, m, d + n, w, o, R, B, s, t, whole)
           /\ Ledger(c, q, d, w, o + B, R + B, 0, s, t + B, whole)
           /\ Ledger(c, q, d, w + o, 0, R, B, s, t, whole)
           /\ Ledger(c, q, d, w, o, R, B, s, t, FALSE)
           /\ c <= InitialWindow /\ R <= InitialWindow /\ B <= InitialWindow
BY MuxAssumption DEF Ledger

\* A DATA frame of n bytes arrives, ...
LEMMA LedgerReceive ==
    ASSUME NEW c, NEW q, NEW n \in Nat, NEW m \in Nat, NEW w, NEW o, NEW R, NEW B, NEW s, NEW t, NEW whole,
           Ledger(c, q, n + m, w, o, R, B, s, t, whole)
    PROVE  /\ n <= R
           /\ Ledger(c, q, m, w, o, R - n, B + n, s, t, whole)
           /\ ~whole => Ledger(c, q, m, w, o, R, B, s, t, whole)
BY MuxAssumption DEF Ledger

\* ... and so does a WINDOW frame of n bytes.
LEMMA LedgerGrant ==
    ASSUME NEW c, NEW q, NEW d, NEW n \in Nat, NEW m \in Nat, NEW o, NEW R, NEW B, NEW s, NEW t, NEW whole,
           Ledger(c, q, d, n + m, o, R, B, s, t, whole)
    PROVE  c + n <= InitialWindow /\ Ledger(c + n, q, d, m, o, R, B, s, t, whole)
BY MuxAssumption DEF Ledger

\* The books of a session: credit a, bytes queued Q and under way D; the receiver's window
\* is R and its buffers hold B.
Account(a, Q, D, R, B) ==
    /\ a \in Nat /\ Q \in Nat /\ D \in Nat /\ R \in Nat /\ B \in Nat
    /\ a <= InitialWindow /\ R + B = InitialWindow /\ a + Q + D <= R

\* The same for the books of a session.
LEMMA AccountSteps ==
    ASSUME NEW a, NEW Q, NEW D, NEW R, NEW B, Account(a, Q, D, R, B)
    PROVE  /\ \A n \in Nat : n <= a => Account(a - n, Q + n, D, R, B)
           /\ \A n, m \in Nat : Q = n + m => Account(a, m, D + n, R, B)
           /\ \A n, m \in Nat : B = n + m => Account(a, Q, D, R + n, m) /\ R + n <= InitialWindow
           /\ R <= InitialWindow
BY MuxAssumption DEF Account

LEMMA AccountReceive ==
    ASSUME NEW a, NEW Q, NEW n \in Nat, NEW m \in Nat, NEW R, NEW B, Account(a, Q, n + m, R, B)
    PROVE  n <= R /\ Account(a, Q, m, R - n, B + n) /\ Account(a, Q, m, R, B)
BY MuxAssumption DEF Account
-------------------------------------------------------------------------------
Known(e, i) == phase[e][i] # "kNone"
DataOf(f, i) == f.type = "DATA" /\ f.id = i

MuxTyped ==
    /\ next_id \in [Ends -> 1..MaxId + 2]
    /\ phase \in [Ends -> [Ids -> Phases]]
    /\ priority \in [Ends -> [Ids -> 0..4]]
    /\ outbound \in [Ends -> [Ids -> Seq(0..InitialWindow)]]
    /\ inbound \in [Ends -> [Ids -> Nat]]
    /\ inbound_fin \in [Ends -> [Ids -> BOOLEAN]]
    /\ send_credit \in [Ends -> [Ids -> Nat]]
    /\ recv_window \in [Ends -> [Ids -> Nat]]
    /\ sess_send \in [Ends -> Nat] /\ sess_recv \in [Ends -> Nat]
    /\ net \in [Ends -> Seq(Frames)]
    /\ owed \in [Ends -> [Ids -> Nat]]
    /\ sent \in [Ends -> [Ids -> Nat]] /\ taken \in [Ends -> [Ids -> Nat]]
    /\ told \in [Ends -> SUBSET Ids] /\ was_reset \in [Ends -> SUBSET Ids]
    /\ fin_asked \in [Ends -> SUBSET Ids]

\* A side knows a stream of its own only after it took the id, and one of its peer's only
\* after the peer opened it.
KnownAt(e) ==
    /\ ~belongs_to_peer(next_id[e], e)
    /\ \A i \in Ids :
           Known(e, i) => IF belongs_to_peer(i, e) THEN Known(Peer(e), i) ELSE i < next_id[e]

\* What a side keeps or has sent is of streams it knows.
BackedAt(e) ==
    /\ \A i \in Ids :
           outbound[e][i] # <<>> \/ inbound[e][i] > 0 \/ owed[e][i] > 0 => Known(e, i)
    /\ \A n \in 1..Len(net[Peer(e)]) :
           net[Peer(e)][n].id # 0 =>
               net[Peer(e)][n].id \in Ids /\ Known(e, net[Peer(e)][n].id)

ResetAt(e) ==
    /\ told[e] \subseteq was_reset[e]
    /\ \A i \in was_reset[e] : phase[e][i] = "kClosed"

\* The sender will put nothing more of the stream on the wire.
Finished(e, i) ==
    i \in fin_asked[e] /\ outbound[e][i] = <<>> /\ Known(e, i) /\ ~can_send(phase[e][i])

\* A FIN is the last DATA frame of its stream, on the wire and when it has arrived.
LastData(e, i) ==
    \A n \in 1..Len(net[Peer(e)]) :
        DataOf(net[Peer(e)][n], i) /\ net[Peer(e)][n].fin =>
            /\ Finished(e, i)
            /\ \A m \in n + 1..Len(net[Peer(e)]) : ~DataOf(net[Peer(e)][m], i)
FinAt(e, i) ==
    /\ phase[e][i] = "kHalfClosedLocal" => i \in fin_asked[e]
    /\ phase[e][i] \in {"kHalfClosedRemote", "kClosed"} =>
           inbound_fin[e][i] \/ i \in was_reset[e]
    /\ inbound_fin[Peer(e)][i] =>
           /\ Finished(e, i) /\ taken[Peer(e)][i] + inbound[Peer(e)][i] = sent[e][i]
           /\ \A n \in 1..Len(net[Peer(e)]) : ~DataOf(net[Peer(e)][n], i)
    /\ LastData(e, i)

\* The books of the stream i from e to its peer, and of the session in that direction.
FlowAt(e, i) ==
    Ledger(send_credit[e][i], Total(outbound[e][i]),
           UnderWay(net[Peer(e)], {i}, "DATA"), UnderWay(net[e], {i}, "WINDOW"),
           owed[Peer(e)][i], recv_window[Peer(e)][i], inbound[Peer(e)][i],
           sent[e][i], taken[Peer(e)][i], i \notin was_reset[Peer(e)])

Queues(out) == [i \in Ids |-> Total(out[i])]
AccountAt(e) ==
    Account(sess_send[e], Total(Queues(outbound[e])), UnderWay(net[Peer(e)], Ids, "DATA"),
            sess_recv[Peer(e)], Total(inbound[Peer(e)]))

\* The inductive invariant of StreamMux.
MuxInv ==
    /\ MuxTyped
    /\ \A e \in Ends : KnownAt(e) /\ BackedAt(e) /\ ResetAt(e) /\ AccountAt(e)
    /\ \A e \in Ends, i \in Ids : FinAt(e, i) /\ FlowAt(e, i)

\* Initially nothing is known, queued or under way, and every window is the initial one.
LEMMA InitMux == Init => MuxInv
<1> SUFFICES ASSUME Init PROVE MuxInv
  OBVIOUS
<1>p. \A e \in Ends : Peer(e) \in Ends
  BY PeerIs, Zenon
<1>1. /\ \A e \in Ends : /\ next_id[e] = first_id(e) /\ sess_send[e] = InitialWindow
                         /\ sess_recv[e] = InitialWindow /\ net[e] = <<>>
                         /\ told[e] = {} /\ was_reset[e] = {} /\ fin_asked[e] = {}
      /\ \A e \in Ends : outbound[e] = [i \in Ids |-> <<>>] /\ inbound[e] = [i \in Ids |-> 0]
      /\ \A e \in Ends, i \in Ids :
             /\ phase[e][i] = "kNone" /\ outbound[e][i] = <<>> /\ inbound[e][i] = 0
             /\ inbound_fin[e][i] = FALSE /\ send_credit[e][i] = InitialWindow
             /\ recv_window[e][i] = InitialWindow /\ owed[e][i] = 0
             /\ sent[e][i] = 0 /\ taken[e][i] = 0
  BY ZenonT(60) DEF Init, PerStream
<1>2. MuxTyped
  <2>1. /\ "kNone" \in Phases /\ kNormal \in 0..4 /\ <<>> \in Seq(0..InitialWindow) /\ 0 \in Nat
        /\ <<>> \in Seq(Frames) /\ InitialWindow \in Nat
    BY MuxAssumption DEF Phases, kNormal
  <2>2. \A e \in Ends : first_id(e) \in 1..MaxId + 2
    BY MuxAssumption DEF Ends, first_id
  <2> QED BY <2>1, <2>2, ZenonT(60) DEF MuxTyped, Init, PerStream
<1>3. ASSUME NEW e \in Ends PROVE KnownAt(e) /\ BackedAt(e) /\ ResetAt(e)
  <2>1. ~belongs_to_peer(first_id(e), e)
    BY DEF Ends, first_id, belongs_to_peer
  <2>2. KnownAt(e)
    BY <1>1, <1>3, <2>1, ZenonT(60) DEF KnownAt, Known
  <2>3. 1..Len(net[Peer(e)]) = {} /\ ~(0 > 0)
    BY <1>1, <1>3, <1>p
  <2> QED BY <1>1, <1>3, <1>p, <2>2, <2>3, ZenonT(60) DEF BackedAt, ResetAt
<1>4. ASSUME NEW e \in Ends, NEW i \in Ids PROVE FinAt(e, i)
  <2>1. 1..Len(net[Peer(e)]) = {}
    BY <1>1, <1>4, <1>p
  <2> QED BY <1>1, <1>4, <1>p, <2>1, ZenonT(60) DEF FinAt, LastData
<1>5. ASSUME NEW ids, NEW t PROVE UnderWay(<<>>, ids, t) = 0
  <2>1. <<>> \in Seq(Frames) /\ 1..Len(<<>>) = {}
    OBVIOUS
  <2> QED BY <2>1, UnderWayNone, ZenonT(60)
<1>6. ASSUME NEW e \in Ends, NEW i \in Ids PROVE FlowAt(e, i)
  <2>1. Ledger(InitialWindow, 0, 0, 0, 0, InitialWindow, 0, 0, 0, TRUE)
    BY MuxAssumption DEF Ledger
  <2>2. (i \notin was_reset[Peer(e)]) = TRUE
    BY <1>1, <1>6, <1>p, ZenonT(60)
  <2>3. /\ send_credit[e][i] = InitialWindow /\ Total(outbound[e][i]) = 0
        /\ UnderWay(net[Peer(e)], {i}, "DATA") = 0 /\ UnderWay(net[e], {i}, "WINDOW") = 0
        /\ owed[Peer(e)][i] = 0 /\ recv_window[Peer(e)][i] = InitialWindow
        /\ inbound[Peer(e)][i] = 0 /\ sent[e][i] = 0 /\ taken[Peer(e)][i] = 0
    <3>1. net[Peer(e)] = <<>> /\ net[e] = <<>> /\ outbound[e][i] = <<>> /\ Peer(e) \in Ends
      BY <1>1, <1>6, <1>p, ZenonT(60)
    <3>2. UnderWay(<<>>, {i}, "DATA") = 0 /\ UnderWay(<<>>, {i}, "WINDOW") = 0
      BY <1>5, ZenonT(60)
    <3>3. /\ Total(outbound[e][i]) = 0
          /\ UnderWay(net[Peer(e)], {i}, "DATA") = 0 /\ UnderWay(net[e], {i}, "WINDOW") = 0
      BY <3>1, <3>2, TotalEmpty, ZenonT(60)
    <3> QED BY <1>1, <1>6, <3>1, <3>3, ZenonT(60)
  <2> QED BY <2>1, <2>2, <2>3, Zenon DEF FlowAt
<1>7. ASSUME NEW e \in Ends PROVE AccountAt(e)
  <2>1. Account(InitialWindow, 0, 0, InitialWindow, 0)
    BY MuxAssumption DEF Account
  <2>2. Queues(outbound[e]) = [i \in Ids |-> 0] /\ inbound[Peer(e)] = [i \in Ids |-> 0]
    BY <1>1, <1>7, <1>p, TotalEmpty, ZenonT(60) DEF Queues
  <2>3. Total([i \in Ids |-> 0]) = 0
    <3>1. [i \in Ids |-> 0] \in Seq(Nat) /\ \A k \in 1..Len([i \in Ids |-> 0]) : [i \in Ids |-> 0][k] = 0
      BY MuxAssumption DEF Ids
    <3> QED BY <3>1, TotalZero, ZenonT(60)
  <2>4. /\ sess_send[e] = InitialWindow /\ Total(Queues(outbound[e])) = 0
        /\ UnderWay(net[Peer(e)], Ids, "DATA") = 0
        /\ sess_recv[Peer(e)] = InitialWindow /\ Total(inbound[Peer(e)]) = 0
    <3>1. net[Peer(e)] = <<>> /\ Peer(e) \in Ends
      BY <1>1, <1>7, <1>p, ZenonT(60)
    <3>2. UnderWay(net[Peer(e)], Ids, "DATA") = 0
      BY <1>5, <3>1, ZenonT(60)
    <3>3. Total(Queues(outbound[e])) = 0 /\ Total(inbound[Peer(e)]) = 0
      BY <2>2, <2>3, ZenonT(60)
    <3> QED BY <1>1, <1>7, <3>1, <3>2, <3>3, ZenonT(60)
  <2> QED BY <2>1, <2>4 DEF AccountAt
<1> QED BY <1>2, <1>3, <1>4, <1>6, <1>7, ZenonT(60) DEF MuxInv

\* Which streams are known stays right as long as nobody opens one.
LEMMA KnownKept ==
    ASSUME \A e \in Ends : KnownAt(e), next_id' = next_id,
           \A e \in Ends, i \in Ids : Known(e, i)' <=> Known(e, i)
    PROVE  \A e \in Ends : KnownAt(e)'
<1>1. \A e \in Ends : Peer(e) \in Ends
  BY PeerIs, Zenon
<1> QED BY <1>1, ZenonT(60) DEF KnownAt

\* Books nobody writes to stay right, and may only cease to be whole.
LEMMA FlowKept ==
    ASSUME NEW e \in Ends, NEW i \in Ids, FlowAt(e, i),
           send_credit'[e][i] = send_credit[e][i], Total(outbound'[e][i]) = Total(outbound[e][i]),
           UnderWay(net'[Peer(e)], {i}, "DATA") = UnderWay(net[Peer(e)], {i}, "DATA"),
           UnderWay(net'[e], {i}, "WINDOW") = UnderWay(net[e], {i}, "WINDOW"),
           owed'[Peer(e)][i] = owed[Peer(e)][i],
           recv_window'[Peer(e)][i] = recv_window[Peer(e)][i],
           inbound'[Peer(e)][i] = inbound[Peer(e)][i],
           sent'[e][i] = sent[e][i], taken'[Peer(e)][i] = taken[Peer(e)][i],
           i \in was_reset[Peer(e)] => i \in was_reset'[Peer(e)]
    PROVE  FlowAt(e, i)'
<1>1. CASE (i \notin was_reset'[Peer(e)]) = (i \notin was_reset[Peer(e)])
  BY <1>1, ZenonT(60) DEF FlowAt
<1>2. CASE (i \notin was_reset'[Peer(e)]) = FALSE
  <2>1. Ledger(send_credit[e][i], Total(outbound[e][i]),
               UnderWay(net[Peer(e)], {i}, "DATA"), UnderWay(net[e], {i}, "WINDOW"),
               owed[Peer(e)][i], recv_window[Peer(e)][i], inbound[Peer(e)][i],
               sent[e][i], taken[Peer(e)][i], FALSE)
    BY LedgerSteps, ZenonT(60) DEF FlowAt
  <2> QED BY <1>2, <2>1, ZenonT(60) DEF FlowAt
<1> QED BY <1>1, <1>2, ZenonT(60)

LEMMA AccountKept ==
    ASSUME NEW e \in Ends, AccountAt(e), sess_send'[e] = sess_send[e],
           Total(Queues(outbound'[e])) = Total(Queues(outbound[e])),
           UnderWay(net'[Peer(e)], Ids, "DATA") = UnderWay(net[Peer(e)], Ids, "DATA"),
           sess_recv'[Peer(e)] = sess_recv[Peer(e)],
           Total(inbound'[Peer(e)]) = Total(inbound[Peer(e)])
    PROVE  AccountAt(e)'
BY ZenonT(60) DEF AccountAt

\* All books are kept by what touches no window, queue, buffer or wire.
LEMMA BooksKept ==
    ASSUME MuxInv, UNCHANGED <<send_credit, outbound, net, owed, recv_window, inbound, sent, taken>>,
           UNCHANGED <<sess_send, sess_recv>>,
           \A d \in Ends : was_reset[d] \subseteq was_reset'[d]
    PROVE  /\ \A e \in Ends : AccountAt(e)'
           /\ \A e \in Ends, i \in Ids : FlowAt(e, i)'
<1>1. \A e \in Ends : Peer(e) \in Ends
  BY PeerIs, Zenon
<1>2. ASSUME NEW e \in Ends PROVE AccountAt(e)'
  <2>1. AccountAt(e)
    BY ZenonT(60) DEF MuxInv
  <2> QED BY <2>1, AccountKept, ZenonT(60)
<1>3. ASSUME NEW e \in Ends, NEW i \in Ids PROVE FlowAt(e, i)'
  <2>1. FlowAt(e, i)
    BY ZenonT(60) DEF MuxInv
  <2>2. i \in was_reset[Peer(e)] => i \in was_reset'[Peer(e)]
    BY <1>1, ZenonT(60)
  <2> QED BY <2>1, <2>2, FlowKept, ZenonT(60)
<1> QED BY <1>2, <1>3, ZenonT(60)

\* open_stream takes an id nobody knows.
LEMMA OpenMux ==
    ASSUME MuxInv, NEW e \in Ends, NEW band \in Bands, open_stream(e, band) PROVE MuxInv'
<1> DEFINE i == next_id[e]
<1>p. \A d \in Ends : Peer(d) \in Ends /\ Peer(d) # d /\ Peer(Peer(d)) = d
  BY PeerIs, Zenon
<1>1. i \in Ids /\ i \in Nat /\ i + 2 \in 1..MaxId + 2
  <2>1. next_id[e] \in 1..MaxId + 2 /\ next_id[e] <= MaxId
    BY Zenon DEF MuxInv, MuxTyped, open_stream
  <2> QED BY <2>1, MuxAssumption DEF Ids
<1>2. ~belongs_to_peer(i, e) /\ ~(i < i)
  <2>1. KnownAt(e)
    BY Zenon DEF MuxInv
  <2> QED BY <1>1, <2>1 DEF KnownAt
<1>3. ~Known(e, i)
  <2>1. KnownAt(e)
    BY Zenon DEF MuxInv
  <2> QED BY <1>1, <1>2, <2>1, Zenon DEF KnownAt
<1>4. Sets(Phases, phase, e, i, "kOpen", phase')
  <2>1. phase' = Put(phase, e, i, "kOpen")
    BY <1>3, Zenon DEF open_stream, find_or_create, Known
  <2>2. phase \in [Ends -> [Ids -> Phases]] /\ "kOpen" \in Phases
    BY Zenon DEF MuxInv, MuxTyped, Phases
  <2> QED BY <1>1, <2>1, <2>2, PutIs, Zenon
<1>5. priority' \in [Ends -> [Ids -> 0..4]]
  <2>1. priority' = Put(priority, e, i, band) /\ priority \in [Ends -> [Ids -> 0..4]] /\ band \in 0..4
    BY MuxAssumption, Zenon DEF MuxInv, MuxTyped, open_stream
  <2>2. Sets(0..4, priority, e, i, band, priority')
    BY <1>1, <2>1, PutIs, Zenon
  <2> QED BY <2>2, Zenon DEF Sets
<1>6. /\ next_id' \in [Ends -> 1..MaxId + 2] /\ next_id'[e] = i + 2
      /\ \A d \in Ends : d # e => next_id'[d] = next_id[d]
  <2>1. next_id \in [Ends -> 1..MaxId + 2] /\ next_id' = [next_id EXCEPT ![e] = i + 2]
    BY Zenon DEF MuxInv, MuxTyped, open_stream, id_after
  <2> QED BY <1>1, <2>1, Zenon
<1>u. /\ UNCHANGED <<send_credit, outbound, net, owed, recv_window, inbound, sent, taken>>
      /\ UNCHANGED <<sess_send, sess_recv>>
      /\ UNCHANGED <<was_reset, told, fin_asked, inbound_fin>>
  BY ZenonT(60) DEF open_stream, flow, hist
<1>a. /\ phase' \in [Ends -> [Ids -> Phases]] /\ phase'[e][i] = "kOpen"
      /\ \A d \in Ends, j \in Ids : d # e \/ j # i => phase'[d][j] = phase[d][j]
  BY <1>4, Zenon DEF Sets
<1>7. MuxTyped'
  BY <1>a, <1>5, <1>6, <1>u, ZenonT(60) DEF MuxInv, MuxTyped
<1>m. \A d \in Ends, j \in Ids : Known(d, j) => Known(d, j)'
  BY <1>a, ZenonT(60) DEF Known
<1>8. ASSUME NEW d \in Ends PROVE KnownAt(d)'
  <2>0. KnownAt(d) /\ KnownAt(e)
    BY <1>8, Zenon DEF MuxInv
  <2>1. ~belongs_to_peer(next_id'[d], d)
    <3>1. ~belongs_to_peer(i + 2, e)
      BY <1>1, <1>2, Parity, Zenon
    <3> QED BY <1>6, <1>8, <2>0, <3>1, Zenon DEF KnownAt
  <2>2. ASSUME NEW j \in Ids, Known(d, j)'
        PROVE  IF belongs_to_peer(j, d) THEN Known(Peer(d), j)' ELSE j < next_id'[d]
    <3>1. CASE d = e /\ j = i
      <4>1. i < i + 2
        BY <1>1
      <4> QED BY <1>2, <1>6, <3>1, <4>1, Zenon
    <3>2. CASE ~(d = e /\ j = i)
      <4>1. Known(d, j)
        BY <1>a, <2>2, <3>2, Zenon DEF Known
      <4>2. CASE belongs_to_peer(j, d)
        BY <1>m, <1>p, <2>0, <4>1, <4>2, Zenon DEF KnownAt
      <4>3. CASE ~belongs_to_peer(j, d)
        <5>1. j < next_id[d]
          BY <2>0, <4>1, <4>3, Zenon DEF KnownAt
        <5>2. j < i => j < i + 2
          BY <1>1 DEF Ids
        <5> QED BY <1>6, <4>3, <5>1, <5>2, Zenon
      <4> QED BY <4>2, <4>3, Zenon
    <3> QED BY <3>1, <3>2, Zenon
  <2> QED BY <2>1, <2>2, Zenon DEF KnownAt
<1>9. ASSUME NEW d \in Ends PROVE BackedAt(d)' /\ ResetAt(d)'
  <2>0. BackedAt(d) /\ ResetAt(d) /\ was_reset[d] \subseteq Ids
    BY <1>9, Zenon DEF MuxInv, MuxTyped
  <2>1. BackedAt(d)'
    BY <1>9, <1>m, <1>u, <2>0, ZenonT(60) DEF BackedAt
  <2>2. \A j \in was_reset[d] : ~(d = e /\ j = i)
    BY <1>3, <2>0, Zenon DEF ResetAt, Known
  <2> QED BY <1>a, <1>9, <1>u, <2>0, <2>1, <2>2, ZenonT(60) DEF ResetAt
<1>10. ASSUME NEW d \in Ends, NEW j \in Ids PROVE FinAt(d, j)'
  <2>0. FinAt(d, j)
    BY <1>10, Zenon DEF MuxInv
  <2>1. CASE d = e /\ j = i
    <3>1. ~Finished(d, j) /\ phase'[d][j] = "kOpen"
      BY <1>3, <1>a, <2>1, Zenon DEF Finished
    <3>2. ~inbound_fin'[Peer(d)][j] /\ LastData(d, j)'
      BY <1>u, <2>0, <3>1, ZenonT(60) DEF FinAt, LastData
    <3> QED BY <3>1, <3>2, ZenonT(60) DEF FinAt
  <2>2. CASE ~(d = e /\ j = i)
    <3>1. phase'[d][j] = phase[d][j]
      BY <1>a, <1>10, <2>2, Zenon
    <3>2. Finished(d, j)' <=> Finished(d, j)
      BY <1>u, <3>1, Zenon DEF Finished, Known
    <3> QED BY <1>u, <2>0, <3>1, <3>2, ZenonT(60) DEF FinAt, LastData
  <2> QED BY <2>1, <2>2, Zenon
<1>11. /\ \A d \in Ends : AccountAt(d)'
       /\ \A d \in Ends, j \in Ids : FlowAt(d, j)'
  BY <1>u, BooksKept, ZenonT(60)
<1> QED BY <1>7, <1>8, <1>9, <1>10, <1>11, ZenonT(60) DEF MuxInv

\* What a frame put on the wire does to it.
Wired(old, f, new) ==
    /\ new \in Seq(Frames)
    /\ \A n \in 1..Len(new) :
           \/ n \in 1..Len(old) /\ new[n] = old[n]
           \/ n = Len(old) + 1 /\ new[n] = f
    /\ \A ids, t : /\ f.type = t /\ f.id \in ids => UnderWay(new, ids, t) = UnderWay(old, ids, t) + f.len
                   /\ ~(f.type = t /\ f.id \in ids) => UnderWay(new, ids, t) = UnderWay(old, ids, t)

LEMMA FrameSent ==
    ASSUME NEW old \in Seq(Frames), NEW f \in Frames, NEW new, new = Append(old, f)
    PROVE  Wired(old, f, new)
<1>1. /\ Append(old, f) \in Seq(Frames)
      /\ \A n \in 1..Len(Append(old, f)) :
             \/ n \in 1..Len(old) /\ Append(old, f)[n] = old[n]
             \/ n = Len(old) + 1 /\ Append(old, f)[n] = f
  BY AppendIs
<1>2. ASSUME NEW ids, NEW t
      PROVE  /\ f.type = t /\ f.id \in ids => UnderWay(Append(old, f), ids, t) = UnderWay(old, ids, t) + f.len
             /\ ~(f.type = t /\ f.id \in ids) => UnderWay(Append(old, f), ids, t) = UnderWay(old, ids, t)
  <2>1. UnderWay(Append(old, f), ids, t) = UnderWay(old, ids, t) + Weight(f, ids, t)
    BY UnderWayAppend, Zenon
  <2>2. PICK u \in Nat : u = UnderWay(old, ids, t)
    BY UnderWayNat, Zenon
  <2>3. u + 0 = u
    OBVIOUS
  <2> QED BY <2>1, <2>2, <2>3, Zenon DEF Weight
<1>3. Wired(old, f, Append(old, f))
  BY <1>1, <1>2, Zenon DEF Wired
<1> QED BY <1>3, Zenon

LEMMA RowIsSeq ==
    ASSUME NEW n \in Nat, NEW a \in [1..n -> Nat] PROVE a \in Seq(Nat) /\ Len(a) = n
<1>1. a = [k \in 1..n |-> a[k]] /\ \A k \in 1..n : a[k] \in Nat
  BY Zenon
<1>2. [k \in 1..n |-> a[k]] \in Seq(Nat) /\ Len([k \in 1..n |-> a[k]]) = n
  BY <1>1
<1> QED BY <1>1, <1>2, Zenon

\* What happens to one queue or buffer happens to their sum.
LEMMA BufferUpdate ==
    ASSUME NEW a \in [Ids -> Nat], NEW b \in [Ids -> Nat], NEW i \in Ids,
           \A j \in Ids : j # i => b[j] = a[j]
    PROVE  Total(b) + a[i] = Total(a) + b[i] /\ Total(a) \in Nat /\ Total(b) \in Nat
<1>1. a \in Seq(Nat) /\ b \in Seq(Nat) /\ Len(a) = MaxId /\ Len(b) = MaxId /\ 1..MaxId = Ids
  BY MuxAssumption, RowIsSeq, Zenon DEF Ids
<1> QED BY <1>1, TotalUpdate, TotalNat, Zenon

LEMMA ChunksNat == ASSUME NEW s \in Seq(0..InitialWindow) PROVE s \in Seq(Nat) /\ Total(s) \in Nat
<1>1. s \in Seq(Nat)
  BY MuxAssumption
<1> QED BY <1>1, TotalNat, Zenon

LEMMA QueueUpdate ==
    ASSUME NEW a \in [Ids -> Seq(0..InitialWindow)], NEW b \in [Ids -> Seq(0..InitialWindow)],
           NEW i \in Ids, \A j \in Ids : j # i => b[j] = a[j]
    PROVE  /\ Total(Queues(b)) + Total(a[i]) = Total(Queues(a)) + Total(b[i])
           /\ Total(Queues(a)) \in Nat /\ Total(Queues(b)) \in Nat
           /\ Total(a[i]) \in Nat /\ Total(b[i]) \in Nat
<1>1. \A j \in Ids : Total(a[j]) \in Nat /\ Total(b[j]) \in Nat
  BY ChunksNat, Zenon
<1>2. Queues(a) \in [Ids -> Nat] /\ Queues(b) \in [Ids -> Nat]
  BY <1>1, Zenon DEF Queues
<1>3. \A j \in Ids : Queues(a)[j] = Total(a[j]) /\ Queues(b)[j] = Total(b[j])
  BY Zenon DEF Queues
<1>4. \A j \in Ids : j # i => Queues(b)[j] = Queues(a)[j]
  BY <1>3, Zenon
<1>5. Total(Queues(b)) + Queues(a)[i] = Total(Queues(a)) + Queues(b)[i]
  BY <1>2, <1>4, BufferUpdate, Zenon
<1>6. Total(Queues(a)) \in Nat /\ Total(Queues(b)) \in Nat
  BY <1>2, <1>4, BufferUpdate, Zenon
<1> QED BY <1>1, <1>3, <1>5, <1>6, Zenon

\* reset_stream closes a stream the side knows.
LEMMA ResetMux ==
    ASSUME MuxInv, NEW e \in Ends, NEW i \in Ids, reset_stream(e, i) PROVE MuxInv'
<1>1. phase[e][i] # "kNone" /\ Known(e, i)
  BY Zenon DEF reset_stream, Known
<1>4. Sets(Phases, phase, e, i, "kClosed", phase')
  <2>1. phase' = Put(phase, e, i, "kClosed")
    BY Zenon DEF reset_stream
  <2>2. phase \in [Ends -> [Ids -> Phases]] /\ "kClosed" \in Phases
    BY Zenon DEF MuxInv, MuxTyped, Phases
  <2> QED BY <2>1, <2>2, PutIs, Zenon
<1>5. Turns(SUBSET Ids, was_reset, e, was_reset[e] \cup {i}, was_reset')
  <2>1. was_reset' = [was_reset EXCEPT ![e] = was_reset[e] \cup {i}]
    BY Zenon DEF reset_stream
  <2>2. was_reset \in [Ends -> SUBSET Ids]
    BY Zenon DEF MuxInv, MuxTyped
  <2>3. was_reset[e] \cup {i} \in SUBSET Ids
    BY <2>2, Zenon
  <2> QED BY <2>1, <2>2, <2>3, TurnIs, Zenon
<1>a. /\ phase' \in [Ends -> [Ids -> Phases]] /\ phase'[e][i] = "kClosed"
      /\ \A d \in Ends, j \in Ids : d # e \/ j # i => phase'[d][j] = phase[d][j]
  BY <1>4, Zenon DEF Sets
<1>b. /\ was_reset' \in [Ends -> SUBSET Ids] /\ was_reset'[e] = was_reset[e] \cup {i}
      /\ \A d \in Ends : d # e => was_reset'[d] = was_reset[d]
  BY <1>5, Zenon DEF Turns
<1>u. /\ UNCHANGED <<send_credit, outbound, net, owed, recv_window, inbound, sent, taken>>
      /\ UNCHANGED <<sess_send, sess_recv>>
      /\ UNCHANGED <<next_id, priority, told, fin_asked, inbound_fin>>
  BY ZenonT(60) DEF reset_stream, flow
<1>7. MuxTyped'
  BY <1>a, <1>b, <1>u, ZenonT(60) DEF MuxInv, MuxTyped
<1>m. \A d \in Ends, j \in Ids : Known(d, j)' <=> Known(d, j)
  BY <1>1, <1>a, ZenonT(60) DEF Known
<1>8. \A d \in Ends : KnownAt(d)'
  BY <1>m, <1>u, KnownKept, Zenon DEF MuxInv
<1>9. ASSUME NEW d \in Ends PROVE BackedAt(d)' /\ ResetAt(d)'
  <2>0. BackedAt(d) /\ ResetAt(d) /\ was_reset[d] \subseteq Ids
    BY <1>9, Zenon DEF MuxInv, MuxTyped
  <2>1. BackedAt(d)'
    BY <1>9, <1>m, <1>u, <2>0, ZenonT(60) DEF BackedAt
  <2> QED BY <1>a, <1>b, <1>9, <1>u, <2>0, <2>1, ZenonT(60) DEF ResetAt
<1>10. ASSUME NEW d \in Ends, NEW j \in Ids PROVE FinAt(d, j)'
  <2>0. FinAt(d, j)
    BY <1>10, Zenon DEF MuxInv
  <2>1. Finished(d, j) => Finished(d, j)'
    <3>1. CASE d = e /\ j = i
      BY <1>a, <1>m, <1>u, <3>1, Zenon DEF Finished, can_send
    <3>2. CASE ~(d = e /\ j = i)
      BY <1>a, <1>m, <1>u, <1>10, <3>2, Zenon DEF Finished
    <3> QED BY <3>1, <3>2, Zenon
  <2>2. CASE d = e /\ j = i
    BY <1>a, <1>b, <1>u, <2>0, <2>1, <2>2, ZenonT(60) DEF FinAt, LastData
  <2>3. CASE ~(d = e /\ j = i)
    <3>1. phase'[d][j] = phase[d][j] /\ was_reset[d] \subseteq was_reset'[d]
      BY <1>a, <1>b, <1>10, <2>3, Zenon
    <3> QED BY <1>u, <2>0, <2>1, <3>1, ZenonT(60) DEF FinAt, LastData
  <2> QED BY <2>2, <2>3, Zenon
<1>11. /\ \A d \in Ends : AccountAt(d)'
       /\ \A d \in Ends, j \in Ids : FlowAt(d, j)'
  <2>1. \A d \in Ends : was_reset[d] \subseteq was_reset'[d]
    BY <1>b, Zenon
  <2> QED BY <1>u, <2>1, BooksKept, ZenonT(60)
<1> QED BY <1>7, <1>8, <1>9, <1>10, <1>11, ZenonT(60) DEF MuxInv

\* The queue after send_data holds len more bytes.
Queued(s, len, fin) ==
    LET queued == IF len > 0 THEN Append(s, len) ELSE s
    IN  IF fin /\ queued = <<>> THEN <<0>> ELSE queued

LEMMA QueueGrows ==
    ASSUME NEW s \in Seq(0..InitialWindow), NEW len \in 0..InitialWindow, NEW fin \in BOOLEAN
    PROVE  /\ Queued(s, len, fin) \in Seq(0..InitialWindow)
           /\ Total(Queued(s, len, fin)) = Total(s) + len
<1>a. PICK q : q = IF len > 0 THEN Append(s, len) ELSE s
  BY Zenon
<1>b. PICK z : z = IF fin /\ q = <<>> THEN <<0>> ELSE q
  BY Zenon
<1>c. Queued(s, len, fin) = z
  BY <1>a, <1>b, Zenon DEF Queued
<1> SUFFICES z \in Seq(0..InitialWindow) /\ Total(z) = Total(s) + len
  BY <1>c, Zenon
<1>0. /\ s \in Seq(Nat) /\ Total(s) \in Nat /\ len \in Nat /\ <<>> \in Seq(Nat) /\ 0 \in Nat
      /\ 0 \in 0..InitialWindow /\ <<>> \in Seq(0..InitialWindow)
  BY ChunksNat, MuxAssumption
<1>1. CASE len > 0
  <2>1. q = Append(s, len) /\ q \in Seq(0..InitialWindow) /\ q # <<>>
    BY <1>1, <1>a
  <2>2. z = q
    BY <1>b, <2>1, Zenon
  <2> QED BY <1>0, <2>1, <2>2, TotalAppend, Zenon
<1>2. CASE ~(len > 0) /\ z = q
  <2>1. Total(s) + len = Total(s)
    <3>1. PICK u \in Nat : u = Total(s)
      BY <1>0, Zenon
    <3>2. len = 0 /\ u + 0 = u
      BY <1>0, <1>2
    <3> QED BY <3>1, <3>2, Zenon
  <2> QED BY <1>2, <1>a, <2>1, Zenon
<1>3. CASE ~(len > 0) /\ z = <<0>> /\ q = <<>>
  <2>a. <<0>> = Append(<<>>, 0) /\ 0 + 0 = 0 /\ <<0>> \in Seq(0..InitialWindow)
    BY <1>0
  <2>b. len = 0
    BY <1>0, <1>3
  <2>1. z = Append(<<>>, 0) /\ len = 0 /\ z \in Seq(0..InitialWindow) /\ 0 + 0 = 0
    BY <1>3, <2>a, <2>b, Zenon
  <2>2. Total(z) = 0 /\ Total(s) = 0
    <3>1. Total(z) = Total(<<>>) + 0
      BY <1>0, <2>1, TotalAppend, Zenon
    <3> QED BY <1>3, <1>a, <2>1, <3>1, TotalEmpty, Zenon
  <2> QED BY <2>1, <2>2, Zenon
<1> QED BY <1>1, <1>2, <1>3, <1>a, <1>b, Zenon

\* send_data moves credit of stream and session into the queue.
LEMMA SendMux ==
    ASSUME MuxInv, NEW e \in Ends, NEW i \in Ids, NEW len \in Lens, NEW fin \in BOOLEAN,
           send_data(e, i, len, fin)
    PROVE  MuxInv'
<1> DEFINE p == phase[e][i]
           q == IF fin THEN on_sent_fin(p) ELSE p
           out == outbound'[e][i]
<1>p. \A d \in Ends : Peer(d) \in Ends /\ Peer(d) # d /\ Peer(Peer(d)) = d
  BY PeerIs, Zenon
<1>0. /\ MuxTyped /\ FlowAt(e, i) /\ AccountAt(e) /\ FinAt(e, i)
  BY Zenon DEF MuxInv
<1>1. /\ len \in Nat /\ len <= send_credit[e][i] /\ len <= sess_send[e] /\ len \in 0..InitialWindow
      /\ send_credit[e][i] - len \in Nat /\ sess_send[e] - len \in Nat
  <2>1. len \in Nat
    BY MuxAssumption, Zenon
  <2>2. len <= send_credit[e][i] /\ len <= sess_send[e]
    BY Zenon DEF send_data, has_credit
  <2>3. send_credit[e][i] \in Nat /\ sess_send[e] \in Nat
    <3>1. send_credit \in [Ends -> [Ids -> Nat]] /\ sess_send \in [Ends -> Nat]
      BY <1>0, Zenon DEF MuxTyped
    <3> QED BY <3>1, Zenon
  <2>4. send_credit[e][i] <= InitialWindow
    BY <1>0, LedgerSteps, ZenonT(60) DEF FlowAt
  <2> QED BY <2>1, <2>2, <2>3, <2>4, MuxAssumption
<1>2. p \in {"kOpen", "kHalfClosedRemote"} /\ Known(e, i) /\ can_send(p)
  BY Zenon DEF send_data, can_send, Known
<1>3. /\ q \in Phases /\ q # "kNone" /\ (q = "kHalfClosedLocal" => fin)
      /\ (q \in {"kHalfClosedRemote", "kClosed"} => p = "kHalfClosedRemote")
  BY <1>2, ZenonT(60) DEF on_sent_fin, Phases
<1>4. Sets(Phases, phase, e, i, q, phase')
  <2>0. phase \in [Ends -> [Ids -> Phases]]
    BY <1>0, Zenon DEF MuxTyped
  <2>1. CASE fin
    <3>1. phase' = Put(phase, e, i, q)
      BY <2>1, Zenon DEF send_data
    <3> HIDE DEF p, q
    <3> QED BY <1>3, <2>0, <3>1, PutIs, Zenon
  <2>2. CASE ~fin
    BY <2>0, <2>2, Zenon DEF send_data, Sets
  <2> QED BY <2>1, <2>2, Zenon
<1>5. /\ out \in Seq(0..InitialWindow) /\ Total(out) = Total(outbound[e][i]) + len
      /\ Sets(Seq(0..InitialWindow), outbound, e, i, out, outbound')
  <2>0. outbound \in [Ends -> [Ids -> Seq(0..InitialWindow)]]
    BY <1>0, Zenon DEF MuxTyped
  <2>1. outbound[e][i] \in Seq(0..InitialWindow)
    BY <2>0, Zenon
  <2>2. PICK z : z = Queued(outbound[e][i], len, fin)
    BY Zenon
  <2>3. outbound' = Put(outbound, e, i, z)
    BY <2>2, Zenon DEF send_data, Queued
  <2>4. z \in Seq(0..InitialWindow) /\ Total(z) = Total(outbound[e][i]) + len
    BY <1>1, <2>1, <2>2, QueueGrows, Zenon
  <2>5. Sets(Seq(0..InitialWindow), outbound, e, i, z, outbound')
    BY <2>0, <2>3, <2>4, PutIs, Zenon
  <2>6. z = out
    BY <2>5, Zenon DEF Sets
  <2> QED BY <2>4, <2>5, <2>6, Zenon
<1>6. Sets(Nat, send_credit, e, i, send_credit[e][i] - len, send_credit')
  <2>1. send_credit \in [Ends -> [Ids -> Nat]] /\ send_credit' = Put(send_credit, e, i, send_credit[e][i] - len)
    BY <1>0, Zenon DEF MuxTyped, send_data
  <2> QED BY <1>1, <2>1, PutIs, Zenon
<1>7. Turns(Nat, sess_send, e, sess_send[e] - len, sess_send')
  <2>1. sess_send \in [Ends -> Nat] /\ sess_send' = [sess_send EXCEPT ![e] = sess_send[e] - len]
    BY <1>0, Zenon DEF MuxTyped, send_data
  <2> QED BY <1>1, <2>1, TurnIs, Zenon
<1>8. Sets(Nat, sent, e, i, sent[e][i] + len, sent')
  <2>1. sent \in [Ends -> [Ids -> Nat]] /\ sent' = Put(sent, e, i, sent[e][i] + len)
    BY <1>0, Zenon DEF MuxTyped, send_data
  <2>2. sent[e][i] \in Nat
    BY <2>1, Zenon
  <2>3. sent[e][i] + len \in Nat
    BY <1>1, <2>2
  <2> QED BY <2>1, <2>3, PutIs, Zenon
<1>9. Turns(SUBSET Ids, fin_asked, e, IF fin THEN fin_asked[e] \cup {i} ELSE fin_asked[e], fin_asked')
  <2>1. /\ fin_asked \in [Ends -> SUBSET Ids]
        /\ fin_asked' = [fin_asked EXCEPT ![e] = IF fin THEN fin_asked[e] \cup {i} ELSE fin_asked[e]]
    BY <1>0, Zenon DEF MuxTyped, send_data
  <2>2. (IF fin THEN fin_asked[e] \cup {i} ELSE fin_asked[e]) \in SUBSET Ids
    BY <2>1, Zenon
  <2> QED BY <2>1, <2>2, TurnIs, Zenon
<1>u. UNCHANGED <<next_id, priority, inbound, inbound_fin, recv_window, sess_recv, net, owed, told,
                  taken, was_reset>>
  BY Zenon DEF send_data
<1> HIDE DEF q, out
<1>a. /\ phase'[e][i] = q /\ out = outbound'[e][i]
      /\ \A d \in Ends, j \in Ids :
             d # e \/ j # i => /\ phase'[d][j] = phase[d][j] /\ outbound'[d][j] = outbound[d][j]
                               /\ send_credit'[d][j] = send_credit[d][j] /\ sent'[d][j] = sent[d][j]
                               /\ j \in fin_asked'[d] <=> j \in fin_asked[d]
  <2>1. /\ phase'[e][i] = q /\ out = outbound'[e][i]
        /\ \A d \in Ends, j \in Ids :
               d # e \/ j # i => phase'[d][j] = phase[d][j] /\ outbound'[d][j] = outbound[d][j]
    BY <1>4, <1>5, Zenon DEF Sets
  <2>2. \A d \in Ends, j \in Ids :
            d # e \/ j # i => send_credit'[d][j] = send_credit[d][j] /\ sent'[d][j] = sent[d][j]
    BY <1>6, <1>8, Zenon DEF Sets
  <2>3. \A d \in Ends, j \in Ids : d # e \/ j # i => (j \in fin_asked'[d] <=> j \in fin_asked[d])
    BY <1>9, Zenon DEF Turns
  <2> QED BY <2>1, <2>2, <2>3, ZenonT(60)
<1>10. MuxTyped'
  <2>1. /\ phase' \in [Ends -> [Ids -> Phases]] /\ outbound' \in [Ends -> [Ids -> Seq(0..InitialWindow)]]
        /\ send_credit' \in [Ends -> [Ids -> Nat]] /\ sent' \in [Ends -> [Ids -> Nat]]
    BY <1>4, <1>5, <1>6, <1>8, Zenon DEF Sets
  <2>2. sess_send' \in [Ends -> Nat] /\ fin_asked' \in [Ends -> SUBSET Ids]
    BY <1>7, <1>9, Zenon DEF Turns
  <2> QED BY <1>0, <1>u, <2>1, <2>2, ZenonT(60) DEF MuxTyped
<1>m. \A d \in Ends, j \in Ids : Known(d, j)' <=> Known(d, j)
  BY <1>2, <1>3, <1>a, ZenonT(60) DEF Known
<1>11. \A d \in Ends : KnownAt(d)'
  BY <1>m, <1>u, KnownKept, Zenon DEF MuxInv
<1>12. ASSUME NEW d \in Ends PROVE BackedAt(d)' /\ ResetAt(d)'
  <2>0. BackedAt(d) /\ ResetAt(d) /\ was_reset[d] \subseteq Ids
    BY <1>12, Zenon DEF MuxInv, MuxTyped
  <2>1. \A j \in Ids : outbound'[d][j] # <<>> => Known(d, j)'
    BY <1>2, <1>a, <1>m, <1>12, <2>0, Zenon DEF BackedAt
  <2>2. BackedAt(d)'
    BY <1>12, <1>m, <1>u, <2>0, <2>1, ZenonT(60) DEF BackedAt
  <2>3. \A j \in was_reset[d] : ~(d = e /\ j = i)
    BY <1>2, <2>0, Zenon DEF ResetAt
  <2> QED BY <1>a, <1>12, <1>u, <2>0, <2>2, <2>3, ZenonT(60) DEF ResetAt
<1>13. ASSUME NEW d \in Ends, NEW j \in Ids PROVE FinAt(d, j)'
  <2>0. FinAt(d, j)
    BY <1>13, Zenon DEF MuxInv
  <2>1. CASE d = e /\ j = i
    <3>1. ~Finished(e, i) /\ (fin => i \in fin_asked'[e])
      BY <1>2, <1>9, Zenon DEF Finished, Turns
    <3>2. ~inbound_fin'[Peer(e)][i] /\ LastData(e, i)'
      BY <1>0, <1>u, <3>1, ZenonT(60) DEF FinAt, LastData
    <3>3. phase'[e][i] \in {"kHalfClosedRemote", "kClosed"} => inbound_fin'[e][i] \/ i \in was_reset'[e]
      BY <1>0, <1>3, <1>a, <1>u, Zenon DEF FinAt
    <3> QED BY <1>3, <1>a, <2>1, <3>1, <3>2, <3>3, ZenonT(60) DEF FinAt
  <2>2. CASE ~(d = e /\ j = i)
    <3>1. /\ phase'[d][j] = phase[d][j] /\ sent'[d][j] = sent[d][j]
          /\ j \in fin_asked'[d] <=> j \in fin_asked[d]
      BY <1>a, <1>13, <2>2, Zenon
    <3>2. Finished(d, j)' <=> Finished(d, j)
      BY <1>a, <1>13, <2>2, Zenon DEF Finished, Known
    <3> QED BY <1>u, <2>0, <3>1, <3>2, ZenonT(60) DEF FinAt, LastData
  <2> QED BY <2>1, <2>2, Zenon
<1>14. ASSUME NEW d \in Ends, NEW j \in Ids PROVE FlowAt(d, j)'
  <2>0. FlowAt(d, j)
    BY <1>14, Zenon DEF MuxInv
  <2>1. CASE d = e /\ j = i
    <3>1. Ledger(send_credit[e][i] - len, Total(outbound[e][i]) + len,
                 UnderWay(net[Peer(e)], {i}, "DATA"), UnderWay(net[e], {i}, "WINDOW"),
                 owed[Peer(e)][i], recv_window[Peer(e)][i], inbound[Peer(e)][i],
                 sent[e][i] + len, taken[Peer(e)][i], i \notin was_reset[Peer(e)])
      BY <1>0, <1>1, LedgerSteps, ZenonT(60) DEF FlowAt
    <3>2. /\ send_credit'[e][i] = send_credit[e][i] - len /\ sent'[e][i] = sent[e][i] + len
          /\ Total(outbound'[e][i]) = Total(outbound[e][i]) + len
      BY <1>5, <1>6, <1>8, <1>a, Zenon DEF Sets
    <3> QED BY <1>u, <2>1, <3>1, <3>2, ZenonT(60) DEF FlowAt
  <2>2. CASE ~(d = e /\ j = i)
    BY <1>a, <1>u, <1>14, <2>0, <2>2, FlowKept, ZenonT(60)
  <2> QED BY <2>1, <2>2, Zenon
<1>15. ASSUME NEW d \in Ends PROVE AccountAt(d)'
  <2>0. AccountAt(d)
    BY <1>15, Zenon DEF MuxInv
  <2>1. CASE d = e
    <3>1. Account(sess_send[e] - len, Total(Queues(outbound[e])) + len, UnderWay(net[Peer(e)], Ids, "DATA"),
                  sess_recv[Peer(e)], Total(inbound[Peer(e)]))
      BY <1>0, <1>1, AccountSteps, ZenonT(60) DEF AccountAt
    <3>2. sess_send'[e] = sess_send[e] - len
      BY <1>7, Zenon DEF Turns
    <3>3. Total(Queues(outbound'[e])) = Total(Queues(outbound[e])) + len
      <4>0. /\ outbound[e] \in [Ids -> Seq(0..InitialWindow)] /\ outbound'[e] \in [Ids -> Seq(0..InitialWindow)]
            /\ \A j \in Ids : j # i => outbound'[e][j] = outbound[e][j]
        BY <1>0, <1>a, <1>10, Zenon DEF MuxTyped
      <4>1. /\ Total(Queues(outbound'[e])) + Total(outbound[e][i]) = Total(Queues(outbound[e])) + Total(outbound'[e][i])
            /\ Total(Queues(outbound[e])) \in Nat /\ Total(Queues(outbound'[e])) \in Nat
            /\ Total(outbound[e][i]) \in Nat /\ Total(outbound'[e][i]) \in Nat
        BY <4>0, QueueUpdate, Zenon
      <4>2. Total(outbound'[e][i]) = Total(outbound[e][i]) + len
        BY <1>5, <1>a, Zenon
      <4>3. PICK b, a, x, y \in Nat : /\ b = Total(Queues(outbound'[e])) /\ a = Total(Queues(outbound[e]))
                                      /\ x = Total(outbound[e][i]) /\ y = Total(outbound'[e][i])
        BY <4>1, Zenon
      <4>4. b + x = a + y /\ y = x + len
        BY <4>1, <4>2, <4>3, Zenon
      <4>5. b = a + len
        BY <1>1, <4>4
      <4> QED BY <4>3, <4>5, Zenon
    <3> QED BY <1>u, <2>1, <3>1, <3>2, <3>3, ZenonT(60) DEF AccountAt
  <2>2. CASE d # e
    <3>1. sess_send'[d] = sess_send[d]
      BY <1>7, <1>15, <2>2, Zenon DEF Turns
    <3>2. outbound'[d] = outbound[d]
      <4>1. outbound'[d] \in [Ids -> Seq(0..InitialWindow)] /\ outbound[d] \in [Ids -> Seq(0..InitialWindow)]
        BY <1>0, <1>10, <1>15, Zenon DEF MuxTyped
      <4>2. \A j \in Ids : outbound'[d][j] = outbound[d][j]
        BY <1>a, <1>15, <2>2, Zenon
      <4> QED BY <4>1, <4>2
    <3> QED BY <1>u, <2>0, <3>1, <3>2, AccountKept, ZenonT(60)
  <2> QED BY <2>1, <2>2, Zenon
<1> QED BY <1>10, <1>11, <1>12, <1>13, <1>14, <1>15, ZenonT(60) DEF MuxInv

\* The FINs of a stream stay right when nothing is put on the wire behind them but frames
\* that are not its data.
LEMMA FinSent ==
    ASSUME NEW e \in Ends, NEW i \in Ids, FinAt(e, i), Finished(e, i) => Finished(e, i)',
           net[Peer(e)] \in Seq(Frames), net'[Peer(e)] \in Seq(Frames),
           \A n \in 1..Len(net'[Peer(e)]) :
               \/ n \in 1..Len(net[Peer(e)]) /\ net'[Peer(e)][n] = net[Peer(e)][n]
               \/ ~DataOf(net'[Peer(e)][n], i),
           phase'[e][i] = phase[e][i],
           UNCHANGED <<fin_asked, inbound_fin, was_reset, taken, inbound, sent>>
    PROVE  FinAt(e, i)'
<1>1. LastData(e, i)'
  <2> SUFFICES ASSUME NEW n \in 1..Len(net'[Peer(e)]),
                      DataOf(net'[Peer(e)][n], i), net'[Peer(e)][n].fin
               PROVE  /\ Finished(e, i)'
                      /\ \A m \in n + 1..Len(net'[Peer(e)]) : ~DataOf(net'[Peer(e)][m], i)
    BY Zenon DEF LastData, DataOf
  <2>1. n \in 1..Len(net[Peer(e)]) /\ net'[Peer(e)][n] = net[Peer(e)][n]
    BY Zenon
  <2>2. /\ Finished(e, i)
        /\ \A m \in n + 1..Len(net[Peer(e)]) : ~DataOf(net[Peer(e)][m], i)
    BY <2>1, Zenon DEF FinAt, LastData
  <2>3. ASSUME NEW m \in n + 1..Len(net'[Peer(e)]), DataOf(net'[Peer(e)][m], i) PROVE FALSE
    <3>1. Len(net'[Peer(e)]) \in Nat /\ Len(net[Peer(e)]) \in Nat
      OBVIOUS
    <3>2. m \in 1..Len(net'[Peer(e)])
      BY <3>1
    <3>3. m \in 1..Len(net[Peer(e)]) /\ net'[Peer(e)][m] = net[Peer(e)][m]
      BY <2>3, <3>2, Zenon
    <3>4. m \in n + 1..Len(net[Peer(e)])
      BY <3>1, <3>3
    <3> QED BY <2>2, <2>3, <3>3, <3>4, Zenon
  <2> QED BY <2>2, <2>3, Zenon
<1>2. inbound_fin[Peer(e)][i] => \A n \in 1..Len(net'[Peer(e)]) : ~DataOf(net'[Peer(e)][n], i)
  BY Zenon DEF FinAt
<1> QED BY <1>1, <1>2, ZenonT(60) DEF FinAt

\* pop_outbound moves a chunk from the queue to the wire, with a FIN on the last one.
LEMMA PopMux == ASSUME MuxInv, NEW e \in Ends, pop_outbound(e) PROVE MuxInv'
<1> DEFINE r == Peer(e)
<1>0. MuxTyped /\ r \in Ends /\ Peer(r) = e /\ r # e /\ \A d \in Ends : d = e \/ d = r
  BY PeerIs, Zenon DEF MuxInv
<1> HIDE DEF r
<1>1. PICK i \in Best(e) :
        /\ outbound' = Put(outbound, e, i, Tail(outbound[e][i]))
        /\ net' = [net EXCEPT ![Peer(e)] =
                       Append(@, DataFrame(i, Head(outbound[e][i]), FinFlag(e, i)))]
        /\ UNCHANGED <<next_id, phase, priority, inbound, inbound_fin, flow,
                       owed, told, sent, taken, fin_asked, was_reset, sends>>
  BY Zenon DEF pop_outbound
<1>2. i \in Ids /\ outbound[e][i] # <<>>
  BY Zenon DEF Best, Ready
<1>3. PICK s : s = outbound[e][i]
  BY Zenon
<1>4. s \in Seq(0..InitialWindow) /\ s # <<>>
  <2>1. outbound \in [Ends -> [Ids -> Seq(0..InitialWindow)]]
    BY <1>0, Zenon DEF MuxTyped
  <2> QED BY <1>2, <1>3, <2>1, Zenon
<1>5. /\ Tail(s) \in Seq(0..InitialWindow) /\ Head(s) \in Nat /\ Total(Tail(s)) \in Nat
      /\ Total(s) = Head(s) + Total(Tail(s)) /\ Total(s) \in Nat
  <2>1. Tail(s) \in Seq(0..InitialWindow)
    BY <1>4, TailIs, Zenon
  <2>2. s \in Seq(Nat) /\ Total(s) \in Nat
    BY <1>4, ChunksNat, Zenon
  <2> QED BY <1>4, <2>1, <2>2, TotalTail, Zenon
<1>6. PICK f : f = DataFrame(i, Head(s), FinFlag(e, i))
  BY Zenon
<1>7. f \in Frames /\ f.type = "DATA" /\ f.id = i /\ f.len = Head(s) /\ f.fin = FinFlag(e, i)
  <2>1. i \in Nat /\ i # 0
    BY <1>2 DEF Ids
  <2>2. FinFlag(e, i) \in BOOLEAN
    BY Zenon DEF FinFlag
  <2> QED BY <1>5, <1>6, <2>1, <2>2, ZenonT(60) DEF DataFrame, Frames
<1>8. Sets(Seq(0..InitialWindow), outbound, e, i, Tail(s), outbound')
  <2>1. outbound \in [Ends -> [Ids -> Seq(0..InitialWindow)]] /\ outbound' = Put(outbound, e, i, Tail(s))
    BY <1>0, <1>1, <1>3, Zenon DEF MuxTyped
  <2> QED BY <1>2, <1>5, <2>1, PutIs, Zenon
<1>9. Turns(Seq(Frames), net, r, Append(net[r], f), net')
  <2>1. net \in [Ends -> Seq(Frames)] /\ net' = [net EXCEPT ![r] = Append(net[r], f)]
    BY <1>0, <1>1, <1>3, <1>6, Zenon DEF MuxTyped, r
  <2>2. Append(net[r], f) \in Seq(Frames)
    BY <1>0, <1>7, <2>1, AppendIs, Zenon
  <2> QED BY <1>0, <2>1, <2>2, TurnIs, Zenon
<1>u. UNCHANGED <<next_id, phase, priority, inbound, inbound_fin, send_credit, recv_window, sess_send,
                  sess_recv, owed, told, sent, taken, fin_asked, was_reset>>
  BY <1>1, Zenon DEF flow
<1>a. /\ outbound' \in [Ends -> [Ids -> Seq(0..InitialWindow)]] /\ outbound'[e][i] = Tail(s)
      /\ \A d \in Ends, j \in Ids : d # e \/ j # i => outbound'[d][j] = outbound[d][j]
  BY <1>8, Zenon DEF Sets
<1>b. /\ net' \in [Ends -> Seq(Frames)] /\ net \in [Ends -> Seq(Frames)]
      /\ net'[r] = Append(net[r], f) /\ net'[e] = net[e]
      /\ net[r] \in Seq(Frames) /\ net'[r] \in Seq(Frames)
  <2>1. net \in [Ends -> Seq(Frames)]
    BY <1>0, Zenon DEF MuxTyped
  <2> QED BY <1>0, <1>9, <2>1, Zenon DEF Turns
<1>v. Wired(net[r], f, net'[r])
  BY <1>7, <1>b, FrameSent, Zenon
<1>c. \A n \in 1..Len(net'[r]) :
          \/ n \in 1..Len(net[r]) /\ net'[r][n] = net[r][n]
          \/ n = Len(net[r]) + 1 /\ net'[r][n] = f
  BY <1>v, Zenon DEF Wired
<1>10. MuxTyped'
  BY <1>0, <1>a, <1>b, <1>u, ZenonT(60) DEF MuxTyped
<1>m. \A d, j : Known(d, j)' <=> Known(d, j)
  BY <1>u, Zenon DEF Known
<1>k. Known(e, i) /\ BackedAt(e) /\ BackedAt(r)
  <2>1. BackedAt(e) /\ BackedAt(r)
    BY <1>0, Zenon DEF MuxInv
  <2> QED BY <1>2, <2>1, Zenon DEF BackedAt
<1>11. \A d \in Ends : KnownAt(d)'
  BY <1>m, <1>u, KnownKept, Zenon DEF MuxInv
<1>12. BackedAt(e)'
  <2>1. ASSUME NEW j \in Ids, outbound'[e][j] # <<>> \/ inbound'[e][j] > 0 \/ owed'[e][j] > 0
        PROVE  Known(e, j)'
    <3>1. CASE j = i
      BY <1>k, <1>m, <3>1, Zenon
    <3>2. CASE j # i
      BY <1>a, <1>k, <1>m, <1>u, <2>1, <3>2, Zenon DEF BackedAt
    <3> QED BY <3>1, <3>2, Zenon
  <2>2. ASSUME NEW n \in 1..Len(net'[r]), net'[r][n].id # 0
        PROVE  net'[r][n].id \in Ids /\ phase'[e][net'[r][n].id] # "kNone"
    <3>1. CASE n \in 1..Len(net[r]) /\ net'[r][n] = net[r][n]
      BY <1>k, <1>u, <2>2, <3>1, Zenon DEF BackedAt, Known, r
    <3>2. CASE net'[r][n] = f
      BY <1>2, <1>7, <1>k, <1>u, <3>2, Zenon DEF Known
    <3> QED BY <1>c, <3>1, <3>2, Zenon
  <2> QED BY <2>1, <2>2, Zenon DEF BackedAt, Known, r
<1>13. BackedAt(r)'
  BY <1>0, <1>a, <1>b, <1>k, <1>m, <1>u, ZenonT(60) DEF BackedAt
<1>14. ASSUME NEW d \in Ends PROVE ResetAt(d)'
  BY <1>u, Zenon DEF MuxInv, ResetAt
<1>15. ASSUME NEW d \in Ends, NEW j \in Ids PROVE FinAt(d, j)'
  <2>0. FinAt(d, j)
    BY <1>15, Zenon DEF MuxInv
  <2>1. CASE d = r
    BY <1>0, <1>a, <1>b, <1>u, <2>0, <2>1, ZenonT(60) DEF FinAt, LastData, Finished, Known
  <2>2. CASE d = e /\ j # i
    <3>1. Finished(d, j) => Finished(d, j)'
      BY <1>a, <1>u, <1>15, <2>2, Zenon DEF Finished, Known
    <3>2. \A n \in 1..Len(net'[r]) :
              \/ n \in 1..Len(net[r]) /\ net'[r][n] = net[r][n]
              \/ ~DataOf(net'[r][n], j)
      BY <1>7, <1>c, <2>2, Zenon DEF DataOf
    <3>3. phase'[d][j] = phase[d][j]
      BY <1>u, Zenon
    <3> QED BY <1>b, <1>u, <2>0, <2>2, <3>1, <3>2, <3>3, FinSent, ZenonT(60) DEF r
  <2>3. CASE d = e /\ j = i
    <3>1. ~Finished(e, i)
      BY <1>2, Zenon DEF Finished
    <3>2. /\ ~inbound_fin'[r][i]
          /\ \A n \in 1..Len(net[r]) : ~(DataOf(net[r][n], i) /\ net[r][n].fin)
      BY <1>u, <2>0, <2>3, <3>1, Zenon DEF FinAt, LastData, r
    <3>3. FinFlag(e, i) => Finished(e, i)'
      <4>1. FinFlag(e, i) => Tail(s) = <<>>
        <5>1. Len(s) = 1 => Tail(s) = <<>>
          <6>1. PICK S : S = 0..InitialWindow
            BY Zenon
          <6>2. s \in Seq(S)
            BY <1>4, <6>1, Zenon
          <6> QED BY <6>2, LastOne, Zenon
        <5> QED BY <1>3, <5>1, Zenon DEF FinFlag
      <4>2. FinFlag(e, i) => phase[e][i] = "kHalfClosedLocal" /\ i \in fin_asked[e] /\ ~can_send(phase[e][i])
        BY <2>0, <2>3, Zenon DEF FinFlag, FinAt, can_send
      <4> QED BY <1>a, <1>k, <1>m, <1>u, <4>1, <4>2, Zenon DEF Finished
    <3>4. LastData(e, i)'
      <4> SUFFICES ASSUME NEW n \in 1..Len(net'[r]), DataOf(net'[r][n], i), net'[r][n].fin
                   PROVE  /\ Finished(e, i)'
                          /\ \A m \in n + 1..Len(net'[r]) : ~DataOf(net'[r][m], i)
        BY Zenon DEF LastData, DataOf, r
      <4>1. n = Len(net[r]) + 1 /\ net'[r][n] = f
        BY <1>c, <3>2, Zenon
      <4>2. n + 1..Len(net'[r]) = {}
        BY <1>b, <4>1
      <4> QED BY <1>7, <3>3, <4>1, <4>2, Zenon
    <3> QED BY <1>u, <2>0, <2>3, <3>2, <3>4, ZenonT(60) DEF FinAt, r
  <2> QED BY <1>0, <2>1, <2>2, <2>3, Zenon
<1>w. /\ \A j \in Ids : /\ UnderWay(net'[r], {j}, "WINDOW") = UnderWay(net[r], {j}, "WINDOW")
                        /\ j # i => UnderWay(net'[r], {j}, "DATA") = UnderWay(net[r], {j}, "DATA")
      /\ UnderWay(net'[r], {i}, "DATA") = UnderWay(net[r], {i}, "DATA") + Head(s)
      /\ UnderWay(net'[r], Ids, "DATA") = UnderWay(net[r], Ids, "DATA") + Head(s)
  <2>1. \A j \in Ids : UnderWay(net'[r], {j}, "WINDOW") = UnderWay(net[r], {j}, "WINDOW")
    BY <1>7, <1>v, Zenon DEF Wired
  <2>2. \A j \in Ids : j # i => UnderWay(net'[r], {j}, "DATA") = UnderWay(net[r], {j}, "DATA")
    BY <1>7, <1>v, Zenon DEF Wired
  <2>3. UnderWay(net'[r], {i}, "DATA") = UnderWay(net[r], {i}, "DATA") + Head(s)
    BY <1>7, <1>v, Zenon DEF Wired
  <2>4. UnderWay(net'[r], Ids, "DATA") = UnderWay(net[r], Ids, "DATA") + Head(s)
    BY <1>2, <1>7, <1>v, Zenon DEF Wired
  <2> QED BY <2>1, <2>2, <2>3, <2>4, Zenon
<1>16. ASSUME NEW d \in Ends, NEW j \in Ids PROVE FlowAt(d, j)'
  <2>0. FlowAt(d, j)
    BY <1>16, Zenon DEF MuxInv
  <2>1. CASE d = r
    BY <1>0, <1>a, <1>b, <1>u, <1>w, <2>0, <2>1, FlowKept, ZenonT(60)
  <2>2. CASE d = e /\ j # i
    BY <1>0, <1>a, <1>b, <1>u, <1>w, <2>0, <2>2, FlowKept, ZenonT(60) DEF r
  <2>3. CASE d = e /\ j = i
    <3>1. Ledger(send_credit[e][i], Total(Tail(s)),
                 UnderWay(net[r], {i}, "DATA") + Head(s), UnderWay(net[e], {i}, "WINDOW"),
                 owed[r][i], recv_window[r][i], inbound[r][i],
                 sent[e][i], taken[r][i], i \notin was_reset[r])
      BY <1>3, <1>5, <2>0, <2>3, LedgerSteps, ZenonT(60) DEF FlowAt, r
    <3> QED BY <1>a, <1>b, <1>u, <1>w, <2>3, <3>1, ZenonT(60) DEF FlowAt, r
  <2> QED BY <1>0, <2>1, <2>2, <2>3, Zenon
<1>17. AccountAt(e)'
  <2>0. AccountAt(e)
    BY Zenon DEF MuxInv
  <2>1. Total(Queues(outbound[e])) = Head(s) + Total(Queues(outbound'[e])) /\ Total(Queues(outbound'[e])) \in Nat
    <3>0. /\ outbound[e] \in [Ids -> Seq(0..InitialWindow)] /\ outbound'[e] \in [Ids -> Seq(0..InitialWindow)]
          /\ \A j \in Ids : j # i => outbound'[e][j] = outbound[e][j]
      BY <1>0, <1>a, <1>10, Zenon DEF MuxTyped
    <3>1. /\ Total(Queues(outbound'[e])) + Total(outbound[e][i]) = Total(Queues(outbound[e])) + Total(outbound'[e][i])
          /\ Total(Queues(outbound[e])) \in Nat /\ Total(Queues(outbound'[e])) \in Nat
      BY <1>2, <3>0, QueueUpdate, Zenon
    <3>2. PICK b, a, x, y, h \in Nat : /\ b = Total(Queues(outbound'[e])) /\ a = Total(Queues(outbound[e]))
                                       /\ x = Total(s) /\ y = Total(Tail(s)) /\ h = Head(s)
      BY <1>5, <3>1, Zenon
    <3>3. b + x = a + y /\ x = h + y
      BY <1>3, <1>5, <1>a, <3>1, <3>2, Zenon
    <3>4. a = h + b
      BY <3>3
    <3> QED BY <3>1, <3>2, <3>4, Zenon
  <2>2. Account(sess_send[e], Total(Queues(outbound'[e])), UnderWay(net[r], Ids, "DATA") + Head(s),
                sess_recv[r], Total(inbound[r]))
    BY <1>5, <2>0, <2>1, AccountSteps, ZenonT(60) DEF AccountAt, r
  <2> QED BY <1>u, <1>w, <2>2, ZenonT(60) DEF AccountAt, r
<1>18. AccountAt(r)'
  <2>0. AccountAt(r)
    BY <1>0, Zenon DEF MuxInv
  <2>1. outbound'[r] = outbound[r]
    <3>1. outbound'[r] \in [Ids -> Seq(0..InitialWindow)] /\ outbound[r] \in [Ids -> Seq(0..InitialWindow)]
      BY <1>0, <1>10, Zenon DEF MuxTyped
    <3>2. \A j \in Ids : outbound'[r][j] = outbound[r][j]
      BY <1>0, <1>a, Zenon
    <3> QED BY <3>1, <3>2
  <2> QED BY <1>0, <1>b, <1>u, <2>0, <2>1, AccountKept, ZenonT(60)
<1>19. \A d \in Ends : KnownAt(d)' /\ BackedAt(d)' /\ ResetAt(d)' /\ AccountAt(d)'
  BY <1>0, <1>11, <1>12, <1>13, <1>14, <1>17, <1>18, ZenonT(60)
<1> QED BY <1>10, <1>15, <1>16, <1>19, ZenonT(60) DEF MuxInv

\* A grant within the initial window is never refused.
LEMMA Granted ==
    ASSUME NEW c \in Nat, NEW n \in Nat, c + n <= InitialWindow PROVE grant(c, n) = c + n
BY MuxAssumption DEF grant

\* read_inbound hands the buffer out and gives the bytes back to both windows.
LEMMA ReadMux == ASSUME MuxInv, NEW e \in Ends, NEW i \in Ids, read_inbound(e, i) PROVE MuxInv'
<1> DEFINE r == Peer(e)
<1>0. MuxTyped /\ r \in Ends /\ Peer(r) = e /\ r # e /\ \A d \in Ends : d = e \/ d = r
  BY PeerIs, Zenon DEF MuxInv
<1> HIDE DEF r
<1>t. /\ inbound \in [Ends -> [Ids -> Nat]] /\ recv_window \in [Ends -> [Ids -> Nat]]
      /\ sess_recv \in [Ends -> Nat] /\ owed \in [Ends -> [Ids -> Nat]] /\ taken \in [Ends -> [Ids -> Nat]]
  BY <1>0, Zenon DEF MuxTyped
<1>1. PICK b, w, s, o, t \in Nat :
        b = inbound[e][i] /\ w = recv_window[e][i] /\ s = sess_recv[e] /\ o = owed[e][i] /\ t = taken[e][i]
  BY <1>t, Zenon
<1>2. FlowAt(r, i) /\ AccountAt(r)
  BY <1>0, Zenon DEF MuxInv
<1>3. Ledger(send_credit[r][i], Total(outbound[r][i]),
             UnderWay(net[e], {i}, "DATA"), UnderWay(net[r], {i}, "WINDOW"), o, w, b,
             sent[r][i], t, i \notin was_reset[e])
  BY <1>0, <1>1, <1>2, Zenon DEF FlowAt
<1>4. Account(sess_send[r], Total(Queues(outbound[r])), UnderWay(net[e], Ids, "DATA"), s, Total(inbound[e]))
  BY <1>0, <1>1, <1>2, Zenon DEF AccountAt
<1>5. grant(w, b) = w + b /\ w + b \in Nat /\ o + b \in Nat /\ t + b \in Nat /\ t + b + 0 = t + b
  <2>1. w + b <= InitialWindow
    <3>1. w + b = InitialWindow
      BY <1>3, Zenon DEF Ledger
    <3> QED BY <3>1, MuxAssumption
  <2>2. w + b \in Nat /\ o + b \in Nat /\ t + b \in Nat /\ t + b + 0 = t + b
    BY <1>1
  <2> QED BY <2>1, <2>2, Granted, Zenon
<1>6. Sets(Nat, inbound, e, i, 0, inbound')
  <2>1. inbound' = Put(inbound, e, i, 0) /\ 0 \in Nat
    BY Zenon DEF read_inbound
  <2> QED BY <1>t, <2>1, PutIs, Zenon
<1>a. /\ inbound' \in [Ends -> [Ids -> Nat]] /\ inbound'[e][i] = 0
      /\ \A d \in Ends, j \in Ids : d # e \/ j # i => inbound'[d][j] = inbound[d][j]
  BY <1>6, Zenon DEF Sets
<1>7. /\ Total(inbound[e]) = b + Total(inbound'[e]) /\ Total(inbound'[e]) \in Nat
      /\ grant(s, b) = s + b /\ s + b \in Nat
  <2>1. /\ inbound[e] \in [Ids -> Nat] /\ inbound'[e] \in [Ids -> Nat]
        /\ \A j \in Ids : j # i => inbound'[e][j] = inbound[e][j]
    BY <1>a, <1>t, Zenon
  <2>2. /\ Total(inbound'[e]) + inbound[e][i] = Total(inbound[e]) + inbound'[e][i]
        /\ Total(inbound[e]) \in Nat /\ Total(inbound'[e]) \in Nat
    BY <2>1, BufferUpdate, Zenon
  <2>3. PICK x, y \in Nat : x = Total(inbound[e]) /\ y = Total(inbound'[e])
    BY <2>2, Zenon
  <2>4. y + b = x + 0
    BY <1>1, <1>a, <2>2, <2>3, Zenon
  <2>5. x = b + y
    BY <2>4
  <2>6. s + b <= InitialWindow
    <3>1. s + x = InitialWindow
      BY <1>4, <2>3, Zenon DEF Account
    <3> QED BY <2>5, <3>1
  <2>7. s + b \in Nat
    BY <1>1
  <2> QED BY <1>1, <2>2, <2>3, <2>5, <2>6, <2>7, Granted, Zenon
<1>8. Sets(Nat, recv_window, e, i, w + b, recv_window')
  <2>1. recv_window' = Put(recv_window, e, i, w + b)
    BY <1>1, <1>5, Zenon DEF read_inbound
  <2> QED BY <1>t, <1>5, <2>1, PutIs, Zenon
<1>9. Sets(Nat, owed, e, i, o + b, owed')
  <2>1. owed' = Put(owed, e, i, o + b)
    BY <1>1, Zenon DEF read_inbound
  <2> QED BY <1>t, <1>5, <2>1, PutIs, Zenon
<1>10. Sets(Nat, taken, e, i, t + b, taken')
  <2>1. taken' = Put(taken, e, i, t + b)
    BY <1>1, Zenon DEF read_inbound
  <2> QED BY <1>t, <1>5, <2>1, PutIs, Zenon
<1>11. Turns(Nat, sess_recv, e, s + b, sess_recv')
  <2>1. sess_recv' = [sess_recv EXCEPT ![e] = s + b]
    BY <1>1, <1>7, Zenon DEF read_inbound
  <2> QED BY <1>t, <1>7, <2>1, TurnIs, Zenon
<1>b. /\ recv_window' \in [Ends -> [Ids -> Nat]] /\ recv_window'[e][i] = w + b
      /\ \A d \in Ends, j \in Ids : d # e \/ j # i => recv_window'[d][j] = recv_window[d][j]
  BY <1>8, Zenon DEF Sets
<1>c. /\ owed' \in [Ends -> [Ids -> Nat]] /\ owed'[e][i] = o + b
      /\ \A d \in Ends, j \in Ids : d # e \/ j # i => owed'[d][j] = owed[d][j]
  BY <1>9, Zenon DEF Sets
<1>d. /\ taken' \in [Ends -> [Ids -> Nat]] /\ taken'[e][i] = t + b
      /\ \A d \in Ends, j \in Ids : d # e \/ j # i => taken'[d][j] = taken[d][j]
  BY <1>10, Zenon DEF Sets
<1>f. sess_recv' \in [Ends -> Nat] /\ sess_recv'[e] = s + b /\ sess_recv'[r] = sess_recv[r]
  BY <1>0, <1>11, Zenon DEF Turns
<1>u. UNCHANGED <<next_id, phase, priority, outbound, inbound_fin, send_credit,
                  sess_send, net, told, sent, fin_asked, was_reset>>
  BY Zenon DEF read_inbound
<1>12. MuxTyped'
  BY <1>0, <1>a, <1>b, <1>c, <1>d, <1>f, <1>u, ZenonT(60) DEF MuxTyped
<1>13. \A d \in Ends : KnownAt(d)' /\ ResetAt(d)'
  <2>1. \A d \in Ends, j \in Ids : Known(d, j)' <=> Known(d, j)
    BY <1>u, Zenon DEF Known
  <2>2. \A d \in Ends : KnownAt(d)'
    BY <1>u, <2>1, KnownKept, Zenon DEF MuxInv
  <2>3. \A d \in Ends : ResetAt(d)'
    BY <1>u, Zenon DEF MuxInv, ResetAt
  <2> QED BY <2>2, <2>3, Zenon
<1>14. ASSUME NEW d \in Ends PROVE BackedAt(d)'
  <2>0. BackedAt(d)
    BY <1>14, Zenon DEF MuxInv
  <2>1. ASSUME NEW j \in Ids, outbound'[d][j] # <<>> \/ inbound'[d][j] > 0 \/ owed'[d][j] > 0
        PROVE  Known(d, j)'
    <3>1. CASE d = e /\ j = i
      BY <1>u, <3>1, Zenon DEF Known, read_inbound
    <3>2. CASE d # e \/ j # i
      BY <1>a, <1>c, <1>u, <2>0, <2>1, <3>2, Zenon DEF BackedAt, Known
    <3> QED BY <3>1, <3>2, Zenon
  <2> QED BY <1>u, <2>0, <2>1, ZenonT(60) DEF BackedAt, Known
<1>15. ASSUME NEW d \in Ends, NEW j \in Ids PROVE FinAt(d, j)'
  <2>0. FinAt(d, j) /\ Peer(d) \in Ends
    BY <1>15, PeerIs, Zenon DEF MuxInv
  <2>1. inbound_fin[Peer(d)][j] => taken'[Peer(d)][j] + inbound'[Peer(d)][j] = sent[d][j]
    <3>1. CASE Peer(d) = e /\ j = i
      <4>1. inbound_fin[Peer(d)][j] => t + b = sent[d][j]
        BY <1>1, <2>0, <3>1, Zenon DEF FinAt
      <4> QED BY <1>5, <1>a, <1>d, <3>1, <4>1, Zenon
    <3>2. CASE Peer(d) # e \/ j # i
      BY <1>a, <1>d, <2>0, <3>2, Zenon DEF FinAt
    <3> QED BY <3>1, <3>2, Zenon
  <2> QED BY <1>u, <2>0, <2>1, ZenonT(60) DEF FinAt, LastData, Finished, Known
<1>16. ASSUME NEW d \in Ends, NEW j \in Ids PROVE FlowAt(d, j)'
  <2>0. FlowAt(d, j) /\ Peer(d) \in Ends
    BY <1>16, PeerIs, Zenon DEF MuxInv
  <2>1. CASE d = r /\ j = i
    <3>1. Ledger(send_credit[r][i], Total(outbound[r][i]),
                 UnderWay(net[e], {i}, "DATA"), UnderWay(net[r], {i}, "WINDOW"), o + b, w + b, 0,
                 sent[r][i], t + b, i \notin was_reset[e])
      BY <1>3, LedgerSteps, Zenon
    <3> QED BY <1>0, <1>a, <1>b, <1>c, <1>d, <1>u, <2>1, <3>1, ZenonT(60) DEF FlowAt
  <2>2. CASE d # r \/ j # i
    <3>1. Peer(d) # e \/ j # i
      <4>1. Peer(e) = r
        BY Zenon DEF r
      <4> QED BY <1>0, <2>2, <4>1, Zenon
    <3>2. /\ owed'[Peer(d)][j] = owed[Peer(d)][j] /\ recv_window'[Peer(d)][j] = recv_window[Peer(d)][j]
          /\ inbound'[Peer(d)][j] = inbound[Peer(d)][j] /\ taken'[Peer(d)][j] = taken[Peer(d)][j]
      BY <1>a, <1>b, <1>c, <1>d, <2>0, <3>1, Zenon
    <3> QED BY <1>u, <2>0, <3>2, FlowKept, ZenonT(60)
  <2> QED BY <2>1, <2>2, Zenon
<1>17. AccountAt(r)'
  <2>1. Account(sess_send[r], Total(Queues(outbound[r])), UnderWay(net[e], Ids, "DATA"),
                s + b, Total(inbound'[e]))
    BY <1>1, <1>4, <1>7, AccountSteps, Zenon
  <2> QED BY <1>0, <1>f, <1>u, <2>1, ZenonT(60) DEF AccountAt
<1>18. AccountAt(e)'
  <2>0. AccountAt(e)
    BY Zenon DEF MuxInv
  <2>1. inbound'[r] = inbound[r]
    <3>1. inbound'[r] \in [Ids -> Nat] /\ inbound[r] \in [Ids -> Nat]
      BY <1>0, <1>a, <1>t, Zenon
    <3>2. \A j \in Ids : inbound'[r][j] = inbound[r][j]
      BY <1>0, <1>a, Zenon
    <3> QED BY <3>1, <3>2
  <2> QED BY <1>f, <1>u, <2>0, <2>1, AccountKept, ZenonT(60) DEF r
<1>19. \A d \in Ends : KnownAt(d)' /\ BackedAt(d)' /\ ResetAt(d)' /\ AccountAt(d)'
  BY <1>0, <1>13, <1>14, <1>17, <1>18, ZenonT(60)
<1> QED BY <1>12, <1>15, <1>16, <1>19, ZenonT(60) DEF MuxInv

\* The announcement of what was read turns what is owed into credit under way.
LEMMA AnnounceMux == ASSUME MuxInv, NEW e \in Ends, NEW i \in Ids, SendWindow(e, i) PROVE MuxInv'
<1> DEFINE r == Peer(e)
<1>0. MuxTyped /\ r \in Ends /\ Peer(r) = e /\ r # e /\ \A d \in Ends : d = e \/ d = r
  BY PeerIs, Zenon DEF MuxInv
<1> HIDE DEF r
<1>t. net \in [Ends -> Seq(Frames)] /\ owed \in [Ends -> [Ids -> Nat]]
  BY <1>0, Zenon DEF MuxTyped
<1>1. PICK o \in Nat : o = owed[e][i]
  BY <1>t, Zenon
<1>2. PICK f, g \in Frames : f = WindowFrame(i, o) /\ g = WindowFrame(0, o)
  <2>1. i \in Nat /\ 0 \in Nat /\ FALSE \in BOOLEAN
    BY DEF Ids
  <2>2. WindowFrame(i, o) \in Frames /\ WindowFrame(0, o) \in Frames
    BY <1>1, <2>1, ZenonT(60) DEF WindowFrame, Frames
  <2> QED BY <2>2, Zenon
<1>3. /\ f.type = "WINDOW" /\ f.id = i /\ f.len = o
      /\ g.type = "WINDOW" /\ g.id = 0 /\ \A j \in Ids : j # 0
  <2>1. \A j \in Ids : j # 0
    BY DEF Ids
  <2> QED BY <1>2, <2>1, ZenonT(60) DEF WindowFrame
<1>4. PICK mid : mid = Append(net[r], f)
  BY Zenon
<1>5. Wired(net[r], f, mid) /\ mid \in Seq(Frames)
  <2>1. net[r] \in Seq(Frames)
    BY <1>0, <1>t, Zenon
  <2>2. Wired(net[r], f, mid)
    BY <1>2, <1>4, <2>1, FrameSent, Zenon
  <2> QED BY <2>2, Zenon DEF Wired
<1>6. Turns(Seq(Frames), net, r, Append(mid, g), net')
  <2>1. net' = [net EXCEPT ![r] = net[r] \o <<f, g>>]
    BY <1>1, <1>2, Zenon DEF SendWindow, r
  <2>2. net[r] \o <<f, g>> = Append(mid, g)
    <3>1. net[r] \in Seq(Frames)
      BY <1>0, <1>t, Zenon
    <3>2. net[r] \o <<f, g>> = Append(Append(net[r], f), g)
      BY <1>2, <3>1, TwoAppends, Zenon
    <3> QED BY <1>4, <3>2, Zenon
  <2>3. Append(mid, g) \in Seq(Frames)
    BY <1>5, AppendIs, Zenon
  <2> QED BY <1>0, <1>t, <2>1, <2>2, <2>3, TurnIs, Zenon
<1>b. /\ net' \in [Ends -> Seq(Frames)] /\ net'[r] = Append(mid, g) /\ net'[e] = net[e]
      /\ net[r] \in Seq(Frames) /\ net'[r] \in Seq(Frames)
  BY <1>0, <1>6, <1>t, Zenon DEF Turns
<1>7. Wired(mid, g, net'[r])
  BY <1>5, <1>b, FrameSent, Zenon
<1>c. \A n \in 1..Len(net'[r]) :
          \/ n \in 1..Len(net[r]) /\ net'[r][n] = net[r][n]
          \/ net'[r][n] = f \/ net'[r][n] = g
  BY <1>5, <1>7, Zenon DEF Wired
<1>8. Sets(Nat, owed, e, i, 0, owed')
  <2>1. owed' = Put(owed, e, i, 0) /\ 0 \in Nat
    BY Zenon DEF SendWindow
  <2> QED BY <1>t, <2>1, PutIs, Zenon
<1>a. /\ owed' \in [Ends -> [Ids -> Nat]] /\ owed'[e][i] = 0
      /\ \A d \in Ends, j \in Ids : d # e \/ j # i => owed'[d][j] = owed[d][j]
  BY <1>8, Zenon DEF Sets
<1>u. UNCHANGED <<next_id, phase, priority, outbound, inbound, inbound_fin, send_credit, recv_window,
                  sess_send, sess_recv, told, sent, taken, fin_asked, was_reset>>
  BY Zenon DEF SendWindow, flow, hist
<1>10. MuxTyped'
  BY <1>0, <1>a, <1>b, <1>u, ZenonT(60) DEF MuxTyped
<1>11. \A d \in Ends : KnownAt(d)' /\ ResetAt(d)'
  <2>1. \A d \in Ends, j \in Ids : Known(d, j)' <=> Known(d, j)
    BY <1>u, Zenon DEF Known
  <2>2. \A d \in Ends : KnownAt(d)'
    BY <1>u, <2>1, KnownKept, Zenon DEF MuxInv
  <2>3. \A d \in Ends : ResetAt(d)'
    BY <1>u, Zenon DEF MuxInv, ResetAt
  <2> QED BY <2>2, <2>3, Zenon
<1>k. Known(e, i) /\ BackedAt(e) /\ BackedAt(r)
  <2>1. BackedAt(e) /\ BackedAt(r)
    BY <1>0, Zenon DEF MuxInv
  <2> QED BY <2>1, Zenon DEF BackedAt, SendWindow
<1>12. BackedAt(e)'
  <2>1. ASSUME NEW j \in Ids, outbound'[e][j] # <<>> \/ inbound'[e][j] > 0 \/ owed'[e][j] > 0
        PROVE  Known(e, j)'
    <3>1. CASE j = i
      BY <1>k, <1>u, <3>1, Zenon DEF Known
    <3>2. CASE j # i
      BY <1>a, <1>k, <1>u, <2>1, <3>2, Zenon DEF BackedAt, Known
    <3> QED BY <3>1, <3>2, Zenon
  <2>2. ASSUME NEW n \in 1..Len(net'[r]), net'[r][n].id # 0
        PROVE  net'[r][n].id \in Ids /\ phase'[e][net'[r][n].id] # "kNone"
    <3>1. CASE n \in 1..Len(net[r]) /\ net'[r][n] = net[r][n]
      BY <1>k, <1>u, <2>2, <3>1, Zenon DEF BackedAt, Known, r
    <3>2. CASE net'[r][n] = f \/ net'[r][n] = g
      BY <1>3, <1>k, <1>u, <2>2, <3>2, Zenon DEF Known
    <3> QED BY <1>c, <3>1, <3>2, Zenon
  <2> QED BY <2>1, <2>2, Zenon DEF BackedAt, Known, r
<1>13. BackedAt(r)'
  <2>1. \A j \in Ids : owed'[r][j] = owed[r][j]
    BY <1>0, <1>a, Zenon
  <2>2. \A j \in Ids : outbound[r][j] # <<>> \/ inbound[r][j] > 0 \/ owed[r][j] > 0 => Known(r, j)
    BY <1>k, Zenon DEF BackedAt
  <2>3. \A n \in 1..Len(net[e]) : net[e][n].id # 0 => net[e][n].id \in Ids /\ Known(r, net[e][n].id)
    BY <1>0, <1>k, Zenon DEF BackedAt
  <2> QED BY <1>0, <1>b, <1>u, <2>1, <2>2, <2>3, ZenonT(60) DEF BackedAt, Known
<1>15. ASSUME NEW d \in Ends, NEW j \in Ids PROVE FinAt(d, j)'
  <2>0. FinAt(d, j)
    BY <1>15, Zenon DEF MuxInv
  <2>1. CASE d = r
    BY <1>0, <1>b, <1>u, <2>0, <2>1, ZenonT(60) DEF FinAt, LastData, Finished, Known
  <2>2. CASE d = e
    <3>1. Finished(d, j) => Finished(d, j)'
      BY <1>u, Zenon DEF Finished, Known
    <3>2. \A n \in 1..Len(net'[r]) :
              \/ n \in 1..Len(net[r]) /\ net'[r][n] = net[r][n]
              \/ ~DataOf(net'[r][n], j)
      BY <1>3, <1>c, Zenon DEF DataOf
    <3>3. phase'[d][j] = phase[d][j]
      BY <1>u, Zenon
    <3> QED BY <1>b, <1>u, <2>0, <2>2, <3>1, <3>2, <3>3, FinSent, ZenonT(60) DEF r
  <2> QED BY <1>0, <2>1, <2>2, Zenon
<1>w. /\ \A ids : UnderWay(net'[r], ids, "DATA") = UnderWay(net[r], ids, "DATA")
      /\ \A j \in Ids : j # i => UnderWay(net'[r], {j}, "WINDOW") = UnderWay(net[r], {j}, "WINDOW")
      /\ UnderWay(net'[r], {i}, "WINDOW") = UnderWay(net[r], {i}, "WINDOW") + o
  <2>1. \A ids : UnderWay(net'[r], ids, "DATA") = UnderWay(mid, ids, "DATA")
    BY <1>3, <1>7, Zenon DEF Wired
  <2>2. \A ids : UnderWay(mid, ids, "DATA") = UnderWay(net[r], ids, "DATA")
    BY <1>3, <1>5, Zenon DEF Wired
  <2>3. \A j \in Ids : UnderWay(net'[r], {j}, "WINDOW") = UnderWay(mid, {j}, "WINDOW")
    <3>1. \A j \in Ids : ~(g.type = "WINDOW" /\ g.id \in {j})
      BY <1>3, Zenon
    <3> QED BY <1>7, <3>1, Zenon DEF Wired
  <2>4. \A j \in Ids : j # i => UnderWay(mid, {j}, "WINDOW") = UnderWay(net[r], {j}, "WINDOW")
    BY <1>3, <1>5, Zenon DEF Wired
  <2>5. UnderWay(mid, {i}, "WINDOW") = UnderWay(net[r], {i}, "WINDOW") + o
    BY <1>3, <1>5, Zenon DEF Wired
  <2> QED BY <2>1, <2>2, <2>3, <2>4, <2>5, Zenon
<1>16. ASSUME NEW d \in Ends, NEW j \in Ids PROVE FlowAt(d, j)'
  <2>0. FlowAt(d, j) /\ Peer(d) \in Ends
    BY <1>16, PeerIs, Zenon DEF MuxInv
  <2>1. CASE d = r /\ j = i
    <3>1. Ledger(send_credit[r][i], Total(outbound[r][i]), UnderWay(net[e], {i}, "DATA"),
                 UnderWay(net[r], {i}, "WINDOW") + o, 0, recv_window[e][i], inbound[e][i],
                 sent[r][i], taken[e][i], i \notin was_reset[e])
      BY <1>0, <1>1, <2>0, <2>1, LedgerSteps, ZenonT(60) DEF FlowAt
    <3> QED BY <1>0, <1>a, <1>b, <1>u, <1>w, <2>1, <3>1, ZenonT(60) DEF FlowAt
  <2>2. CASE d = r /\ j # i
    <3>1. owed'[e][j] = owed[e][j]
      BY <1>a, <2>2, Zenon
    <3> QED BY <1>0, <1>b, <1>u, <1>w, <2>0, <2>2, <3>1, FlowKept, ZenonT(60)
  <2>3. CASE d = e
    <3>1. owed'[r][j] = owed[r][j]
      BY <1>0, <1>a, Zenon
    <3> QED BY <1>0, <1>b, <1>u, <1>w, <2>0, <2>3, <3>1, FlowKept, ZenonT(60) DEF r
  <2> QED BY <1>0, <2>1, <2>2, <2>3, Zenon
<1>17. ASSUME NEW d \in Ends PROVE AccountAt(d)'
  <2>0. AccountAt(d)
    BY <1>17, Zenon DEF MuxInv
  <2>1. UnderWay(net'[Peer(d)], Ids, "DATA") = UnderWay(net[Peer(d)], Ids, "DATA")
    <3>1. CASE d = e
      BY <1>w, <3>1, Zenon DEF r
    <3>2. CASE d = r
      BY <1>0, <1>b, <3>2, Zenon
    <3> QED BY <1>0, <3>1, <3>2, Zenon
  <2> QED BY <1>u, <2>0, <2>1, AccountKept, ZenonT(60)
<1>19. \A d \in Ends : KnownAt(d)' /\ BackedAt(d)' /\ ResetAt(d)' /\ AccountAt(d)'
  BY <1>0, <1>11, <1>12, <1>13, <1>17, ZenonT(60)
<1> QED BY <1>10, <1>15, <1>16, <1>19, ZenonT(60) DEF MuxInv

\* The announcement of a reset puts a frame without bytes on the wire.
LEMMA TellMux == ASSUME MuxInv, NEW e \in Ends, NEW i \in Ids, SendReset(e, i) PROVE MuxInv'
<1> DEFINE r == Peer(e)
<1>0. MuxTyped /\ r \in Ends /\ Peer(r) = e /\ r # e /\ \A d \in Ends : d = e \/ d = r
  BY PeerIs, Zenon DEF MuxInv
<1> HIDE DEF r
<1>t. net \in [Ends -> Seq(Frames)] /\ told \in [Ends -> SUBSET Ids] /\ net[r] \in Seq(Frames)
  <2>1. net \in [Ends -> Seq(Frames)] /\ told \in [Ends -> SUBSET Ids]
    BY <1>0, Zenon DEF MuxTyped
  <2> QED BY <1>0, <2>1, Zenon
<1>2. PICK f \in Frames : f = ResetFrame(i)
  <2>1. i \in Nat /\ 0 \in Nat /\ FALSE \in BOOLEAN
    BY DEF Ids
  <2>2. ResetFrame(i) \in Frames
    BY <2>1, ZenonT(60) DEF ResetFrame, Frames
  <2> QED BY <2>2, Zenon
<1>3. f.type = "RESET" /\ f.id = i
  BY <1>2, ZenonT(60) DEF ResetFrame
<1>6. Turns(Seq(Frames), net, r, Append(net[r], f), net')
  <2>1. net' = [net EXCEPT ![r] = Append(net[r], f)]
    BY <1>2, Zenon DEF SendReset, r
  <2>2. Append(net[r], f) \in Seq(Frames)
    BY <1>2, <1>t, AppendIs, Zenon
  <2> QED BY <1>0, <1>t, <2>1, <2>2, TurnIs, Zenon
<1>b. /\ net' \in [Ends -> Seq(Frames)] /\ net'[r] = Append(net[r], f) /\ net'[e] = net[e]
      /\ net'[r] \in Seq(Frames)
  BY <1>0, <1>6, Zenon DEF Turns
<1>7. Wired(net[r], f, net'[r])
  BY <1>2, <1>b, <1>t, FrameSent, Zenon
<1>8. Turns(SUBSET Ids, told, e, told[e] \cup {i}, told')
  <2>1. told' = [told EXCEPT ![e] = told[e] \cup {i}]
    BY Zenon DEF SendReset
  <2>2. told[e] \cup {i} \in SUBSET Ids
    BY <1>t, Zenon
  <2> QED BY <1>t, <2>1, <2>2, TurnIs, Zenon
<1>a. told' \in [Ends -> SUBSET Ids] /\ told'[e] = told[e] \cup {i} /\ told'[r] = told[r]
  BY <1>0, <1>8, Zenon DEF Turns
<1>u. UNCHANGED <<next_id, phase, priority, outbound, inbound, inbound_fin, send_credit, recv_window,
                  sess_send, sess_recv, owed, sent, taken, fin_asked, was_reset>>
  BY Zenon DEF SendReset, flow, hist
<1>10. MuxTyped'
  BY <1>0, <1>a, <1>b, <1>u, ZenonT(60) DEF MuxTyped
<1>11. \A d \in Ends : KnownAt(d)'
  <2>1. \A d \in Ends, j \in Ids : Known(d, j)' <=> Known(d, j)
    BY <1>u, Zenon DEF Known
  <2> QED BY <1>u, <2>1, KnownKept, Zenon DEF MuxInv
<1>k. Known(e, i) /\ BackedAt(e) /\ BackedAt(r) /\ ResetAt(e) /\ ResetAt(r) /\ i \in was_reset[e]
  <2>1. BackedAt(e) /\ BackedAt(r) /\ ResetAt(e) /\ ResetAt(r)
    BY <1>0, Zenon DEF MuxInv
  <2>2. i \in was_reset[e]
    BY Zenon DEF SendReset
  <2> QED BY <2>1, <2>2, Zenon DEF ResetAt, Known
<1>12. BackedAt(e)'
  <2>2. ASSUME NEW n \in 1..Len(net'[r]), net'[r][n].id # 0
        PROVE  net'[r][n].id \in Ids /\ phase'[e][net'[r][n].id] # "kNone"
    <3>1. CASE n \in 1..Len(net[r]) /\ net'[r][n] = net[r][n]
      BY <1>k, <1>u, <2>2, <3>1, Zenon DEF BackedAt, Known, r
    <3>2. CASE net'[r][n] = f
      BY <1>3, <1>k, <1>u, <2>2, <3>2, Zenon DEF Known
    <3> QED BY <1>7, <3>1, <3>2, Zenon DEF Wired
  <2> QED BY <1>k, <1>u, <2>2, Zenon DEF BackedAt, Known, r
<1>13. BackedAt(r)'
  BY <1>0, <1>b, <1>k, <1>u, ZenonT(60) DEF BackedAt, Known
<1>14. ResetAt(e)' /\ ResetAt(r)'
  BY <1>a, <1>k, <1>u, ZenonT(60) DEF ResetAt
<1>15. ASSUME NEW d \in Ends, NEW j \in Ids PROVE FinAt(d, j)'
  <2>0. FinAt(d, j)
    BY <1>15, Zenon DEF MuxInv
  <2>1. CASE d = r
    BY <1>0, <1>b, <1>u, <2>0, <2>1, ZenonT(60) DEF FinAt, LastData, Finished, Known
  <2>2. CASE d = e
    <3>1. Finished(d, j) => Finished(d, j)'
      BY <1>u, Zenon DEF Finished, Known
    <3>2. \A n \in 1..Len(net'[r]) :
              \/ n \in 1..Len(net[r]) /\ net'[r][n] = net[r][n]
              \/ ~DataOf(net'[r][n], j)
      BY <1>3, <1>7, Zenon DEF DataOf, Wired
    <3>3. phase'[d][j] = phase[d][j]
      BY <1>u, Zenon
    <3> QED BY <1>b, <1>t, <1>u, <2>0, <2>2, <3>1, <3>2, <3>3, FinSent, ZenonT(60) DEF r
  <2> QED BY <1>0, <2>1, <2>2, Zenon
<1>w. /\ \A ids : UnderWay(net'[r], ids, "DATA") = UnderWay(net[r], ids, "DATA")
      /\ \A ids : UnderWay(net'[r], ids, "WINDOW") = UnderWay(net[r], ids, "WINDOW")
  <2>1. \A ids : UnderWay(net'[r], ids, "DATA") = UnderWay(net[r], ids, "DATA")
    BY <1>3, <1>7, Zenon DEF Wired
  <2>2. \A ids : UnderWay(net'[r], ids, "WINDOW") = UnderWay(net[r], ids, "WINDOW")
    BY <1>3, <1>7, Zenon DEF Wired
  <2> QED BY <2>1, <2>2, Zenon
<1>16. ASSUME NEW d \in Ends, NEW j \in Ids PROVE FlowAt(d, j)'
  <2>0. FlowAt(d, j) /\ Peer(d) \in Ends
    BY <1>16, PeerIs, Zenon DEF MuxInv
  <2>1. CASE d = r
    BY <1>0, <1>b, <1>u, <1>w, <2>0, <2>1, FlowKept, ZenonT(60)
  <2>2. CASE d = e
    BY <1>0, <1>b, <1>u, <1>w, <2>0, <2>2, FlowKept, ZenonT(60) DEF r
  <2> QED BY <1>0, <2>1, <2>2, Zenon
<1>17. ASSUME NEW d \in Ends PROVE AccountAt(d)'
  <2>0. AccountAt(d)
    BY <1>17, Zenon DEF MuxInv
  <2>1. UnderWay(net'[Peer(d)], Ids, "DATA") = UnderWay(net[Peer(d)], Ids, "DATA")
    <3>1. CASE d = e
      BY <1>w, <3>1, Zenon DEF r
    <3>2. CASE d = r
      BY <1>0, <1>b, <3>2, Zenon
    <3> QED BY <1>0, <3>1, <3>2, Zenon
  <2> QED BY <1>u, <2>0, <2>1, AccountKept, ZenonT(60)
<1>19. \A d \in Ends : KnownAt(d)' /\ BackedAt(d)' /\ ResetAt(d)' /\ AccountAt(d)'
  BY <1>0, <1>11, <1>12, <1>13, <1>14, <1>17, ZenonT(60)
<1> QED BY <1>10, <1>15, <1>16, <1>19, ZenonT(60) DEF MuxInv

\* What a frame taken off the wire leaves on it.
Unwired(old, new) ==
    /\ new \in Seq(Frames)
    /\ \A n \in 1..Len(new) : n + 1 \in 1..Len(old) /\ new[n] = old[n + 1]
    /\ \A ids, t : /\ Head(old).type = t /\ Head(old).id \in ids =>
                          UnderWay(old, ids, t) = Head(old).len + UnderWay(new, ids, t)
                   /\ ~(Head(old).type = t /\ Head(old).id \in ids) =>
                          UnderWay(new, ids, t) = UnderWay(old, ids, t)

LEMMA FrameTaken ==
    ASSUME NEW old \in Seq(Frames), old # <<>>, NEW new, new = Tail(old) PROVE Unwired(old, new)
<1>1. /\ Tail(old) \in Seq(Frames)
      /\ \A n \in 1..Len(Tail(old)) : n + 1 \in 1..Len(old) /\ Tail(old)[n] = old[n + 1]
  BY TailIs
<1>2. ASSUME NEW ids, NEW t
      PROVE  /\ Head(old).type = t /\ Head(old).id \in ids =>
                    UnderWay(old, ids, t) = Head(old).len + UnderWay(Tail(old), ids, t)
             /\ ~(Head(old).type = t /\ Head(old).id \in ids) =>
                    UnderWay(Tail(old), ids, t) = UnderWay(old, ids, t)
  <2>1. UnderWay(old, ids, t) = Weight(Head(old), ids, t) + UnderWay(Tail(old), ids, t)
    BY UnderWayTail, Zenon
  <2>2. PICK u \in Nat : u = UnderWay(Tail(old), ids, t)
    BY <1>1, UnderWayNat, Zenon
  <2>3. 0 + u = u
    OBVIOUS
  <2> QED BY <2>1, <2>2, <2>3, Zenon DEF Weight
<1>3. Unwired(old, Tail(old))
  BY <1>1, <1>2, Zenon DEF Unwired
<1> QED BY <1>3, Zenon

\* What on_frame does whatever the frame is.
Arrived(e) ==
    /\ net[e] # <<>> /\ net' = [net EXCEPT ![e] = Tail(@)]
    /\ UNCHANGED <<next_id, priority, outbound, sess_send, owed, sent, taken, fin_asked>>

Taken(e) ==
    /\ net' \in [Ends -> Seq(Frames)] /\ net[e] \in Seq(Frames) /\ net'[e] \in Seq(Frames)
    /\ net'[Peer(e)] = net[Peer(e)]
    /\ Unwired(net[e], net'[e])
    /\ 1 \in 1..Len(net[e]) /\ Head(net[e]) = net[e][1]
    /\ Head(net[e]) \in Frames /\ Head(net[e]).len \in Nat

\* A frame is of a stream its sender knows, and so of one the receiver accepts.
LEMMA Arrival ==
    ASSUME MuxInv, NEW e \in Ends, Arrived(e)
    PROVE  /\ Taken(e)
           /\ Head(net[e]).id # 0 => ~Ignored(e, Head(net[e])) /\ Head(net[e]).id \in Ids
           /\ \A i \in Ids : i = Head(net[e]).id =>
                  Known(Peer(e), i) /\ (Known(e, i) \/ belongs_to_peer(i, e))
<1> DEFINE r == Peer(e)
<1>0. MuxTyped /\ r \in Ends /\ Peer(r) = e /\ r # e
  BY PeerIs, Zenon DEF MuxInv
<1> HIDE DEF r
<1>1. net \in [Ends -> Seq(Frames)] /\ net[e] \in Seq(Frames) /\ net[e] # <<>>
  <2>1. net \in [Ends -> Seq(Frames)]
    BY <1>0, Zenon DEF MuxTyped
  <2> QED BY <2>1, Zenon DEF Arrived
<1>2. PICK fr : fr = net[e]
  BY Zenon
<1>3. /\ Tail(fr) \in Seq(Frames) /\ Head(fr) \in Frames /\ 1 \in 1..Len(fr) /\ Head(fr) = fr[1]
  BY <1>1, <1>2, TailIs, Zenon
<1>4. Turns(Seq(Frames), net, e, Tail(fr), net')
  <2>1. net' = [net EXCEPT ![e] = Tail(fr)]
    BY <1>2, Zenon DEF Arrived
  <2> QED BY <1>1, <1>3, <2>1, TurnIs, Zenon
<1>5. net' \in [Ends -> Seq(Frames)] /\ net'[e] = Tail(fr) /\ net'[r] = net[r]
  BY <1>0, <1>4, Zenon DEF Turns
<1>6. Unwired(fr, net'[e])
  BY <1>1, <1>2, <1>5, FrameTaken, Zenon
<1>7. Head(fr).len \in Nat
  BY <1>3, Zenon DEF Frames
<1>8. Taken(e)
  BY <1>1, <1>2, <1>3, <1>5, <1>6, <1>7, Zenon DEF Taken, r
<1>9. ASSUME Head(fr).id # 0 PROVE Head(fr).id \in Ids /\ Known(r, Head(fr).id)
  <2>1. BackedAt(r)
    BY <1>0, Zenon DEF MuxInv
  <2>2. \A n \in 1..Len(fr) : fr[n].id # 0 => fr[n].id \in Ids /\ Known(r, fr[n].id)
    BY <1>0, <1>2, <2>1, Zenon DEF BackedAt
  <2> QED BY <1>3, <1>9, <2>2, Zenon
<1>10. ASSUME NEW i \in Ids, i = Head(fr).id PROVE Known(r, i) /\ (Known(e, i) \/ belongs_to_peer(i, e))
  <2>1. i # 0 /\ i \in Nat
    BY DEF Ids
  <2>2. Known(r, i)
    BY <1>9, <1>10, <2>1, Zenon
  <2>3. KnownAt(r)
    BY <1>0, Zenon DEF MuxInv
  <2>4. belongs_to_peer(i, e) \/ belongs_to_peer(i, r)
    BY <2>1, Parity, Zenon DEF r
  <2>5. belongs_to_peer(i, r) => Known(e, i)
    BY <1>0, <2>2, <2>3, Zenon DEF KnownAt
  <2> QED BY <2>2, <2>4, <2>5, Zenon
<1>11. ASSUME Head(fr).id # 0 PROVE ~Ignored(e, Head(fr)) /\ Head(fr).id \in Ids
  BY <1>9, <1>10, <1>11, Zenon DEF Ignored, Known
<1> QED BY <1>2, <1>8, <1>10, <1>11, Zenon DEF r

\* An arrival may move the phase of its stream, never back to unknown or to sending.
Moves(e, i, p) ==
    /\ Sets(Phases, phase, e, i, p, phase') /\ p # "kNone"
    /\ Known(e, i) /\ ~can_send(phase[e][i]) => ~can_send(p)

LEMMA ArrivalKnown ==
    ASSUME MuxInv, NEW e \in Ends, Arrived(e), NEW i \in Ids, i = Head(net[e]).id, NEW p, Moves(e, i, p)
    PROVE  /\ \A d \in Ends, j \in Ids : /\ Known(d, j) => Known(d, j)'
                                         /\ Finished(d, j) => Finished(d, j)'
           /\ \A d \in Ends : KnownAt(d)'
<1> DEFINE r == Peer(e)
<1>0. MuxTyped /\ r \in Ends /\ Peer(r) = e /\ r # e /\ \A d \in Ends : d = e \/ d = r
  BY PeerIs, Zenon DEF MuxInv
<1> HIDE DEF r
<1>1. Known(r, i) /\ (Known(e, i) \/ belongs_to_peer(i, e))
  BY Arrival, Zenon DEF r
<1>2. UNCHANGED <<next_id, outbound, fin_asked>>
  BY Zenon DEF Arrived
<1>3. /\ phase'[e][i] = p /\ p # "kNone"
      /\ \A d \in Ends, j \in Ids : d # e \/ j # i => phase'[d][j] = phase[d][j]
  BY Zenon DEF Moves, Sets
<1>4. ASSUME NEW d \in Ends, NEW j \in Ids
      PROVE  (Known(d, j) => Known(d, j)') /\ (Known(d, j)' => Known(d, j) \/ (d = e /\ j = i))
  BY <1>3, Zenon DEF Known
<1>5. ASSUME NEW d \in Ends, NEW j \in Ids PROVE Finished(d, j) => Finished(d, j)'
  <2>1. CASE d = e /\ j = i
    <3>1. Known(e, i) /\ ~can_send(phase[e][i]) => ~can_send(p)
      BY Zenon DEF Moves
    <3> QED BY <1>2, <1>3, <2>1, <3>1, Zenon DEF Finished, Known
  <2>2. CASE d # e \/ j # i
    <3>1. phase'[d][j] = phase[d][j]
      BY <1>3, <2>2, Zenon
    <3> QED BY <1>2, <3>1, Zenon DEF Finished, Known
  <2> QED BY <2>1, <2>2, Zenon
<1>6. ASSUME NEW d \in Ends PROVE KnownAt(d)'
  <2>0. KnownAt(d) /\ Peer(d) \in Ends
    BY <1>6, PeerIs, Zenon DEF MuxInv
  <2>1. ASSUME NEW j \in Ids, Known(d, j)'
        PROVE  IF belongs_to_peer(j, d) THEN Known(Peer(d), j)' ELSE j < next_id'[d]
    <3>1. CASE Known(d, j)
      BY <1>2, <1>4, <2>0, <3>1, Zenon DEF KnownAt
    <3>2. CASE ~Known(d, j)
      <4>1. d = e /\ j = i /\ Known(r, i) /\ belongs_to_peer(i, e)
        BY <1>1, <1>4, <2>1, <3>2, Zenon
      <4>2. Known(r, i)'
        BY <1>0, <1>4, <4>1, Zenon
      <4>3. Peer(d) = r
        BY <4>1, Zenon DEF r
      <4> QED BY <4>1, <4>2, <4>3, Zenon
    <3> QED BY <3>1, <3>2, Zenon
  <2> QED BY <1>2, <2>0, <2>1, ZenonT(60) DEF KnownAt
<1> QED BY <1>4, <1>5, <1>6, Zenon

\* What is kept and what is under way stays backed.
LEMMA ArrivalBacked ==
    ASSUME MuxInv, NEW e \in Ends, Arrived(e), NEW i \in Ids, i = Head(net[e]).id, NEW p, Moves(e, i, p),
           \A d \in Ends, j \in Ids : d # e \/ j # i => inbound'[d][j] = inbound[d][j]
    PROVE  \A d \in Ends : BackedAt(d)'
<1> DEFINE r == Peer(e)
<1>0. MuxTyped /\ r \in Ends /\ Peer(r) = e /\ r # e /\ \A d \in Ends : d = e \/ d = r
  BY PeerIs, Zenon DEF MuxInv
<1> HIDE DEF r
<1>1. \A d \in Ends, j \in Ids : Known(d, j) => Known(d, j)'
  BY ArrivalKnown, Zenon
<1>2. UNCHANGED <<outbound, owed>> /\ Known(e, i)'
  BY Zenon DEF Arrived, Moves, Sets, Known
<1>3. Taken(e)
  BY Arrival, Zenon
<1>4. SUFFICES ASSUME NEW d \in Ends PROVE BackedAt(d)'
  BY Zenon
<1>5. BackedAt(d) /\ Peer(d) \in Ends
  BY <1>4, PeerIs, Zenon DEF MuxInv
<1>6. ASSUME NEW j \in Ids, outbound'[d][j] # <<>> \/ inbound'[d][j] > 0 \/ owed'[d][j] > 0
      PROVE  Known(d, j)'
  <2>1. CASE d = e /\ j = i
    BY <1>2, <2>1, Zenon
  <2>2. CASE d # e \/ j # i
    BY <1>1, <1>2, <1>5, <1>6, <2>2, Zenon DEF BackedAt
  <2> QED BY <2>1, <2>2, Zenon
<1>7. ASSUME NEW n \in 1..Len(net'[Peer(d)]), net'[Peer(d)][n].id # 0
      PROVE  net'[Peer(d)][n].id \in Ids /\ phase'[d][net'[Peer(d)][n].id] # "kNone"
  <2>1. \A m \in 1..Len(net[Peer(d)]) :
            net[Peer(d)][m].id # 0 => net[Peer(d)][m].id \in Ids /\ Known(d, net[Peer(d)][m].id)
    BY <1>5, Zenon DEF BackedAt
  <2>2. \E m \in 1..Len(net[Peer(d)]) : net'[Peer(d)][n] = net[Peer(d)][m]
    <3>1. CASE d = e
      BY <1>3, <1>7, <3>1, Zenon DEF Taken
    <3>2. CASE d = r
      BY <1>0, <1>3, <1>7, <3>2, Zenon DEF Taken, Unwired
    <3> QED BY <1>0, <3>1, <3>2, Zenon
  <2>3. PICK m \in 1..Len(net[Peer(d)]) : net'[Peer(d)][n] = net[Peer(d)][m]
    BY <2>2, Zenon
  <2>4. net[Peer(d)][m].id \in Ids /\ Known(d, net[Peer(d)][m].id)
    BY <1>7, <2>1, <2>3, Zenon
  <2>5. PICK k \in Ids : k = net[Peer(d)][m].id /\ Known(d, k)
    BY <2>4, Zenon
  <2>6. phase'[d][k] # "kNone"
    BY <1>1, <2>5, Zenon DEF Known
  <2> QED BY <2>3, <2>5, <2>6, Zenon
<1> QED BY <1>6, <1>7, Zenon DEF BackedAt, Known

\* The FINs of the receiver's own direction.
LEMMA ArrivalFinOwn ==
    ASSUME MuxInv, NEW e \in Ends, Arrived(e), NEW i \in Ids, i = Head(net[e]).id, NEW p, Moves(e, i, p),
           p = "kHalfClosedLocal" => i \in fin_asked[e],
           p \in {"kHalfClosedRemote", "kClosed"} => inbound_fin'[e][i] \/ i \in was_reset'[e],
           \A d \in Ends, j \in Ids :
               d # e \/ j # i => inbound'[d][j] = inbound[d][j] /\ inbound_fin'[d][j] = inbound_fin[d][j],
           was_reset[e] \subseteq was_reset'[e]
    PROVE  \A j \in Ids : FinAt(e, j)'
<1> DEFINE r == Peer(e)
<1>0. r \in Ends /\ r # e
  BY PeerIs, Zenon
<1>1. SUFFICES ASSUME NEW j \in Ids PROVE FinAt(e, j)'
  BY Zenon
<1>2. FinAt(e, j) /\ (Finished(e, j) => Finished(e, j)') /\ net'[r] = net[r]
  <2>1. Taken(e)
    BY Arrival, Zenon
  <2>2. Finished(e, j) => Finished(e, j)'
    BY <1>1, ArrivalKnown, Zenon
  <2> QED BY <1>1, <2>1, <2>2, Zenon DEF MuxInv, Taken
<1>3. UNCHANGED <<taken, sent, fin_asked>>
  BY Zenon DEF Arrived
<1>4. /\ phase'[e][j] = "kHalfClosedLocal" => j \in fin_asked'[e]
      /\ phase'[e][j] \in {"kHalfClosedRemote", "kClosed"} => inbound_fin'[e][j] \/ j \in was_reset'[e]
  <2>1. /\ phase'[e][i] = p
        /\ \A k \in Ids : k # i => phase'[e][k] = phase[e][k]
    BY Zenon DEF Moves, Sets
  <2>2. CASE j = i
    BY <1>3, <2>1, <2>2, Zenon
  <2>3. CASE j # i
    BY <1>2, <1>3, <2>1, <2>3, Zenon DEF FinAt
  <2> QED BY <2>2, <2>3, Zenon
<1>5. inbound'[r][j] = inbound[r][j] /\ inbound_fin'[r][j] = inbound_fin[r][j]
  BY <1>0, Zenon
<1>6. inbound_fin'[r][j] =>
          /\ Finished(e, j)' /\ taken'[r][j] + inbound'[r][j] = sent'[e][j]
          /\ \A n \in 1..Len(net'[r]) : ~DataOf(net'[r][n], j)
  BY <1>2, <1>3, <1>5, ZenonT(60) DEF FinAt
<1>7. LastData(e, j)'
  BY <1>2, ZenonT(60) DEF FinAt, LastData
<1> QED BY <1>4, <1>6, <1>7, ZenonT(60) DEF FinAt

\* The FINs of the sender's direction: the frames behind the one that arrived.
LEMMA FinBehind ==
    ASSUME NEW d \in Ends, NEW j \in Ids, LastData(d, j), Finished(d, j) => Finished(d, j)',
           net[Peer(d)] \in Seq(Frames), Unwired(net[Peer(d)], net'[Peer(d)])
    PROVE  LastData(d, j)'
<1>1. /\ net'[Peer(d)] \in Seq(Frames)
      /\ \A n \in 1..Len(net'[Peer(d)]) :
             n + 1 \in 1..Len(net[Peer(d)]) /\ net'[Peer(d)][n] = net[Peer(d)][n + 1]
  BY Zenon DEF Unwired
<1>2. SUFFICES ASSUME NEW n \in 1..Len(net'[Peer(d)]),
                      DataOf(net'[Peer(d)][n], j), net'[Peer(d)][n].fin
               PROVE  /\ Finished(d, j)'
                      /\ \A m \in n + 1..Len(net'[Peer(d)]) : ~DataOf(net'[Peer(d)][m], j)
  BY Zenon DEF LastData, DataOf
<1>3. /\ Finished(d, j)
      /\ \A m \in n + 1 + 1..Len(net[Peer(d)]) : ~DataOf(net[Peer(d)][m], j)
  BY <1>1, <1>2, Zenon DEF LastData
<1>4. ASSUME NEW m \in n + 1..Len(net'[Peer(d)]), DataOf(net'[Peer(d)][m], j) PROVE FALSE
  <2>1. Len(net'[Peer(d)]) \in Nat /\ Len(net[Peer(d)]) \in Nat
    BY <1>1
  <2>2. m \in 1..Len(net'[Peer(d)])
    BY <2>1
  <2>3. m + 1 \in 1..Len(net[Peer(d)]) /\ net'[Peer(d)][m] = net[Peer(d)][m + 1]
    BY <1>1, <2>2, Zenon
  <2>4. m + 1 \in n + 1 + 1..Len(net[Peer(d)])
    BY <2>1, <2>3
  <2> QED BY <1>3, <1>4, <2>3, <2>4, Zenon
<1> QED BY <1>3, <1>4, Zenon

LEMMA ArrivalFinPeer ==
    ASSUME MuxInv, NEW e \in Ends, Arrived(e), NEW j \in Ids,
           Finished(Peer(e), j) => Finished(Peer(e), j)', phase'[Peer(e)][j] = phase[Peer(e)][j],
           inbound_fin'[Peer(e)][j] = inbound_fin[Peer(e)][j], was_reset'[Peer(e)] = was_reset[Peer(e)],
           inbound_fin'[e][j] => inbound_fin[e][j] /\ inbound'[e][j] = inbound[e][j]
    PROVE  FinAt(Peer(e), j)'
<1>0. PICK r \in Ends : r = Peer(e) /\ Peer(r) = e /\ r # e
  BY PeerIs, Zenon
<1>1. FinAt(r, j)
  BY Zenon DEF MuxInv
<1>2. net[e] \in Seq(Frames) /\ Unwired(net[e], net'[e])
  BY Arrival, Zenon DEF Taken
<1>3. UNCHANGED <<taken, sent, fin_asked>>
  BY Zenon DEF Arrived
<1>4. LastData(r, j)'
  BY <1>0, <1>1, <1>2, FinBehind, Zenon DEF FinAt
<1>5. ASSUME inbound_fin'[e][j]
      PROVE  /\ Finished(r, j)' /\ taken'[e][j] + inbound'[e][j] = sent'[r][j]
             /\ \A n \in 1..Len(net'[e]) : ~DataOf(net'[e][n], j)
  <2>1. /\ Finished(r, j) /\ taken[e][j] + inbound[e][j] = sent[r][j]
        /\ \A n \in 1..Len(net[e]) : ~DataOf(net[e][n], j)
    BY <1>0, <1>1, <1>5, Zenon DEF FinAt
  <2>2. \A n \in 1..Len(net'[e]) : ~DataOf(net'[e][n], j)
    BY <1>2, <2>1, Zenon DEF Unwired
  <2> QED BY <1>0, <1>3, <1>5, <2>1, <2>2, Zenon
<1>6. /\ phase'[r][j] = "kHalfClosedLocal" => j \in fin_asked'[r]
      /\ phase'[r][j] \in {"kHalfClosedRemote", "kClosed"} => inbound_fin'[r][j] \/ j \in was_reset'[r]
  BY <1>0, <1>1, <1>3, Zenon DEF FinAt
<1>7. FinAt(r, j)'
  BY <1>0, <1>4, <1>5, <1>6, ZenonT(60) DEF FinAt
<1> QED BY <1>0, <1>7, Zenon

\* A frame of the control stream changes nothing but the wire.
LEMMA IgnoredMux ==
    ASSUME MuxInv, NEW e \in Ends, Arrived(e), OnIgnored(e, Head(net[e])) PROVE MuxInv'
<1>0. PICK r \in Ends : r = Peer(e) /\ Peer(r) = e /\ r # e /\ \A d \in Ends : d = e \/ d = r
  BY PeerIs, Zenon
<1>1. Taken(e) /\ Head(net[e]).id = 0
  BY Arrival, Zenon DEF OnIgnored
<1>2. /\ net' \in [Ends -> Seq(Frames)] /\ net'[r] = net[r] /\ Unwired(net[e], net'[e])
  BY <1>0, <1>1, Zenon DEF Taken
<1>u. UNCHANGED <<next_id, phase, priority, outbound, inbound, inbound_fin, send_credit, recv_window,
                  sess_send, sess_recv, owed, told, sent, taken, fin_asked, was_reset>>
  BY Zenon DEF OnIgnored, Arrived
<1>3. MuxTyped'
  <2>1. MuxTyped
    BY Zenon DEF MuxInv
  <2> QED BY <1>2, <1>u, <2>1, ZenonT(60) DEF MuxTyped
<1>4. \A d \in Ends : KnownAt(d)' /\ ResetAt(d)'
  <2>1. \A d \in Ends, j \in Ids : Known(d, j)' <=> Known(d, j)
    BY <1>u, Zenon DEF Known
  <2>2. \A d \in Ends : KnownAt(d)'
    BY <1>u, <2>1, KnownKept, Zenon DEF MuxInv
  <2>3. \A d \in Ends : ResetAt(d)'
    BY <1>u, Zenon DEF MuxInv, ResetAt
  <2> QED BY <2>2, <2>3, Zenon
<1>5. BackedAt(e)' /\ BackedAt(r)'
  <2>0. BackedAt(e) /\ BackedAt(r)
    BY <1>0, Zenon DEF MuxInv
  <2>1. BackedAt(e)'
    BY <1>0, <1>2, <1>u, <2>0, ZenonT(60) DEF BackedAt, Known
  <2>2. \A n \in 1..Len(net[e]) : net[e][n].id # 0 => net[e][n].id \in Ids /\ Known(r, net[e][n].id)
    BY <1>0, <2>0, Zenon DEF BackedAt
  <2>3. ASSUME NEW n \in 1..Len(net'[e]), net'[e][n].id # 0
        PROVE  net'[e][n].id \in Ids /\ phase'[r][net'[e][n].id] # "kNone"
    <3>1. n + 1 \in 1..Len(net[e]) /\ net'[e][n] = net[e][n + 1]
      BY <1>2, Zenon DEF Unwired
    <3>2. net[e][n + 1].id \in Ids /\ Known(r, net[e][n + 1].id)
      BY <2>2, <2>3, <3>1, Zenon
    <3> QED BY <1>u, <3>1, <3>2, Zenon DEF Known
  <2> QED BY <1>0, <1>u, <2>0, <2>1, <2>3, ZenonT(60) DEF BackedAt, Known
<1>6. ASSUME NEW j \in Ids PROVE FinAt(e, j)' /\ FinAt(r, j)'
  <2>1. \A d \in Ends : Finished(d, j)' <=> Finished(d, j)
    BY <1>u, Zenon DEF Finished, Known
  <2>2. FinAt(r, j)'
    BY <1>0, <1>u, <2>1, ArrivalFinPeer, ZenonT(60)
  <2>3. FinAt(e, j)
    BY <1>6, Zenon DEF MuxInv
  <2>4. FinAt(e, j)'
    BY <1>0, <1>2, <1>u, <2>1, <2>3, ZenonT(60) DEF FinAt, LastData
  <2> QED BY <2>2, <2>4, Zenon
<1>7. \A t : /\ \A j \in Ids : UnderWay(net'[e], {j}, t) = UnderWay(net[e], {j}, t)
             /\ UnderWay(net'[e], Ids, t) = UnderWay(net[e], Ids, t)
  <2>1. 0 \notin Ids /\ \A j \in Ids : 0 \notin {j}
    BY DEF Ids
  <2> QED BY <1>1, <1>2, <2>1, Zenon DEF Unwired
<1>8. ASSUME NEW j \in Ids PROVE FlowAt(e, j)' /\ FlowAt(r, j)'
  <2>0. FlowAt(e, j) /\ FlowAt(r, j)
    BY <1>0, Zenon DEF MuxInv
  <2>1. FlowAt(e, j)'
    BY <1>0, <1>2, <1>7, <1>u, <2>0, FlowKept, ZenonT(60)
  <2>2. FlowAt(r, j)'
    BY <1>0, <1>2, <1>7, <1>u, <2>0, FlowKept, ZenonT(60)
  <2> QED BY <2>1, <2>2, Zenon
<1>9. AccountAt(e)' /\ AccountAt(r)'
  <2>0. AccountAt(e) /\ AccountAt(r)
    BY <1>0, Zenon DEF MuxInv
  <2>1. AccountAt(e)'
    BY <1>0, <1>2, <1>u, <2>0, AccountKept, ZenonT(60)
  <2>2. AccountAt(r)'
    BY <1>0, <1>7, <1>u, <2>0, AccountKept, ZenonT(60)
  <2> QED BY <2>1, <2>2, Zenon
<1>10. /\ \A d \in Ends : KnownAt(d)' /\ BackedAt(d)' /\ ResetAt(d)' /\ AccountAt(d)'
       /\ \A d \in Ends, j \in Ids : FinAt(d, j)' /\ FlowAt(d, j)'
  BY <1>0, <1>4, <1>5, <1>6, <1>8, <1>9, ZenonT(60)
<1> QED BY <1>3, <1>10, ZenonT(60) DEF MuxInv

\* The phase a frame finds once find_or_create has run.
LEMMA Created ==
    ASSUME MuxInv, NEW e \in Ends, NEW i \in Ids
    PROVE  /\ phase \in [Ends -> [Ids -> Phases]] /\ find_or_create(phase[e][i]) \in Phases
           /\ Known(e, i) => find_or_create(phase[e][i]) = phase[e][i]
           /\ find_or_create(phase[e][i]) = "kOpen" \/ Known(e, i)
           /\ find_or_create(phase[e][i]) # "kNone"
           /\ Known(e, i) /\ ~can_send(phase[e][i]) => ~can_send(find_or_create(phase[e][i]))
<1>1. phase \in [Ends -> [Ids -> Phases]]
  BY Zenon DEF MuxInv, MuxTyped
<1>2. phase[e][i] \in Phases /\ "kOpen" \in Phases
  BY <1>1, Zenon DEF Phases
<1> QED BY <1>1, <1>2, Zenon DEF find_or_create, Known

\* A WINDOW frame turns credit under way into credit: the cap never refuses it.
LEMMA WindowMux ==
    ASSUME MuxInv, NEW e \in Ends, Arrived(e), NEW i \in Ids, i = Head(net[e]).id,
           OnWindow(e, Head(net[e]), find_or_create(phase[e][i]))
    PROVE  MuxInv'
<1>0. PICK r \in Ends : r = Peer(e) /\ Peer(r) = e /\ r # e /\ \A d \in Ends : d = e \/ d = r
  BY PeerIs, Zenon
<1>1. PICK f, p : f = Head(net[e]) /\ p = find_or_create(phase[e][i])
  BY Zenon
<1>2. Taken(e) /\ f.id = i /\ f.type = "WINDOW" /\ f.len \in Nat
  BY <1>1, Arrival, Zenon DEF OnWindow, Taken
<1>b. /\ net' \in [Ends -> Seq(Frames)] /\ net'[r] = net[r] /\ Unwired(net[e], net'[e])
      /\ net'[e] \in Seq(Frames) /\ net[e] \in Seq(Frames)
  BY <1>0, <1>2, Zenon DEF Taken
<1>p. /\ phase \in [Ends -> [Ids -> Phases]] /\ p \in Phases /\ p # "kNone"
      /\ Known(e, i) => p = phase[e][i]
      /\ p = "kOpen" \/ Known(e, i)
      /\ Known(e, i) /\ ~can_send(phase[e][i]) => ~can_send(p)
  BY <1>1, Created, Zenon
<1>3. Moves(e, i, p)
  <2>1. phase' = Put(phase, e, i, p)
    BY <1>1, Zenon DEF OnWindow
  <2>2. Sets(Phases, phase, e, i, p, phase')
    BY <1>p, <2>1, PutIs, Zenon
  <2> QED BY <1>p, <2>2, Zenon DEF Moves
<1>a. /\ phase' \in [Ends -> [Ids -> Phases]] /\ phase'[e][i] = p
      /\ \A d \in Ends, j \in Ids : d # e \/ j # i => phase'[d][j] = phase[d][j]
  BY <1>3, Zenon DEF Moves, Sets
<1>4. PICK c, n, m \in Nat : /\ c = send_credit[e][i] /\ n = f.len
                             /\ m = UnderWay(net'[e], {i}, "WINDOW")
  <2>1. send_credit \in [Ends -> [Ids -> Nat]]
    BY Zenon DEF MuxInv, MuxTyped
  <2>2. UnderWay(net'[e], {i}, "WINDOW") \in Nat
    BY <1>b, UnderWayNat, Zenon
  <2> QED BY <1>2, <2>1, <2>2, Zenon
<1>5. UnderWay(net[e], {i}, "WINDOW") = n + m
  BY <1>1, <1>2, <1>4, <1>b, Zenon DEF Unwired
<1>6. Ledger(c, Total(outbound[e][i]), UnderWay(net[r], {i}, "DATA"), n + m,
             owed[r][i], recv_window[r][i], inbound[r][i],
             sent[e][i], taken[r][i], i \notin was_reset[r])
  <2>1. FlowAt(e, i)
    BY Zenon DEF MuxInv
  <2> QED BY <1>0, <1>4, <1>5, <2>1, Zenon DEF FlowAt
<1>7. /\ c + n <= InitialWindow
      /\ Ledger(c + n, Total(outbound[e][i]), UnderWay(net[r], {i}, "DATA"), m,
                owed[r][i], recv_window[r][i], inbound[r][i],
                sent[e][i], taken[r][i], i \notin was_reset[r])
  <2>1. PICK q, d, o, w, h, s, t, whole :
            /\ q = Total(outbound[e][i]) /\ d = UnderWay(net[r], {i}, "DATA")
            /\ o = owed[r][i] /\ w = recv_window[r][i] /\ h = inbound[r][i]
            /\ s = sent[e][i] /\ t = taken[r][i] /\ whole = (i \notin was_reset[r])
    BY Zenon
  <2>2. Ledger(c, q, d, n + m, o, w, h, s, t, whole)
    BY <1>6, <2>1, Zenon
  <2>3. c + n <= InitialWindow /\ Ledger(c + n, q, d, m, o, w, h, s, t, whole)
    BY <1>4, <2>2, LedgerGrant, Zenon
  <2> QED BY <2>1, <2>3, Zenon
<1>8. Sets(Nat, send_credit, e, i, c + n, send_credit')
  <2>1. grant(c, n) = c + n /\ c + n \in Nat
    <3>1. c + n \in Nat
      BY <1>4
    <3> QED BY <1>4, <1>7, <3>1, Granted, Zenon
  <2>2. send_credit' = Put(send_credit, e, i, c + n)
    BY <1>1, <1>2, <1>4, <2>1, Zenon DEF OnWindow
  <2>3. send_credit \in [Ends -> [Ids -> Nat]]
    BY Zenon DEF MuxInv, MuxTyped
  <2> QED BY <2>1, <2>2, <2>3, PutIs, Zenon
<1>c. /\ send_credit' \in [Ends -> [Ids -> Nat]] /\ send_credit'[e][i] = c + n
      /\ \A d \in Ends, j \in Ids : d # e \/ j # i => send_credit'[d][j] = send_credit[d][j]
  BY <1>8, Zenon DEF Sets
<1>u. UNCHANGED <<next_id, priority, outbound, inbound, inbound_fin, recv_window,
                  sess_send, sess_recv, owed, told, sent, taken, fin_asked, was_reset>>
  BY Zenon DEF OnWindow, Arrived
<1>9. MuxTyped'
  <2>1. MuxTyped
    BY Zenon DEF MuxInv
  <2> QED BY <1>a, <1>b, <1>c, <1>u, <2>1, ZenonT(60) DEF MuxTyped
<1>10. /\ \A d \in Ends : KnownAt(d)' /\ BackedAt(d)'
       /\ \A d \in Ends, j \in Ids : Finished(d, j) => Finished(d, j)'
  <2>1. /\ \A d \in Ends : KnownAt(d)'
        /\ \A d \in Ends, j \in Ids : Finished(d, j) => Finished(d, j)'
    BY <1>3, ArrivalKnown, Zenon
  <2>2. \A d \in Ends : BackedAt(d)'
    BY <1>3, <1>u, ArrivalBacked, Zenon
  <2> QED BY <2>1, <2>2, Zenon
<1>11. ASSUME NEW d \in Ends PROVE ResetAt(d)'
  <2>0. ResetAt(d)
    BY <1>11, Zenon DEF MuxInv
  <2>1. told[d] \subseteq was_reset[d] /\ \A j \in was_reset[d] : phase[d][j] = "kClosed"
    BY <2>0, Zenon DEF ResetAt
  <2>2. was_reset[d] \subseteq Ids
    <3>1. was_reset \in [Ends -> SUBSET Ids]
      BY Zenon DEF MuxInv, MuxTyped
    <3> QED BY <1>11, <3>1, Zenon
  <2>3. ASSUME NEW j \in was_reset[d] PROVE phase'[d][j] = "kClosed"
    <3>0. j \in Ids /\ phase[d][j] = "kClosed"
      BY <2>1, <2>2, Zenon
    <3>1. CASE d = e /\ j = i
      BY <1>a, <1>p, <3>0, <3>1, Zenon DEF Known
    <3>2. CASE d # e \/ j # i
      BY <1>a, <3>0, <3>2, Zenon
    <3> QED BY <3>1, <3>2, Zenon
  <2> QED BY <1>u, <2>1, <2>3, Zenon DEF ResetAt
<1>12. \A j \in Ids : FinAt(e, j)'
  <2>1. FinAt(e, i)
    BY Zenon DEF MuxInv
  <2>2. /\ p = "kHalfClosedLocal" => i \in fin_asked[e]
        /\ p \in {"kHalfClosedRemote", "kClosed"} => inbound_fin'[e][i] \/ i \in was_reset'[e]
    BY <1>p, <1>u, <2>1, Zenon DEF FinAt
  <2>3. /\ \A d \in Ends, j \in Ids :
               d # e \/ j # i => inbound'[d][j] = inbound[d][j] /\ inbound_fin'[d][j] = inbound_fin[d][j]
        /\ was_reset[e] \subseteq was_reset'[e]
    BY <1>u, Zenon
  <2> QED BY <1>3, <2>2, <2>3, ArrivalFinOwn, Zenon
<1>13. ASSUME NEW j \in Ids PROVE FinAt(r, j)'
  <2>1. phase'[r][j] = phase[r][j]
    BY <1>0, <1>a, Zenon
  <2> QED BY <1>0, <1>10, <1>u, <2>1, ArrivalFinPeer, ZenonT(60)
<1>w. /\ \A ids : UnderWay(net'[e], ids, "DATA") = UnderWay(net[e], ids, "DATA")
      /\ \A j \in Ids : j # i => UnderWay(net'[e], {j}, "WINDOW") = UnderWay(net[e], {j}, "WINDOW")
  <2>1. \A ids : UnderWay(net'[e], ids, "DATA") = UnderWay(net[e], ids, "DATA")
    BY <1>1, <1>2, <1>b, Zenon DEF Unwired
  <2>2. \A j \in Ids : j # i => UnderWay(net'[e], {j}, "WINDOW") = UnderWay(net[e], {j}, "WINDOW")
    BY <1>1, <1>2, <1>b, Zenon DEF Unwired
  <2> QED BY <2>1, <2>2, Zenon
<1>14. ASSUME NEW j \in Ids PROVE FlowAt(r, j)'
  <2>0. FlowAt(r, j)
    BY <1>0, <1>14, Zenon DEF MuxInv
  <2>1. send_credit'[r][j] = send_credit[r][j]
    BY <1>0, <1>c, Zenon
  <2> QED BY <1>0, <1>b, <1>u, <1>w, <2>0, <2>1, FlowKept, ZenonT(60)
<1>15. ASSUME NEW j \in Ids PROVE FlowAt(e, j)'
  <2>1. CASE j = i
    BY <1>0, <1>4, <1>7, <1>b, <1>c, <1>u, <2>1, ZenonT(60) DEF FlowAt
  <2>2. CASE j # i
    <3>0. FlowAt(e, j)
      BY <1>15, Zenon DEF MuxInv
    <3>1. send_credit'[e][j] = send_credit[e][j]
      BY <1>c, <2>2, Zenon
    <3> QED BY <1>0, <1>b, <1>u, <1>w, <2>2, <3>0, <3>1, FlowKept, ZenonT(60)
  <2> QED BY <2>1, <2>2, Zenon
<1>16. AccountAt(e)' /\ AccountAt(r)'
  <2>0. AccountAt(e) /\ AccountAt(r)
    BY <1>0, Zenon DEF MuxInv
  <2>1. AccountAt(e)'
    BY <1>0, <1>b, <1>u, <2>0, AccountKept, ZenonT(60)
  <2>2. AccountAt(r)'
    BY <1>0, <1>u, <1>w, <2>0, AccountKept, ZenonT(60)
  <2> QED BY <2>1, <2>2, Zenon
<1>17. /\ \A d \in Ends : KnownAt(d)' /\ BackedAt(d)' /\ ResetAt(d)' /\ AccountAt(d)'
       /\ \A d \in Ends, j \in Ids : FinAt(d, j)' /\ FlowAt(d, j)'
  BY <1>0, <1>10, <1>11, <1>12, <1>13, <1>14, <1>15, <1>16, ZenonT(60)
<1> QED BY <1>9, <1>17, ZenonT(60) DEF MuxInv

\* A RESET frame closes the stream, and the receiver need not announce it.
LEMMA CloseMux ==
    ASSUME MuxInv, NEW e \in Ends, Arrived(e), NEW i \in Ids, i = Head(net[e]).id,
           OnReset(e, Head(net[e]), find_or_create(phase[e][i]))
    PROVE  MuxInv'
<1>0. PICK r \in Ends : r = Peer(e) /\ Peer(r) = e /\ r # e /\ \A d \in Ends : d = e \/ d = r
  BY PeerIs, Zenon
<1>1. PICK f : f = Head(net[e])
  BY Zenon
<1>2. Taken(e) /\ f.id = i /\ f.type = "RESET"
  BY <1>1, Arrival, Zenon DEF OnReset
<1>b. /\ net' \in [Ends -> Seq(Frames)] /\ net'[r] = net[r] /\ Unwired(net[e], net'[e])
  BY <1>0, <1>2, Zenon DEF Taken
<1>3. Moves(e, i, "kClosed")
  <2>1. phase' = Put(phase, e, i, "kClosed")
    BY <1>1, <1>2, Zenon DEF OnReset
  <2>2. phase \in [Ends -> [Ids -> Phases]] /\ "kClosed" \in Phases
    BY Zenon DEF MuxInv, MuxTyped, Phases
  <2>3. Sets(Phases, phase, e, i, "kClosed", phase')
    BY <2>1, <2>2, PutIs, Zenon
  <2>4. ~can_send("kClosed") /\ "kClosed" # "kNone"
    BY DEF can_send
  <2> QED BY <2>3, <2>4, Zenon DEF Moves
<1>a. /\ phase' \in [Ends -> [Ids -> Phases]] /\ phase'[e][i] = "kClosed"
      /\ \A d \in Ends, j \in Ids : d # e \/ j # i => phase'[d][j] = phase[d][j]
  BY <1>3, Zenon DEF Moves, Sets
<1>t. told \in [Ends -> SUBSET Ids] /\ was_reset \in [Ends -> SUBSET Ids]
  BY Zenon DEF MuxInv, MuxTyped
<1>4. Turns(SUBSET Ids, told, e, told[e] \cup {i}, told')
  <2>1. told' = [told EXCEPT ![e] = told[e] \cup {i}]
    BY <1>1, <1>2, Zenon DEF OnReset
  <2>2. told[e] \cup {i} \in SUBSET Ids
    BY <1>t, Zenon
  <2> QED BY <1>t, <2>1, <2>2, TurnIs, Zenon
<1>5. Turns(SUBSET Ids, was_reset, e, was_reset[e] \cup {i}, was_reset')
  <2>1. was_reset' = [was_reset EXCEPT ![e] = was_reset[e] \cup {i}]
    BY <1>1, <1>2, Zenon DEF OnReset
  <2>2. was_reset[e] \cup {i} \in SUBSET Ids
    BY <1>t, Zenon
  <2> QED BY <1>t, <2>1, <2>2, TurnIs, Zenon
<1>c. /\ told' \in [Ends -> SUBSET Ids] /\ told'[e] = told[e] \cup {i} /\ told'[r] = told[r]
      /\ was_reset' \in [Ends -> SUBSET Ids]
      /\ was_reset'[e] = was_reset[e] \cup {i} /\ was_reset'[r] = was_reset[r]
  BY <1>0, <1>4, <1>5, Zenon DEF Turns
<1>u. UNCHANGED <<next_id, priority, outbound, inbound, inbound_fin, send_credit, recv_window,
                  sess_send, sess_recv, owed, sent, taken, fin_asked>>
  BY Zenon DEF OnReset, Arrived
<1>9. MuxTyped'
  <2>1. MuxTyped
    BY Zenon DEF MuxInv
  <2> QED BY <1>a, <1>b, <1>c, <1>u, <2>1, ZenonT(60) DEF MuxTyped
<1>10. /\ \A d \in Ends : KnownAt(d)' /\ BackedAt(d)'
       /\ \A d \in Ends, j \in Ids : Finished(d, j) => Finished(d, j)'
  <2>1. /\ \A d \in Ends : KnownAt(d)'
        /\ \A d \in Ends, j \in Ids : Finished(d, j) => Finished(d, j)'
    BY <1>3, ArrivalKnown, Zenon
  <2>2. \A d \in Ends : BackedAt(d)'
    BY <1>3, <1>u, ArrivalBacked, Zenon
  <2> QED BY <2>1, <2>2, Zenon
<1>11. ResetAt(e)' /\ ResetAt(r)'
  <2>0. ResetAt(e) /\ ResetAt(r) /\ was_reset[e] \subseteq Ids /\ was_reset[r] \subseteq Ids
    BY <1>0, <1>t, Zenon DEF MuxInv
  <2>1. ASSUME NEW j \in was_reset'[e] PROVE phase'[e][j] = "kClosed"
    <3>1. CASE j = i
      BY <1>a, <3>1, Zenon
    <3>2. CASE j # i
      <4>1. j \in was_reset[e] /\ j \in Ids
        BY <1>c, <2>0, <2>1, <3>2, Zenon
      <4> QED BY <1>a, <2>0, <3>2, <4>1, Zenon DEF ResetAt
    <3> QED BY <3>1, <3>2, Zenon
  <2>2. ASSUME NEW j \in was_reset[r] PROVE phase'[r][j] = "kClosed"
    BY <1>0, <1>a, <2>0, <2>2, Zenon DEF ResetAt
  <2>3. told'[e] \subseteq was_reset'[e] /\ told'[r] \subseteq was_reset'[r]
    BY <1>c, <2>0, Zenon DEF ResetAt
  <2> QED BY <1>c, <2>1, <2>2, <2>3, Zenon DEF ResetAt
<1>12. \A j \in Ids : FinAt(e, j)'
  <2>1. /\ "kClosed" = "kHalfClosedLocal" => i \in fin_asked[e]
        /\ "kClosed" \in {"kHalfClosedRemote", "kClosed"} => inbound_fin'[e][i] \/ i \in was_reset'[e]
    BY <1>c, Zenon
  <2>2. /\ \A d \in Ends, j \in Ids :
               d # e \/ j # i => inbound'[d][j] = inbound[d][j] /\ inbound_fin'[d][j] = inbound_fin[d][j]
        /\ was_reset[e] \subseteq was_reset'[e]
    BY <1>c, <1>u, Zenon
  <2> QED BY <1>3, <2>1, <2>2, ArrivalFinOwn, Zenon
<1>13. ASSUME NEW j \in Ids PROVE FinAt(r, j)'
  <2>1. phase'[r][j] = phase[r][j] /\ was_reset'[r] = was_reset[r]
    BY <1>0, <1>a, <1>c, Zenon
  <2> QED BY <1>0, <1>10, <1>u, <2>1, ArrivalFinPeer, ZenonT(60)
<1>w. /\ \A ids : UnderWay(net'[e], ids, "DATA") = UnderWay(net[e], ids, "DATA")
      /\ \A ids : UnderWay(net'[e], ids, "WINDOW") = UnderWay(net[e], ids, "WINDOW")
  <2>1. \A ids : UnderWay(net'[e], ids, "DATA") = UnderWay(net[e], ids, "DATA")
    BY <1>1, <1>2, <1>b, Zenon DEF Unwired
  <2>2. \A ids : UnderWay(net'[e], ids, "WINDOW") = UnderWay(net[e], ids, "WINDOW")
    BY <1>1, <1>2, <1>b, Zenon DEF Unwired
  <2> QED BY <2>1, <2>2, Zenon
<1>14. ASSUME NEW j \in Ids PROVE FlowAt(r, j)' /\ FlowAt(e, j)'
  <2>0. FlowAt(r, j) /\ FlowAt(e, j)
    BY <1>0, <1>14, Zenon DEF MuxInv
  <2>1. j \in was_reset[e] => j \in was_reset'[e]
    BY <1>c, Zenon
  <2>2. FlowAt(r, j)'
    BY <1>0, <1>b, <1>u, <1>w, <2>0, <2>1, FlowKept, ZenonT(60)
  <2>3. FlowAt(e, j)'
    BY <1>0, <1>b, <1>c, <1>u, <1>w, <2>0, FlowKept, ZenonT(60)
  <2> QED BY <2>2, <2>3, Zenon
<1>16. AccountAt(e)' /\ AccountAt(r)'
  <2>0. AccountAt(e) /\ AccountAt(r)
    BY <1>0, Zenon DEF MuxInv
  <2>1. AccountAt(e)'
    BY <1>0, <1>b, <1>u, <2>0, AccountKept, ZenonT(60)
  <2>2. AccountAt(r)'
    BY <1>0, <1>u, <1>w, <2>0, AccountKept, ZenonT(60)
  <2> QED BY <2>1, <2>2, Zenon
<1>17. /\ \A d \in Ends : KnownAt(d)' /\ BackedAt(d)' /\ ResetAt(d)' /\ AccountAt(d)'
       /\ \A d \in Ends, j \in Ids : FinAt(d, j)' /\ FlowAt(d, j)'
  BY <1>0, <1>10, <1>11, <1>12, <1>13, <1>14, <1>16, ZenonT(60)
<1> QED BY <1>9, <1>17, ZenonT(60) DEF MuxInv

\* What a DATA frame meets: both windows have room for it, and only a reset stream drops it.
DataFits(e, r, i, n, p) ==
    /\ n \in Nat /\ n <= recv_window[e][i] /\ n <= sess_recv[e]
    /\ ~can_recv(p) <=> i \in was_reset[e]
    /\ Ledger(send_credit[r][i], Total(outbound[r][i]),
              UnderWay(net'[e], {i}, "DATA"), UnderWay(net[r], {i}, "WINDOW"),
              owed[e][i], recv_window[e][i] - n, inbound[e][i] + n,
              sent[r][i], taken[e][i], i \notin was_reset[e])
    /\ i \in was_reset[e] =>
           Ledger(send_credit[r][i], Total(outbound[r][i]),
                  UnderWay(net'[e], {i}, "DATA"), UnderWay(net[r], {i}, "WINDOW"),
                  owed[e][i], recv_window[e][i], inbound[e][i],
                  sent[r][i], taken[e][i], i \notin was_reset[e])
    /\ Account(sess_send[r], Total(Queues(outbound[r])), UnderWay(net'[e], Ids, "DATA"),
               sess_recv[e] - n, Total(inbound[e]) + n)
    /\ Account(sess_send[r], Total(Queues(outbound[r])), UnderWay(net'[e], Ids, "DATA"),
               sess_recv[e], Total(inbound[e]))
    /\ \A ids : UnderWay(net'[e], ids, "WINDOW") = UnderWay(net[e], ids, "WINDOW")
    /\ \A j \in Ids : j # i => UnderWay(net'[e], {j}, "DATA") = UnderWay(net[e], {j}, "DATA")
    /\ ~inbound_fin[e][i]

LEMMA DataFitsIn ==
    ASSUME MuxInv, NEW e \in Ends, Arrived(e), NEW i \in Ids, i = Head(net[e]).id,
           Head(net[e]).type = "DATA", NEW r \in Ends, r = Peer(e), NEW n, n = Head(net[e]).len,
           NEW p, p = find_or_create(phase[e][i])
    PROVE  DataFits(e, r, i, n, p)
<1>0. Peer(r) = e /\ r # e /\ Taken(e) /\ n \in Nat
  BY PeerIs, Arrival, Zenon DEF Taken
<1>b. Unwired(net[e], net'[e]) /\ net'[e] \in Seq(Frames)
  BY <1>0, Zenon DEF Taken
<1>1. PICK m, D \in Nat : m = UnderWay(net'[e], {i}, "DATA") /\ D = UnderWay(net'[e], Ids, "DATA")
  BY <1>b, UnderWayNat, Zenon
<1>2. UnderWay(net[e], {i}, "DATA") = n + m /\ UnderWay(net[e], Ids, "DATA") = n + D
  <2>1. UnderWay(net[e], {i}, "DATA") = n + m
    BY <1>1, <1>b, Zenon DEF Unwired
  <2>2. UnderWay(net[e], Ids, "DATA") = n + D
    BY <1>1, <1>b, Zenon DEF Unwired
  <2> QED BY <2>1, <2>2, Zenon
<1>3. /\ \A ids : UnderWay(net'[e], ids, "WINDOW") = UnderWay(net[e], ids, "WINDOW")
      /\ \A j \in Ids : j # i => UnderWay(net'[e], {j}, "DATA") = UnderWay(net[e], {j}, "DATA")
  <2>1. \A ids : UnderWay(net'[e], ids, "WINDOW") = UnderWay(net[e], ids, "WINDOW")
    BY <1>b, Zenon DEF Unwired
  <2>2. \A j \in Ids : j # i => UnderWay(net'[e], {j}, "DATA") = UnderWay(net[e], {j}, "DATA")
    BY <1>b, Zenon DEF Unwired
  <2> QED BY <2>1, <2>2, Zenon
<1>4. FlowAt(r, i) /\ AccountAt(r) /\ FinAt(e, i) /\ FinAt(r, i) /\ ResetAt(e)
  BY Zenon DEF MuxInv
<1>5. ~inbound_fin[e][i]
  <2>1. DataOf(net[e][1], i) /\ 1 \in 1..Len(net[e])
    BY <1>0, Zenon DEF DataOf, Taken
  <2> QED BY <1>0, <1>4, <2>1, Zenon DEF FinAt
<1>6. ~can_recv(p) <=> i \in was_reset[e]
  <2>1. /\ phase \in [Ends -> [Ids -> Phases]] /\ p \in Phases /\ p # "kNone"
        /\ Known(e, i) => p = phase[e][i]
        /\ p = "kOpen" \/ Known(e, i)
    BY Created, Zenon
  <2>2. ASSUME ~can_recv(p) PROVE i \in was_reset[e]
    <3>1. p \in {"kHalfClosedRemote", "kClosed"}
      BY <2>1, <2>2 DEF can_recv, Phases
    <3>2. p = phase[e][i]
      BY <2>1, <3>1
    <3> QED BY <1>4, <1>5, <3>1, <3>2, Zenon DEF FinAt
  <2>3. ASSUME i \in was_reset[e] PROVE ~can_recv(p)
    <3>1. phase[e][i] = "kClosed"
      BY <1>4, <2>3, Zenon DEF ResetAt
    <3>2. p = "kClosed"
      BY <2>1, <3>1, Zenon DEF Known
    <3> QED BY <3>2, Zenon DEF can_recv
  <2> QED BY <2>2, <2>3, Zenon
<1>7. PICK c, q, w, o, R, B, s, t, whole :
          /\ c = send_credit[r][i] /\ q = Total(outbound[r][i]) /\ w = UnderWay(net[r], {i}, "WINDOW")
          /\ o = owed[e][i] /\ R = recv_window[e][i] /\ B = inbound[e][i]
          /\ s = sent[r][i] /\ t = taken[e][i] /\ whole = (i \notin was_reset[e])
  BY Zenon
<1>8. Ledger(c, q, n + m, w, o, R, B, s, t, whole)
  BY <1>0, <1>2, <1>4, <1>7, Zenon DEF FlowAt
<1>9. /\ n <= R
      /\ Ledger(c, q, m, w, o, R - n, B + n, s, t, whole)
      /\ ~whole => Ledger(c, q, m, w, o, R, B, s, t, whole)
  <2>1. n \in Nat /\ m \in Nat
    BY <1>0, <1>1, Zenon
  <2>2. n <= R /\ Ledger(c, q, m, w, o, R - n, B + n, s, t, whole)
    BY <1>8, <2>1, LedgerReceive, Zenon
  <2>3. ~whole => Ledger(c, q, m, w, o, R, B, s, t, whole)
    BY <1>8, <2>1, LedgerReceive, Zenon
  <2> QED BY <2>2, <2>3, Zenon
<1>10. PICK a, Q, S, T : /\ a = sess_send[r] /\ Q = Total(Queues(outbound[r]))
                         /\ S = sess_recv[e] /\ T = Total(inbound[e])
  BY Zenon
<1>11. Account(a, Q, n + D, S, T)
  BY <1>0, <1>2, <1>4, <1>10, Zenon DEF AccountAt
<1>12. n <= S /\ Account(a, Q, D, S - n, T + n) /\ Account(a, Q, D, S, T)
  BY <1>0, <1>1, <1>11, AccountReceive, Zenon
<1>13. /\ n <= recv_window[e][i]
       /\ Ledger(send_credit[r][i], Total(outbound[r][i]),
                 UnderWay(net'[e], {i}, "DATA"), UnderWay(net[r], {i}, "WINDOW"),
                 owed[e][i], recv_window[e][i] - n, inbound[e][i] + n,
                 sent[r][i], taken[e][i], i \notin was_reset[e])
       /\ i \in was_reset[e] =>
              Ledger(send_credit[r][i], Total(outbound[r][i]),
                     UnderWay(net'[e], {i}, "DATA"), UnderWay(net[r], {i}, "WINDOW"),
                     owed[e][i], recv_window[e][i], inbound[e][i],
                     sent[r][i], taken[e][i], i \notin was_reset[e])
  BY <1>1, <1>7, <1>9, Zenon
<1>14. /\ n <= sess_recv[e]
       /\ Account(sess_send[r], Total(Queues(outbound[r])), UnderWay(net'[e], Ids, "DATA"),
                  sess_recv[e] - n, Total(inbound[e]) + n)
       /\ Account(sess_send[r], Total(Queues(outbound[r])), UnderWay(net'[e], Ids, "DATA"),
                  sess_recv[e], Total(inbound[e]))
  BY <1>1, <1>10, <1>12, Zenon
<1> QED BY <1>0, <1>3, <1>5, <1>6, <1>13, <1>14, ZenonT(60) DEF DataFits

\* A DATA frame of a stream the receiver has reset is dropped.
LEMMA DropMux ==
    ASSUME MuxInv, NEW e \in Ends, Arrived(e), NEW i \in Ids, i = Head(net[e]).id,
           OnData(e, Head(net[e]), find_or_create(phase[e][i])), i \in was_reset[e]
    PROVE  MuxInv'
<1>0. PICK r \in Ends : r = Peer(e) /\ Peer(r) = e /\ r # e /\ \A d \in Ends : d = e \/ d = r
  BY PeerIs, Zenon
<1>1. PICK n, p : n = Head(net[e]).len /\ p = find_or_create(phase[e][i])
  BY Zenon
<1>2. DataFits(e, r, i, n, p)
  BY <1>0, <1>1, DataFitsIn, Zenon DEF OnData
<1>b. /\ net' \in [Ends -> Seq(Frames)] /\ net'[r] = net[r] /\ Unwired(net[e], net'[e])
  BY <1>0, Arrival, Zenon DEF Taken
<1>3. ~can_recv(p)
  BY <1>2, Zenon DEF DataFits
<1>u. UNCHANGED <<next_id, priority, outbound, inbound, inbound_fin, send_credit, recv_window,
                  sess_send, sess_recv, owed, told, sent, taken, fin_asked, was_reset>>
  BY <1>1, <1>3, Zenon DEF OnData, Arrived
<1>4. phase' = phase
  <2>1. phase' = Put(phase, e, i, p)
    BY <1>1, <1>3, Zenon DEF OnData
  <2>2. p = phase[e][i] /\ phase \in [Ends -> [Ids -> Phases]]
    <3>1. ResetAt(e)
      BY Zenon DEF MuxInv
    <3>2. Known(e, i)
      BY <3>1, Zenon DEF ResetAt, Known
    <3> QED BY <1>1, <3>2, Created, Zenon
  <2>3. p \in Phases
    BY <2>2, Zenon
  <2>4. Sets(Phases, phase, e, i, p, phase')
    BY <2>1, <2>2, <2>3, PutIs, Zenon
  <2>5. phase' \in [Ends -> [Ids -> Phases]] /\ \A d \in Ends, j \in Ids : phase'[d][j] = phase[d][j]
    BY <2>2, <2>4, Zenon DEF Sets
  <2>6. ASSUME NEW d \in Ends PROVE phase'[d] = phase[d]
    <3>1. /\ phase'[d] \in [Ids -> Phases] /\ phase[d] \in [Ids -> Phases]
          /\ \A j \in Ids : phase'[d][j] = phase[d][j]
      BY <2>2, <2>5, <2>6, Zenon
    <3> QED BY <3>1
  <2> QED BY <2>2, <2>5, <2>6
<1>5. MuxTyped'
  <2>1. MuxTyped
    BY Zenon DEF MuxInv
  <2> QED BY <1>4, <1>b, <1>u, <2>1, ZenonT(60) DEF MuxTyped
<1>6. Moves(e, i, p)
  <2>1. phase' = Put(phase, e, i, p)
    BY <1>1, <1>3, Zenon DEF OnData
  <2>2. /\ phase \in [Ends -> [Ids -> Phases]] /\ p \in Phases /\ p # "kNone"
        /\ Known(e, i) /\ ~can_send(phase[e][i]) => ~can_send(p)
    BY <1>1, Created, Zenon
  <2>3. Sets(Phases, phase, e, i, p, phase')
    BY <2>1, <2>2, PutIs, Zenon
  <2> QED BY <2>2, <2>3, Zenon DEF Moves
<1>7. /\ \A d \in Ends : KnownAt(d)' /\ BackedAt(d)' /\ ResetAt(d)'
      /\ \A d \in Ends, j \in Ids : Finished(d, j) => Finished(d, j)'
  <2>1. /\ \A d \in Ends : KnownAt(d)'
        /\ \A d \in Ends, j \in Ids : Finished(d, j) => Finished(d, j)'
    BY <1>6, ArrivalKnown, Zenon
  <2>2. \A d \in Ends : BackedAt(d)'
    BY <1>6, <1>u, ArrivalBacked, Zenon
  <2>3. \A d \in Ends : ResetAt(d)'
    BY <1>4, <1>u, Zenon DEF MuxInv, ResetAt
  <2> QED BY <2>1, <2>2, <2>3, Zenon
<1>8. ASSUME NEW j \in Ids PROVE FinAt(e, j)' /\ FinAt(r, j)'
  <2>1. FinAt(r, j)'
    BY <1>0, <1>4, <1>7, <1>u, ArrivalFinPeer, ZenonT(60)
  <2>2. FinAt(e, j)
    BY <1>8, Zenon DEF MuxInv
  <2>3. Finished(e, j)' <=> Finished(e, j)
    BY <1>4, <1>u, Zenon DEF Finished, Known
  <2>4. FinAt(e, j)'
    BY <1>0, <1>4, <1>b, <1>u, <2>2, <2>3, ZenonT(60) DEF FinAt, LastData
  <2> QED BY <2>1, <2>4, Zenon
<1>9. ASSUME NEW j \in Ids PROVE FlowAt(e, j)' /\ FlowAt(r, j)'
  <2>0. FlowAt(e, j) /\ FlowAt(r, j)
    BY <1>0, <1>9, Zenon DEF MuxInv
  <2>1. FlowAt(e, j)'
    <3>1. UnderWay(net'[e], {j}, "WINDOW") = UnderWay(net[e], {j}, "WINDOW")
      BY <1>2, Zenon DEF DataFits
    <3> QED BY <1>0, <1>b, <1>u, <2>0, <3>1, FlowKept, ZenonT(60)
  <2>2. CASE j # i
    <3>1. UnderWay(net'[e], {j}, "DATA") = UnderWay(net[e], {j}, "DATA")
      BY <1>2, <2>2, Zenon DEF DataFits
    <3> QED BY <1>0, <1>b, <1>u, <2>0, <2>1, <3>1, FlowKept, ZenonT(60)
  <2>3. CASE j = i
    <3>1. Ledger(send_credit[r][i], Total(outbound[r][i]),
                 UnderWay(net'[e], {i}, "DATA"), UnderWay(net[r], {i}, "WINDOW"),
                 owed[e][i], recv_window[e][i], inbound[e][i],
                 sent[r][i], taken[e][i], i \notin was_reset[e])
      BY <1>2, Zenon DEF DataFits
    <3>2. FlowAt(r, i)'
      BY <1>0, <1>b, <1>u, <3>1, ZenonT(60) DEF FlowAt
    <3> QED BY <2>1, <2>3, <3>2, Zenon
  <2> QED BY <2>2, <2>3, Zenon
<1>10. AccountAt(e)' /\ AccountAt(r)'
  <2>0. AccountAt(e)
    BY Zenon DEF MuxInv
  <2>1. AccountAt(e)'
    BY <1>0, <1>b, <1>u, <2>0, AccountKept, ZenonT(60)
  <2>2. Account(sess_send[r], Total(Queues(outbound[r])), UnderWay(net'[e], Ids, "DATA"),
                sess_recv[e], Total(inbound[e]))
    BY <1>2, Zenon DEF DataFits
  <2>3. AccountAt(r)'
    BY <1>0, <1>u, <2>2, ZenonT(60) DEF AccountAt
  <2> QED BY <2>1, <2>3, Zenon
<1>11. /\ \A d \in Ends : KnownAt(d)' /\ BackedAt(d)' /\ ResetAt(d)' /\ AccountAt(d)'
       /\ \A d \in Ends, j \in Ids : FinAt(d, j)' /\ FlowAt(d, j)'
  BY <1>0, <1>7, <1>8, <1>9, <1>10, ZenonT(60)
<1> QED BY <1>5, <1>11, ZenonT(60) DEF MuxInv

\* When the FIN arrives every byte has.
AllHere(e, r, i, n) ==
    /\ Finished(r, i) /\ taken[e][i] + (inbound[e][i] + n) = sent[r][i]
    /\ \A k \in 1..Len(net'[e]) : ~DataOf(net'[e][k], i)

LEMMA LastArrival ==
    ASSUME MuxInv, NEW e \in Ends, Arrived(e), NEW i \in Ids, i = Head(net[e]).id,
           Head(net[e]).type = "DATA", Head(net[e]).fin, i \notin was_reset[e],
           NEW r \in Ends, r = Peer(e), NEW n, n = Head(net[e]).len
    PROVE  AllHere(e, r, i, n)
<1>p. PICK p : p = find_or_create(phase[e][i])
  BY Zenon
<1>0. Peer(r) = e /\ Taken(e) /\ DataFits(e, r, i, n, p)
  BY <1>p, PeerIs, Arrival, DataFitsIn, Zenon
<1>1. /\ net[e] \in Seq(Frames) /\ net'[e] \in Seq(Frames) /\ Unwired(net[e], net'[e])
      /\ 1 \in 1..Len(net[e]) /\ DataOf(net[e][1], i) /\ net[e][1].fin
  BY <1>0, Zenon DEF Taken, DataOf
<1>2. Finished(r, i) /\ \A k \in 1 + 1..Len(net[e]) : ~DataOf(net[e][k], i)
  <2>1. FinAt(r, i)
    BY Zenon DEF MuxInv
  <2> QED BY <1>0, <1>1, <2>1, Zenon DEF FinAt, LastData
<1>3. ASSUME NEW k \in 1..Len(net'[e]), DataOf(net'[e][k], i) PROVE FALSE
  <2>1. k + 1 \in 1..Len(net[e]) /\ net'[e][k] = net[e][k + 1]
    BY <1>1, Zenon DEF Unwired
  <2>2. Len(net[e]) \in Nat /\ Len(net'[e]) \in Nat
    BY <1>1
  <2>3. k + 1 \in 1 + 1..Len(net[e])
    BY <2>1, <2>2
  <2> QED BY <1>2, <1>3, <2>1, <2>3, Zenon
<1>4. UnderWay(net'[e], {i}, "DATA") = 0
  <2>1. \A k \in 1..Len(net'[e]) : ~(net'[e][k].type = "DATA" /\ net'[e][k].id \in {i})
    BY <1>3, Zenon DEF DataOf
  <2> QED BY <1>1, <2>1, UnderWayNone, Zenon
<1>5. Total(outbound[r][i]) = 0
  <2>1. outbound[r][i] = <<>>
    BY <1>2, Zenon DEF Finished
  <2> QED BY <2>1, TotalEmpty, Zenon
<1>6. PICK s, t, B : s = sent[r][i] /\ t = taken[e][i] /\ B = inbound[e][i] + n
  BY Zenon
<1>7. s \in Nat /\ t \in Nat /\ B \in Nat /\ s = t + B + 0 + 0
  <2>1. Ledger(send_credit[r][i], 0, 0, UnderWay(net[r], {i}, "WINDOW"),
               owed[e][i], recv_window[e][i] - n, B, s, t, i \notin was_reset[e])
    BY <1>0, <1>4, <1>5, <1>6, Zenon DEF DataFits
  <2> QED BY <2>1, Zenon DEF Ledger
<1>8. t + B = s
  BY <1>7
<1> QED BY <1>2, <1>3, <1>6, <1>8, Zenon DEF AllHere

\* The phase after a DATA frame was accepted.
LEMMA Received ==
    ASSUME MuxInv, NEW e \in Ends, NEW i \in Ids, NEW p, p = find_or_create(phase[e][i]), can_recv(p),
           NEW fin \in BOOLEAN, NEW q, q = IF fin THEN on_recv_fin(p) ELSE p
    PROVE  /\ q \in Phases /\ q # "kNone"
           /\ Known(e, i) /\ ~can_send(phase[e][i]) => ~can_send(q)
           /\ q = "kHalfClosedLocal" => i \in fin_asked[e]
           /\ q \in {"kHalfClosedRemote", "kClosed"} => fin
<1>1. /\ phase \in [Ends -> [Ids -> Phases]] /\ p \in Phases
      /\ Known(e, i) => p = phase[e][i]
      /\ p = "kOpen" \/ Known(e, i)
  BY Created, Zenon
<1>2. p \in {"kOpen", "kHalfClosedLocal"}
  BY Zenon DEF can_recv
<1>3. /\ on_recv_fin("kOpen") = "kHalfClosedRemote" /\ on_recv_fin("kHalfClosedLocal") = "kClosed"
  BY DEF on_recv_fin
<1>4. /\ q = "kHalfClosedLocal" => p = "kHalfClosedLocal"
      /\ q \in {"kHalfClosedRemote", "kClosed"} => fin
      /\ q \in {"kOpen", "kHalfClosedLocal", "kHalfClosedRemote", "kClosed"}
      /\ p = "kHalfClosedLocal" => q \in {"kHalfClosedLocal", "kClosed"}
  BY <1>2, <1>3
<1>5. q \in Phases /\ q # "kNone"
  BY <1>4 DEF Phases
<1>6. Known(e, i) /\ ~can_send(phase[e][i]) => ~can_send(q)
  <2>1. Known(e, i) /\ ~can_send(phase[e][i]) => p = "kHalfClosedLocal"
    BY <1>1, <1>2, Zenon DEF can_send
  <2>2. q \in {"kHalfClosedLocal", "kClosed"} => ~can_send(q)
    BY DEF can_send
  <2> QED BY <1>4, <2>1, <2>2, Zenon
<1>7. q = "kHalfClosedLocal" => i \in fin_asked[e]
  <2>1. FinAt(e, i)
    BY Zenon DEF MuxInv
  <2>2. q = "kHalfClosedLocal" => phase[e][i] = "kHalfClosedLocal"
    BY <1>1, <1>4
  <2> QED BY <2>1, <2>2, Zenon DEF FinAt
<1> QED BY <1>4, <1>5, <1>6, <1>7, Zenon

\* Any other DATA frame is taken: both windows are charged, and its FIN closes this side.
LEMMA AcceptMux ==
    ASSUME MuxInv, NEW e \in Ends, Arrived(e), NEW i \in Ids, i = Head(net[e]).id,
           OnData(e, Head(net[e]), find_or_create(phase[e][i])), i \notin was_reset[e]
    PROVE  MuxInv'
<1>0. PICK r \in Ends : r = Peer(e) /\ Peer(r) = e /\ r # e /\ \A d \in Ends : d = e \/ d = r
  BY PeerIs, Zenon
<1>1. PICK n, p, fin : n = Head(net[e]).len /\ p = find_or_create(phase[e][i]) /\ fin = Head(net[e]).fin
  BY Zenon
<1>2. PICK q : q = IF fin THEN on_recv_fin(p) ELSE p
  BY Zenon
<1>b. /\ net' \in [Ends -> Seq(Frames)] /\ net'[r] = net[r] /\ Unwired(net[e], net'[e])
      /\ fin \in BOOLEAN
  <2>1. Taken(e)
    BY Arrival, Zenon
  <2>2. Head(net[e]).fin \in BOOLEAN
    BY <2>1, Zenon DEF Taken, Frames
  <2> QED BY <1>0, <1>1, <2>1, <2>2, Zenon DEF Taken
<1>3. DataFits(e, r, i, n, p) /\ can_recv(p)
  <2>1. DataFits(e, r, i, n, p)
    BY <1>0, <1>1, DataFitsIn, Zenon DEF OnData
  <2> QED BY <2>1, Zenon DEF DataFits
<1>q. /\ q \in Phases /\ q # "kNone"
      /\ Known(e, i) /\ ~can_send(phase[e][i]) => ~can_send(q)
      /\ q = "kHalfClosedLocal" => i \in fin_asked[e]
      /\ q \in {"kHalfClosedRemote", "kClosed"} => fin
  BY <1>1, <1>2, <1>3, <1>b, Received, Zenon
<1>4. /\ recv_window' = Put(recv_window, e, i, recv_window[e][i] - n)
      /\ sess_recv' = [sess_recv EXCEPT ![e] = sess_recv[e] - n]
      /\ inbound' = Put(inbound, e, i, inbound[e][i] + n)
      /\ inbound_fin' = IF fin THEN Put(inbound_fin, e, i, TRUE) ELSE inbound_fin
      /\ phase' = Put(phase, e, i, q)
  <2>1. n <= recv_window[e][i] /\ n <= sess_recv[e]
    BY <1>3, Zenon DEF DataFits
  <2> QED BY <1>1, <1>2, <1>3, <2>1, ZenonT(60) DEF OnData
<1>u. UNCHANGED <<next_id, priority, outbound, send_credit, sess_send, owed, told, sent, taken,
                  fin_asked, was_reset>>
  BY Zenon DEF OnData, Arrived
<1>t. /\ phase \in [Ends -> [Ids -> Phases]] /\ inbound \in [Ends -> [Ids -> Nat]]
      /\ inbound_fin \in [Ends -> [Ids -> BOOLEAN]] /\ recv_window \in [Ends -> [Ids -> Nat]]
      /\ sess_recv \in [Ends -> Nat]
  BY Zenon DEF MuxInv, MuxTyped
<1>5. Moves(e, i, q)
  <2>1. Sets(Phases, phase, e, i, q, phase')
    BY <1>4, <1>q, <1>t, PutIs, Zenon
  <2> QED BY <1>q, <2>1, Zenon DEF Moves
<1>a. /\ phase' \in [Ends -> [Ids -> Phases]]
      /\ \A d \in Ends, j \in Ids : d # e \/ j # i => phase'[d][j] = phase[d][j]
  BY <1>5, Zenon DEF Moves, Sets
<1>6. recv_window[e][i] - n \in Nat /\ inbound[e][i] + n \in Nat /\ sess_recv[e] - n \in Nat
  <2>1. Ledger(send_credit[r][i], Total(outbound[r][i]),
               UnderWay(net'[e], {i}, "DATA"), UnderWay(net[r], {i}, "WINDOW"),
               owed[e][i], recv_window[e][i] - n, inbound[e][i] + n,
               sent[r][i], taken[e][i], i \notin was_reset[e])
    BY <1>3, Zenon DEF DataFits
  <2>2. recv_window[e][i] - n \in Nat /\ inbound[e][i] + n \in Nat
    BY <2>1, Zenon DEF Ledger
  <2>3. Account(sess_send[r], Total(Queues(outbound[r])), UnderWay(net'[e], Ids, "DATA"),
                sess_recv[e] - n, Total(inbound[e]) + n)
    BY <1>3, Zenon DEF DataFits
  <2>4. sess_recv[e] - n \in Nat
    BY <2>3, Zenon DEF Account
  <2> QED BY <2>2, <2>4, Zenon
<1>c. /\ recv_window' \in [Ends -> [Ids -> Nat]] /\ recv_window'[e][i] = recv_window[e][i] - n
      /\ \A d \in Ends, j \in Ids : d # e \/ j # i => recv_window'[d][j] = recv_window[d][j]
  <2>1. Sets(Nat, recv_window, e, i, recv_window[e][i] - n, recv_window')
    BY <1>4, <1>6, <1>t, PutIs, Zenon
  <2> QED BY <2>1, Zenon DEF Sets
<1>d. /\ inbound' \in [Ends -> [Ids -> Nat]] /\ inbound'[e][i] = inbound[e][i] + n
      /\ \A d \in Ends, j \in Ids : d # e \/ j # i => inbound'[d][j] = inbound[d][j]
  <2>1. Sets(Nat, inbound, e, i, inbound[e][i] + n, inbound')
    BY <1>4, <1>6, <1>t, PutIs, Zenon
  <2> QED BY <2>1, Zenon DEF Sets
<1>f. /\ inbound_fin' \in [Ends -> [Ids -> BOOLEAN]] /\ (inbound_fin'[e][i] <=> fin)
      /\ \A d \in Ends, j \in Ids : d # e \/ j # i => inbound_fin'[d][j] = inbound_fin[d][j]
  <2>1. CASE fin
    <3>1. Sets(BOOLEAN, inbound_fin, e, i, TRUE, inbound_fin')
      <4>1. inbound_fin' = Put(inbound_fin, e, i, TRUE) /\ TRUE \in BOOLEAN
        BY <1>4, <2>1, Zenon
      <4> QED BY <1>t, <4>1, PutIs, Zenon
    <3> QED BY <2>1, <3>1, Zenon DEF Sets
  <2>2. CASE ~fin
    <3>1. inbound_fin' = inbound_fin /\ ~inbound_fin[e][i]
      BY <1>3, <1>4, <2>2, Zenon DEF DataFits
    <3> QED BY <1>t, <2>2, <3>1, Zenon
  <2> QED BY <2>1, <2>2, Zenon
<1>g. /\ sess_recv' \in [Ends -> Nat] /\ sess_recv'[e] = sess_recv[e] - n /\ sess_recv'[r] = sess_recv[r]
  <2>1. Turns(Nat, sess_recv, e, sess_recv[e] - n, sess_recv')
    BY <1>4, <1>6, <1>t, TurnIs, Zenon
  <2> QED BY <1>0, <2>1, Zenon DEF Turns
<1>7. MuxTyped'
  <2>1. MuxTyped
    BY Zenon DEF MuxInv
  <2> QED BY <1>a, <1>b, <1>c, <1>d, <1>f, <1>g, <1>u, <2>1, ZenonT(60) DEF MuxTyped
<1>8. /\ \A d \in Ends : KnownAt(d)' /\ BackedAt(d)'
      /\ \A d \in Ends, j \in Ids : Finished(d, j) => Finished(d, j)'
  <2>1. /\ \A d \in Ends : KnownAt(d)'
        /\ \A d \in Ends, j \in Ids : Finished(d, j) => Finished(d, j)'
    BY <1>5, ArrivalKnown, Zenon
  <2>2. \A d \in Ends : BackedAt(d)'
    BY <1>5, <1>d, ArrivalBacked, Zenon
  <2> QED BY <2>1, <2>2, Zenon
<1>9. ASSUME NEW d \in Ends PROVE ResetAt(d)'
  <2>0. ResetAt(d) /\ was_reset[d] \subseteq Ids
    <3>1. was_reset \in [Ends -> SUBSET Ids]
      BY Zenon DEF MuxInv, MuxTyped
    <3> QED BY <1>9, <3>1, Zenon DEF MuxInv
  <2>1. ASSUME NEW j \in was_reset[d] PROVE phase'[d][j] = "kClosed"
    <3>1. d # e \/ j # i
      BY <2>1, Zenon
    <3>2. j \in Ids /\ phase[d][j] = "kClosed"
      BY <2>0, <2>1, Zenon DEF ResetAt
    <3> QED BY <1>a, <1>9, <3>1, <3>2, Zenon
  <2> QED BY <1>u, <2>0, <2>1, Zenon DEF ResetAt
<1>10. \A j \in Ids : FinAt(e, j)'
  <2>1. /\ q = "kHalfClosedLocal" => i \in fin_asked[e]
        /\ q \in {"kHalfClosedRemote", "kClosed"} => inbound_fin'[e][i] \/ i \in was_reset'[e]
    BY <1>f, <1>q, Zenon
  <2>2. /\ \A d \in Ends, j \in Ids :
               d # e \/ j # i => inbound'[d][j] = inbound[d][j] /\ inbound_fin'[d][j] = inbound_fin[d][j]
        /\ was_reset[e] \subseteq was_reset'[e]
    BY <1>d, <1>f, <1>u, Zenon
  <2> QED BY <1>5, <2>1, <2>2, ArrivalFinOwn, Zenon
<1>11. ASSUME NEW j \in Ids PROVE FinAt(r, j)'
  <2>0. /\ phase'[r][j] = phase[r][j] /\ inbound_fin'[r][j] = inbound_fin[r][j]
        /\ was_reset'[r] = was_reset[r] /\ (Finished(r, j) => Finished(r, j)')
    BY <1>0, <1>8, <1>a, <1>f, <1>u, Zenon
  <2>1. CASE j # i \/ ~fin
    <3>1. inbound_fin'[e][j] => inbound_fin[e][j] /\ inbound'[e][j] = inbound[e][j]
      BY <1>d, <1>f, <2>1, Zenon
    <3> QED BY <1>0, <2>0, <3>1, ArrivalFinPeer, ZenonT(60)
  <2>2. CASE j = i /\ fin
    <3>1. /\ Finished(r, i) /\ taken[e][i] + (inbound[e][i] + n) = sent[r][i]
          /\ \A k \in 1..Len(net'[e]) : ~DataOf(net'[e][k], i)
      <4>1. Head(net[e]).type = "DATA" /\ Head(net[e]).fin
        BY <1>1, <2>2, Zenon DEF OnData
      <4>2. AllHere(e, r, i, n)
        BY <1>0, <1>1, <4>1, LastArrival, Zenon
      <4> QED BY <4>2, Zenon DEF AllHere
    <3>2. FinAt(r, i) /\ net[e] \in Seq(Frames)
      BY Arrival, Zenon DEF MuxInv, Taken
    <3>3. LastData(r, i)'
      BY <1>0, <1>b, <2>0, <2>2, <3>2, FinBehind, Zenon DEF FinAt
    <3>4. /\ phase'[r][i] = "kHalfClosedLocal" => i \in fin_asked'[r]
          /\ phase'[r][i] \in {"kHalfClosedRemote", "kClosed"} => inbound_fin'[r][i] \/ i \in was_reset'[r]
      BY <1>u, <2>0, <2>2, <3>2, Zenon DEF FinAt
    <3>5. /\ Finished(r, i)' /\ taken'[e][i] + inbound'[e][i] = sent'[r][i]
      BY <1>d, <1>u, <2>0, <2>2, <3>1, Zenon
    <3> QED BY <1>0, <2>2, <3>1, <3>3, <3>4, <3>5, ZenonT(60) DEF FinAt
  <2> QED BY <2>1, <2>2, Zenon
<1>12. ASSUME NEW j \in Ids PROVE FlowAt(e, j)'
  <2>0. FlowAt(e, j)
    BY <1>12, Zenon DEF MuxInv
  <2>1. UnderWay(net'[e], {j}, "WINDOW") = UnderWay(net[e], {j}, "WINDOW")
    BY <1>3, Zenon DEF DataFits
  <2>2. recv_window'[r][j] = recv_window[r][j] /\ inbound'[r][j] = inbound[r][j]
    BY <1>0, <1>c, <1>d, Zenon
  <2> QED BY <1>0, <1>b, <1>u, <2>0, <2>1, <2>2, FlowKept, ZenonT(60)
<1>13. ASSUME NEW j \in Ids PROVE FlowAt(r, j)'
  <2>0. FlowAt(r, j)
    BY <1>0, <1>13, Zenon DEF MuxInv
  <2>1. CASE j # i
    <3>1. /\ UnderWay(net'[e], {j}, "DATA") = UnderWay(net[e], {j}, "DATA")
          /\ recv_window'[e][j] = recv_window[e][j] /\ inbound'[e][j] = inbound[e][j]
      BY <1>3, <1>c, <1>d, <2>1, Zenon DEF DataFits
    <3> QED BY <1>0, <1>b, <1>u, <2>0, <3>1, FlowKept, ZenonT(60)
  <2>2. CASE j = i
    <3>1. Ledger(send_credit[r][i], Total(outbound[r][i]),
                 UnderWay(net'[e], {i}, "DATA"), UnderWay(net[r], {i}, "WINDOW"),
                 owed[e][i], recv_window[e][i] - n, inbound[e][i] + n,
                 sent[r][i], taken[e][i], i \notin was_reset[e])
      BY <1>3, Zenon DEF DataFits
    <3> QED BY <1>0, <1>b, <1>c, <1>d, <1>u, <2>2, <3>1, ZenonT(60) DEF FlowAt
  <2> QED BY <2>1, <2>2, Zenon
<1>14. AccountAt(e)'
  <2>0. AccountAt(e)
    BY Zenon DEF MuxInv
  <2>1. inbound'[r] = inbound[r]
    <3>1. inbound'[r] \in [Ids -> Nat] /\ inbound[r] \in [Ids -> Nat]
      BY <1>0, <1>d, <1>t, Zenon
    <3>2. \A j \in Ids : inbound'[r][j] = inbound[r][j]
      BY <1>0, <1>d, Zenon
    <3> QED BY <3>1, <3>2
  <2> QED BY <1>0, <1>b, <1>g, <1>u, <2>0, <2>1, AccountKept, ZenonT(60)
<1>15. AccountAt(r)'
  <2>1. Total(inbound'[e]) = Total(inbound[e]) + n
    <3>1. /\ inbound[e] \in [Ids -> Nat] /\ inbound'[e] \in [Ids -> Nat]
          /\ \A j \in Ids : j # i => inbound'[e][j] = inbound[e][j]
      BY <1>d, <1>t, Zenon
    <3>2. /\ Total(inbound'[e]) + inbound[e][i] = Total(inbound[e]) + inbound'[e][i]
          /\ Total(inbound[e]) \in Nat /\ Total(inbound'[e]) \in Nat
      BY <3>1, BufferUpdate, Zenon
    <3>3. PICK x, y, b, k \in Nat : /\ x = Total(inbound[e]) /\ y = Total(inbound'[e])
                                    /\ b = inbound[e][i] /\ k = n
      BY <1>3, <3>1, <3>2, Zenon DEF DataFits
    <3>4. y + b = x + (b + k)
      BY <1>d, <3>2, <3>3, Zenon
    <3>5. y = x + k
      BY <3>4
    <3> QED BY <3>3, <3>5, Zenon
  <2>2. Account(sess_send[r], Total(Queues(outbound[r])), UnderWay(net'[e], Ids, "DATA"),
                sess_recv[e] - n, Total(inbound[e]) + n)
    BY <1>3, Zenon DEF DataFits
  <2> QED BY <1>0, <1>g, <1>u, <2>1, <2>2, ZenonT(60) DEF AccountAt
<1>16. /\ \A d \in Ends : KnownAt(d)' /\ BackedAt(d)' /\ ResetAt(d)' /\ AccountAt(d)'
       /\ \A d \in Ends, j \in Ids : FinAt(d, j)' /\ FlowAt(d, j)'
  BY <1>0, <1>8, <1>9, <1>10, <1>11, <1>12, <1>13, <1>14, <1>15, ZenonT(60)
<1> QED BY <1>7, <1>16, ZenonT(60) DEF MuxInv

\* on_frame, whatever the frame.
LEMMA FrameMux == ASSUME MuxInv, NEW e \in Ends, on_frame(e) PROVE MuxInv'
<1>1. Arrived(e)
  BY Zenon DEF on_frame, Arrived
<1>2. PICK f : f = Head(net[e])
  BY Zenon
<1>3. \/ OnIgnored(e, f)
      \/ /\ ~Ignored(e, f)
         /\ \/ OnData(e, f, find_or_create(phase[e][f.id]))
            \/ OnWindow(e, f, find_or_create(phase[e][f.id]))
            \/ OnReset(e, f, find_or_create(phase[e][f.id]))
  BY <1>2, Zenon DEF on_frame
<1>4. CASE OnIgnored(e, f)
  BY <1>1, <1>2, <1>4, IgnoredMux, Zenon
<1>5. CASE ~OnIgnored(e, f)
  <2>1. PICK i \in Ids : i = f.id
    <3>1. f.id \in Ids
      BY <1>3, <1>5, Zenon DEF Ignored
    <3> QED BY <3>1, Zenon
  <2>2. CASE OnWindow(e, f, find_or_create(phase[e][i]))
    BY <1>1, <1>2, <2>1, <2>2, WindowMux, Zenon
  <2>3. CASE OnReset(e, f, find_or_create(phase[e][i]))
    BY <1>1, <1>2, <2>1, <2>3, CloseMux, Zenon
  <2>4. CASE OnData(e, f, find_or_create(phase[e][i]))
    <3>1. CASE i \in was_reset[e]
      BY <1>1, <1>2, <2>1, <2>4, <3>1, DropMux, Zenon
    <3>2. CASE i \notin was_reset[e]
      BY <1>1, <1>2, <2>1, <2>4, <3>2, AcceptMux, Zenon
    <3> QED BY <3>1, <3>2, Zenon
  <2> QED BY <1>3, <1>5, <2>1, <2>2, <2>3, <2>4, Zenon
<1> QED BY <1>4, <1>5, Zenon

\* Every step keeps the invariant.
LEMMA StepMux == MuxInv /\ [Next]_vars => MuxInv'
<1> SUFFICES ASSUME MuxInv, [Next]_vars PROVE MuxInv'
  OBVIOUS
<1>1. CASE Next
  <2>1. PICK e \in Ends :
          \/ \E band \in Bands : open_stream(e, band)
          \/ \E i \in Ids :
                 \/ \E len \in Lens, fin \in BOOLEAN : send_data(e, i, len, fin)
                 \/ read_inbound(e, i)
                 \/ reset_stream(e, i)
                 \/ SendWindow(e, i)
                 \/ SendReset(e, i)
          \/ pop_outbound(e)
          \/ on_frame(e)
    BY <1>1, Zenon DEF Next
  <2>2. CASE \E band \in Bands : open_stream(e, band)
    BY <2>2, OpenMux, Zenon
  <2>3. CASE pop_outbound(e)
    BY <2>3, PopMux, Zenon
  <2>4. CASE on_frame(e)
    BY <2>4, FrameMux, Zenon
  <2>5. ASSUME NEW i \in Ids, \E len \in Lens, fin \in BOOLEAN : send_data(e, i, len, fin) PROVE MuxInv'
    BY <2>5, SendMux, Zenon
  <2>6. ASSUME NEW i \in Ids, read_inbound(e, i) PROVE MuxInv'
    BY <2>6, ReadMux, Zenon
  <2>7. ASSUME NEW i \in Ids, reset_stream(e, i) PROVE MuxInv'
    BY <2>7, ResetMux, Zenon
  <2>8. ASSUME NEW i \in Ids, SendWindow(e, i) PROVE MuxInv'
    BY <2>8, AnnounceMux, Zenon
  <2>9. ASSUME NEW i \in Ids, SendReset(e, i) PROVE MuxInv'
    BY <2>9, TellMux, Zenon
  <2> QED BY <2>1, <2>2, <2>3, <2>4, <2>5, <2>6, <2>7, <2>8, <2>9, Zenon
<1>2. CASE UNCHANGED vars
  <2>1. UNCHANGED <<next_id, phase, priority, outbound, inbound, inbound_fin, send_credit, recv_window,
                    sess_send, sess_recv, net, owed, told, sent, taken, fin_asked, was_reset>>
    BY <1>2, Zenon DEF vars, flow, hist
  <2>2. MuxTyped'
    <3>1. MuxTyped
      BY Zenon DEF MuxInv
    <3> QED BY <2>1, <3>1, ZenonT(60) DEF MuxTyped
  <2>3. \A d \in Ends, j \in Ids : Known(d, j)' <=> Known(d, j)
    BY <2>1, Zenon DEF Known
  <2>4. \A d \in Ends : KnownAt(d)' /\ ResetAt(d)' /\ BackedAt(d)'
    <3>1. \A d \in Ends : KnownAt(d)'
      BY <2>1, <2>3, KnownKept, Zenon DEF MuxInv
    <3>2. \A d \in Ends : ResetAt(d)'
      BY <2>1, Zenon DEF MuxInv, ResetAt
    <3>3. ASSUME NEW d \in Ends PROVE BackedAt(d)'
      <4>1. BackedAt(d)
        BY <3>3, Zenon DEF MuxInv
      <4> QED BY <2>1, <4>1, ZenonT(60) DEF BackedAt, Known
    <3> QED BY <3>1, <3>2, <3>3, Zenon
  <2>5. ASSUME NEW d \in Ends, NEW j \in Ids PROVE FinAt(d, j)'
    <3>1. FinAt(d, j)
      BY <2>5, Zenon DEF MuxInv
    <3> QED BY <2>1, <3>1, ZenonT(60) DEF FinAt, LastData, Finished, Known
  <2>6. /\ \A d \in Ends : AccountAt(d)'
        /\ \A d \in Ends, j \in Ids : FlowAt(d, j)'
    BY <2>1, BooksKept, ZenonT(60)
  <2> QED BY <2>2, <2>4, <2>5, <2>6, ZenonT(60) DEF MuxInv
<1> QED BY <1>1, <1>2, Zenon
-------------------------------------------------------------------------------
\* The parts of EndsAgree.
LEMMA AgreeTyped == MuxInv => TypeOK
<1> SUFFICES ASSUME MuxInv PROVE TypeOK
  OBVIOUS
<1>1. /\ next_id \in [Ends -> 1..MaxId + 2] /\ phase \in [Ends -> [Ids -> Phases]]
      /\ priority \in [Ends -> [Ids -> 0..4]] /\ inbound_fin \in [Ends -> [Ids -> BOOLEAN]]
      /\ outbound \in [Ends -> [Ids -> Seq(0..InitialWindow)]]
  BY Zenon DEF MuxInv, MuxTyped
<1>2. ASSUME NEW e \in Ends
      PROVE  /\ sess_send[e] \in 0..InitialWindow /\ sess_recv[e] \in 0..InitialWindow
             /\ told[e] \subseteq was_reset[e]
  <2>0. PICK r \in Ends : r = Peer(e) /\ Peer(r) = e
    BY PeerIs, Zenon
  <2>1. ResetAt(e) /\ AccountAt(e) /\ AccountAt(r)
    BY <2>0, Zenon DEF MuxInv
  <2>2. sess_send[e] \in Nat /\ sess_send[e] <= InitialWindow
    BY <2>1, Zenon DEF AccountAt, Account
  <2>3. PICK x, y : x = sess_recv[e] /\ y = Total(inbound[e])
    BY Zenon
  <2>4. x \in Nat /\ y \in Nat /\ x + y = InitialWindow
    BY <2>0, <2>1, <2>3, Zenon DEF AccountAt, Account
  <2>5. x \in 0..InitialWindow
    BY <2>4, MuxAssumption
  <2>6. sess_send[e] \in 0..InitialWindow
    BY <2>2, MuxAssumption
  <2> QED BY <2>1, <2>3, <2>5, <2>6, Zenon DEF ResetAt
<1>3. ASSUME NEW e \in Ends, NEW i \in Ids
      PROVE  /\ send_credit[e][i] \in 0..InitialWindow /\ recv_window[e][i] \in 0..InitialWindow
             /\ inbound[e][i] \in 0..InitialWindow /\ outbound[e][i] \in Seq(0..InitialWindow)
  <2>0. PICK r \in Ends : r = Peer(e) /\ Peer(r) = e
    BY PeerIs, Zenon
  <2>1. FlowAt(e, i) /\ FlowAt(r, i)
    BY <2>0, <1>3, Zenon DEF MuxInv
  <2>2. PICK c, q, d, w, o, R, B, s, t, whole :
            c = send_credit[e][i] /\ Ledger(c, q, d, w, o, R, B, s, t, whole)
    BY <2>1, Zenon DEF FlowAt
  <2>3. c \in 0..InitialWindow
    BY <2>2, MuxAssumption DEF Ledger
  <2>4. PICK R2, B2 : R2 = recv_window[e][i] /\ B2 = inbound[e][i]
    BY Zenon
  <2>5. R2 \in Nat /\ B2 \in Nat /\ R2 + B2 = InitialWindow
    BY <2>0, <2>1, <2>4, Zenon DEF FlowAt, Ledger
  <2>6. R2 \in 0..InitialWindow /\ B2 \in 0..InitialWindow
    BY <2>5, MuxAssumption
  <2> QED BY <1>1, <1>3, <2>2, <2>3, <2>4, <2>6, Zenon
<1> QED BY <1>1, <1>2, <1>3, ZenonT(60) DEF TypeOK

LEMMA AgreeCredit == MuxInv => CreditConservation
<1> SUFFICES ASSUME MuxInv, NEW e \in Ends, NEW i \in Ids, i \notin was_reset[Peer(e)]
             PROVE  /\ recv_window[Peer(e)][i] + inbound[Peer(e)][i] = InitialWindow
                    /\ recv_window[Peer(e)][i] =
                           send_credit[e][i] + Total(outbound[e][i]) + UnderWay(net[Peer(e)], {i}, "DATA")
                           + UnderWay(net[e], {i}, "WINDOW") + owed[Peer(e)][i]
  BY ZenonT(60) DEF CreditConservation, QueuedBytes, InFlight
<1>1. FlowAt(e, i)
  BY Zenon DEF MuxInv
<1> QED BY <1>1, ZenonT(60) DEF FlowAt, Ledger

LEMMA AgreeRoom == MuxInv => NoFlowRefusal
<1> SUFFICES ASSUME MuxInv, NEW e \in Ends, net[e] # <<>>, Head(net[e]).type = "DATA",
                    can_recv(find_or_create(phase[e][Head(net[e]).id]))
             PROVE  /\ Head(net[e]).len <= recv_window[e][Head(net[e]).id]
                    /\ Head(net[e]).len <= sess_recv[e]
  BY ZenonT(60) DEF NoFlowRefusal
<1>0. PICK r \in Ends : r = Peer(e) /\ Peer(r) = e
  BY PeerIs, Zenon
<1>1. net[e] \in Seq(Frames)
  <2>1. net \in [Ends -> Seq(Frames)]
    BY Zenon DEF MuxInv, MuxTyped
  <2> QED BY <2>1, Zenon
<1>2. PICK rest : rest = Tail(net[e])
  BY Zenon
<1>3. Unwired(net[e], rest) /\ rest \in Seq(Frames)
  <2>1. Unwired(net[e], rest)
    BY <1>1, <1>2, FrameTaken, Zenon
  <2> QED BY <2>1, Zenon DEF Unwired
<1>4. /\ Head(net[e]) \in Frames /\ 1 \in 1..Len(net[e]) /\ Head(net[e]) = net[e][1]
  BY <1>1, TailIs, Zenon
<1>5. Head(net[e]).len \in Nat /\ Head(net[e]).id # 0
  BY <1>4, Zenon DEF Frames
<1>6. Head(net[e]).id \in Ids
  <2>1. BackedAt(r)
    BY Zenon DEF MuxInv
  <2>2. \A n \in 1..Len(net[e]) : net[e][n].id # 0 => net[e][n].id \in Ids
    BY <1>0, <2>1, Zenon DEF BackedAt
  <2> QED BY <1>4, <1>5, <2>2, Zenon
<1>7. PICK i \in Ids, n \in Nat : i = Head(net[e]).id /\ n = Head(net[e]).len
  BY <1>5, <1>6, Zenon
<1>8. PICK m, D \in Nat : m = UnderWay(rest, {i}, "DATA") /\ D = UnderWay(rest, Ids, "DATA")
  BY <1>3, UnderWayNat, Zenon
<1>9. UnderWay(net[e], {i}, "DATA") = n + m
  BY <1>3, <1>7, <1>8, Zenon DEF Unwired
<1>10. UnderWay(net[e], Ids, "DATA") = n + D
  BY <1>3, <1>7, <1>8, Zenon DEF Unwired
<1>11. n <= recv_window[e][i]
  <2>1. FlowAt(r, i)
    BY Zenon DEF MuxInv
  <2>2. Ledger(send_credit[r][i], Total(outbound[r][i]), n + m, UnderWay(net[r], {i}, "WINDOW"),
               owed[e][i], recv_window[e][i], inbound[e][i],
               sent[r][i], taken[e][i], i \notin was_reset[e])
    BY <1>0, <1>9, <2>1, Zenon DEF FlowAt
  <2>3. PICK c, q, w, o, R, B, s, t, whole :
            /\ c = send_credit[r][i] /\ q = Total(outbound[r][i]) /\ w = UnderWay(net[r], {i}, "WINDOW")
            /\ o = owed[e][i] /\ R = recv_window[e][i] /\ B = inbound[e][i]
            /\ s = sent[r][i] /\ t = taken[e][i] /\ whole = (i \notin was_reset[e])
    BY Zenon
  <2>4. Ledger(c, q, n + m, w, o, R, B, s, t, whole)
    BY <2>2, <2>3, Zenon
  <2>5. n <= R /\ Ledger(c, q, m, w, o, R - n, B + n, s, t, whole)
    BY <1>7, <1>8, <2>4, LedgerReceive, Zenon
  <2> QED BY <2>3, <2>5, Zenon
<1>12. n <= sess_recv[e]
  <2>1. AccountAt(r)
    BY Zenon DEF MuxInv
  <2>2. PICK a, Q, S, T : S = sess_recv[e] /\ Account(a, Q, n + D, S, T)
    BY <1>0, <1>10, <2>1, Zenon DEF AccountAt
  <2> QED BY <1>7, <1>8, <2>2, AccountReceive, Zenon
<1> QED BY <1>7, <1>11, <1>12, Zenon

LEMMA AgreeFin == MuxInv => FinMeansAll
<1> SUFFICES ASSUME MuxInv, NEW e \in Ends, NEW i \in Ids, inbound_fin[Peer(e)][i]
             PROVE  i \in fin_asked[e] /\ taken[Peer(e)][i] + inbound[Peer(e)][i] = sent[e][i]
  BY Zenon DEF FinMeansAll
<1>1. FinAt(e, i)
  BY Zenon DEF MuxInv
<1> QED BY <1>1, Zenon DEF FinAt, Finished

LEMMA AgreeIds == MuxInv => IdsNeverCollide
<1> SUFFICES ASSUME MuxInv, NEW e \in Ends PROVE
                 /\ next_id[e] <= MaxId => phase[e][next_id[e]] = "kNone"
                 /\ \A i \in Ids : (phase[e][i] # "kNone" /\ belongs_to_peer(i, e)) =>
                                       phase[Peer(e)][i] # "kNone"
  BY Zenon DEF IdsNeverCollide
<1>1. KnownAt(e)
  BY Zenon DEF MuxInv
<1>2. PICK k \in 1..MaxId + 2 : k = next_id[e]
  <2>1. next_id \in [Ends -> 1..MaxId + 2]
    BY Zenon DEF MuxInv, MuxTyped
  <2> QED BY <2>1, Zenon
<1>3. k <= MaxId => k \in Ids /\ ~(k < k)
  BY <1>2, MuxAssumption DEF Ids
<1>4. k <= MaxId => ~Known(e, k)
  BY <1>1, <1>2, <1>3, Zenon DEF KnownAt
<1> QED BY <1>1, <1>2, <1>4, Zenon DEF KnownAt, Known

\* The two multiplexers agree, whatever their windows, bounds and bands are: for every
\* interleaving of calls, frames and resets the credit of each stream is accounted for to
\* the byte, no DATA frame meets a window without room, a FIN means that all bytes are
\* there, and ids do not collide (stream_multiplexer.cpp, sl_flow_control.c).
THEOREM MuxAgrees == Spec => []EndsAgree
<1>1. MuxInv => EndsAgree
  BY AgreeTyped, AgreeCredit, AgreeRoom, AgreeFin, AgreeIds, Zenon DEF EndsAgree
<1> QED BY <1>1, InitMux, StepMux, PTL DEF Spec
-------------------------------------------------------------------------------
\* The phase of a stream after any step.
Later(p, q) == q = p \/ Rank(q) > Rank(p)

\* What the handlers make of a phase is later, or the same.
LEMMA Ranks ==
    /\ \A p \in Phases : Later(p, p) /\ Later(p, find_or_create(p)) /\ Later(p, on_sent_fin(p))
                         /\ Later(p, "kClosed")
    /\ \A p \in Phases : can_recv(find_or_create(p)) => Later(p, on_recv_fin(find_or_create(p)))
BY DEF Phases, Later, Rank, find_or_create, on_sent_fin, on_recv_fin, can_recv

\* A call writes the phase of one stream only.
LEMMA OneLater ==
    ASSUME NEW e \in Ends, NEW i \in Ids, NEW q \in Phases, phase \in [Ends -> [Ids -> Phases]],
           phase' = Put(phase, e, i, q), Later(phase[e][i], q)
    PROVE  \A d \in Ends, j \in Ids : Later(phase[d][j], phase'[d][j])
<1>1. Sets(Phases, phase, e, i, q, phase')
  BY PutIs, Zenon
<1>2. /\ phase'[e][i] = q
      /\ \A d \in Ends, j \in Ids : d # e \/ j # i => phase'[d][j] = phase[d][j]
  BY <1>1, Zenon DEF Sets
<1>3. ASSUME NEW d \in Ends, NEW j \in Ids PROVE Later(phase[d][j], phase'[d][j])
  <2>1. CASE d = e /\ j = i
    BY <1>2, <2>1, Zenon
  <2>2. CASE d # e \/ j # i
    BY <1>2, <2>2, Zenon DEF Later
  <2> QED BY <2>1, <2>2, Zenon
<1> QED BY <1>3, Zenon

\* Each step leaves every phase where it is or takes it further.
LEMMA PhasesLater ==
    ASSUME MuxInv, Next PROVE \A d \in Ends, j \in Ids : Later(phase[d][j], phase'[d][j])
<1>0. phase \in [Ends -> [Ids -> Phases]] /\ \A e \in Ends, i \in Ids : phase[e][i] \in Phases
  <2>1. phase \in [Ends -> [Ids -> Phases]]
    BY Zenon DEF MuxInv, MuxTyped
  <2> QED BY <2>1, Zenon
<1>1. \A p \in Phases : /\ find_or_create(p) \in Phases /\ on_sent_fin(p) \in Phases
                        /\ on_recv_fin(p) \in Phases /\ "kClosed" \in Phases
  BY DEF Phases, find_or_create, on_sent_fin, on_recv_fin
<1>2. ASSUME phase' = phase PROVE \A d \in Ends, j \in Ids : Later(phase[d][j], phase'[d][j])
  BY <1>2, Zenon DEF Later
<1>3. PICK e \in Ends :
        \/ \E band \in Bands : open_stream(e, band)
        \/ \E i \in Ids :
               \/ \E len \in Lens, fin \in BOOLEAN : send_data(e, i, len, fin)
               \/ read_inbound(e, i)
               \/ reset_stream(e, i)
               \/ SendWindow(e, i)
               \/ SendReset(e, i)
        \/ pop_outbound(e)
        \/ on_frame(e)
  BY Zenon DEF Next
<1>4. ASSUME NEW band \in Bands, open_stream(e, band)
      PROVE  \A d \in Ends, j \in Ids : Later(phase[d][j], phase'[d][j])
  <2>1. next_id[e] \in Ids
    <3>1. next_id[e] \in 1..MaxId + 2 /\ next_id[e] <= MaxId
      <4>1. next_id \in [Ends -> 1..MaxId + 2]
        BY Zenon DEF MuxInv, MuxTyped
      <4> QED BY <1>4, <4>1, Zenon DEF open_stream
    <3> QED BY <3>1, MuxAssumption DEF Ids
  <2>2. PICK i \in Ids : i = next_id[e]
    BY <2>1, Zenon
  <2>3. phase' = Put(phase, e, i, find_or_create(phase[e][i]))
    BY <1>4, <2>2, Zenon DEF open_stream
  <2>4. PICK q \in Phases : q = find_or_create(phase[e][i]) /\ Later(phase[e][i], q)
    BY <1>0, <1>1, Ranks, Zenon
  <2> QED BY <1>0, <2>3, <2>4, OneLater, Zenon
<1>5. ASSUME NEW i \in Ids, NEW len \in Lens, NEW fin \in BOOLEAN, send_data(e, i, len, fin)
      PROVE  \A d \in Ends, j \in Ids : Later(phase[d][j], phase'[d][j])
  <2>1. PICK q \in Phases : q = on_sent_fin(phase[e][i]) /\ Later(phase[e][i], q)
    BY <1>0, <1>1, Ranks, Zenon
  <2>2. CASE fin
    <3>1. phase' = Put(phase, e, i, q)
      BY <1>5, <2>1, <2>2, Zenon DEF send_data
    <3> QED BY <1>0, <2>1, <3>1, OneLater, Zenon
  <2>3. CASE ~fin
    BY <1>2, <1>5, <2>3, Zenon DEF send_data
  <2> QED BY <2>2, <2>3, Zenon
<1>6. ASSUME NEW i \in Ids, reset_stream(e, i)
      PROVE  \A d \in Ends, j \in Ids : Later(phase[d][j], phase'[d][j])
  <2>1. PICK q \in Phases : q = "kClosed" /\ Later(phase[e][i], q)
    BY <1>0, <1>1, Ranks, Zenon
  <2>2. phase' = Put(phase, e, i, q)
    BY <1>6, <2>1, Zenon DEF reset_stream
  <2> QED BY <1>0, <2>1, <2>2, OneLater, Zenon
<1>7. ASSUME on_frame(e) PROVE \A d \in Ends, j \in Ids : Later(phase[d][j], phase'[d][j])
  <2>1. PICK f : f = Head(net[e])
    BY Zenon
  <2>2. \/ OnIgnored(e, f)
        \/ /\ ~Ignored(e, f)
           /\ \/ OnData(e, f, find_or_create(phase[e][f.id]))
              \/ OnWindow(e, f, find_or_create(phase[e][f.id]))
              \/ OnReset(e, f, find_or_create(phase[e][f.id]))
    BY <1>7, <2>1, Zenon DEF on_frame
  <2>3. CASE OnIgnored(e, f)
    BY <1>2, <2>3, Zenon DEF OnIgnored
  <2>4. CASE ~OnIgnored(e, f)
    <3>1. PICK i \in Ids : i = f.id
      <4>1. f.id \in Ids
        BY <2>2, <2>4, Zenon DEF Ignored
      <4> QED BY <4>1, Zenon
    <3>2. PICK p \in Phases : p = find_or_create(phase[e][i]) /\ Later(phase[e][i], p)
      BY <1>0, <1>1, Ranks, Zenon
    <3>3. PICK c \in Phases : c = "kClosed" /\ Later(phase[e][i], c)
      BY <1>0, <1>1, Ranks, Zenon
    <3>4. \/ phase' = Put(phase, e, i, p) \/ phase' = Put(phase, e, i, c)
          \/ can_recv(p) /\ phase' = Put(phase, e, i, on_recv_fin(p))
      BY <2>2, <2>4, <3>1, <3>2, <3>3, ZenonT(60) DEF OnData, OnWindow, OnReset
    <3>5. ASSUME can_recv(p) PROVE on_recv_fin(p) \in Phases /\ Later(phase[e][i], on_recv_fin(p))
      BY <1>0, <1>1, <3>2, <3>5, Ranks, Zenon
    <3>6. CASE phase' = Put(phase, e, i, p)
      BY <1>0, <3>2, <3>6, OneLater, Zenon
    <3>7. CASE phase' = Put(phase, e, i, c)
      BY <1>0, <3>3, <3>7, OneLater, Zenon
    <3>8. CASE can_recv(p) /\ phase' = Put(phase, e, i, on_recv_fin(p))
      BY <1>0, <3>5, <3>8, OneLater, Zenon
    <3> QED BY <3>4, <3>6, <3>7, <3>8, Zenon
  <2> QED BY <2>3, <2>4, Zenon
<1>8. ASSUME NEW i \in Ids, read_inbound(e, i) \/ SendWindow(e, i) \/ SendReset(e, i) PROVE phase' = phase
  BY <1>8, Zenon DEF read_inbound, SendWindow, SendReset
<1>9. ASSUME pop_outbound(e) PROVE phase' = phase
  BY <1>9, Zenon DEF pop_outbound
<1> QED BY <1>2, <1>3, <1>4, <1>5, <1>6, <1>7, <1>8, <1>9, Zenon

\* No step takes a stream back: once a phase is left it never returns, and kClosed is
\* final, whatever calls and frames still come (stream_state.cpp, stream_multiplexer.cpp).
THEOREM PhasesOnlyForward == Spec => PhaseForward
<1>1. MuxInv /\ [Next]_vars =>
          [\A e \in Ends, i \in Ids :
               phase'[e][i] = phase[e][i] \/ Rank(phase'[e][i]) > Rank(phase[e][i])]_vars
  <2> SUFFICES ASSUME MuxInv, Next
               PROVE  \A e \in Ends, i \in Ids :
                          phase'[e][i] = phase[e][i] \/ Rank(phase'[e][i]) > Rank(phase[e][i])
    BY Zenon
  <2>1. \A d \in Ends, j \in Ids : Later(phase[d][j], phase'[d][j])
    BY PhasesLater, Zenon
  <2> QED BY <2>1, Zenon DEF Later
<1> QED BY <1>1, InitMux, StepMux, PTL DEF Spec, PhaseForward
===============================================================================
