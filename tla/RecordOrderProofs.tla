-------------------------- MODULE RecordOrderProofs ---------------------------
(***************************************************************************)
(* Proofs about what the record layer opens.  ChannelInv joins what the    *)
(* keys are, what is under way as data, and, while no record crossed a key *)
(* update, what is under way as a chain that leads the reader's keys and   *)
(* counters to the writer's.                                               *)
(***************************************************************************)
EXTENDS SecureChannelProofs

\* Payloads are the numbers from 1 on; what is under way from q to an open end p is, in
\* order, what p has not opened yet.
Numbered(s) == \A i \in 1..Len(s) : s[i] = i
Carries(c, k, m) ==
    /\ \A i \in 1..Len(c) : c[i].type = "APP_DATA" => c[i].payload \in k + 1..m
    /\ \A i, j \in 1..Len(c) : i < j /\ c[i].type = "APP_DATA" /\ c[j].type = "APP_DATA"
                                 => c[i].payload < c[j].payload
    /\ \A v \in k + 1..m : \E i \in 1..Len(c) : c[i].type = "APP_DATA" /\ c[i].payload = v
InOrder(p, q) ==
    /\ Numbered(sent[q]) /\ Numbered(opened[p]) /\ Len(opened[p]) <= Len(sent[q])
    /\ conn[p] # "kClosed" => Carries(chan[p], Len(opened[p]), Len(sent[q]))

\* Without a crossing, the records under way from q to p take the keys and counters of p
\* to those of q, one by one.
GenAt(c, G, i) == IF i \in 1..Len(c) THEN GenOf(c[i]) ELSE G
NumAt(c, N, i) == IF i \in 1..Len(c) THEN NumOf(c[i]) ELSE N
Follows(c, G, N, l, i) ==
    /\ GenOf(c[i]) <= G
    /\ c[i].type # "KEY_UPDATE" =>
          GenAt(c, G, i + 1) = GenOf(c[i]) /\ NumAt(c, N, i + 1) = NumOf(c[i]) + 1
    /\ c[i].type = "KEY_UPDATE" =>
          /\ GenAt(c, G, i + 1) = GenOf(c[i]) + 1 /\ NumAt(c, N, i + 1) = 1
          /\ c[i].payload = GenOf(c[i]) + 1 - l
Linked(c, g, n, G, N, l) ==
    /\ GenAt(c, G, 1) = g /\ NumAt(c, N, 1) = n
    /\ \A i \in 1..Len(c) : Follows(c, G, N, l, i)
Chain(p, q) ==
    /\ Rotations(q) < Rotations(p) => chan[p] = <<>> /\ in_seq[p] = 1
    /\ Rotations(p) <= Rotations(q) =>
         /\ epochs[p].local = epochs[q].peer
         /\ Linked(chan[p], Rotations(p), in_seq[p], Rotations(q), out_seq[q], epochs[p].local)

ChannelInv ==
    /\ Keyed
    /\ \A p \in Ends : InOrder(p, Other(p))
    /\ ~crossed => unopened = {} /\ \A p \in Ends : Chain(p, Other(p))

\* Sequences of numbers and of records, as they grow and shrink.
LEMMA NumberedGrows ==
    ASSUME NEW s \in Seq(Nat), Numbered(s)
    PROVE  Numbered(Append(s, Len(s) + 1)) /\ Len(Append(s, Len(s) + 1)) = Len(s) + 1
BY DEF Numbered

LEMMA CarriesNext ==
    ASSUME NEW p \in Ends, NEW c \in Seq(SealedRecords(p)), NEW k \in Nat, NEW m \in Nat, k <= m,
           Carries(c, k, m), NEW r \in SealedRecords(p), r.type = "APP_DATA", r.payload = m + 1
    PROVE  Carries(Append(c, r), k, m + 1)
<1> DEFINE d == Append(c, r)
<1>1. /\ Len(d) = Len(c) + 1 /\ Len(c) \in Nat /\ d[Len(c) + 1] = r
      /\ \A i \in 1..Len(c) : d[i] = c[i]
  OBVIOUS
<1> SUFFICES Carries(d, k, m + 1)
  OBVIOUS
<1> HIDE DEF d
<1>2. ASSUME NEW i \in 1..Len(d) PROVE i = Len(c) + 1 \/ i \in 1..Len(c)
  BY <1>1
<1>3. ASSUME NEW i \in 1..Len(c), c[i].type = "APP_DATA" PROVE c[i].payload \in k + 1..m
  BY <1>3 DEF Carries
<1>4. ASSUME NEW i \in 1..Len(d), d[i].type = "APP_DATA" PROVE d[i].payload \in k + 1..m + 1
  BY <1>1, <1>2, <1>3, <1>4, SMTT(60)
<1>5. ASSUME NEW i \in 1..Len(d), NEW j \in 1..Len(d), i < j,
             d[i].type = "APP_DATA", d[j].type = "APP_DATA"
      PROVE  d[i].payload < d[j].payload
  <2>1. i \in 1..Len(c) /\ d[i] = c[i]
    BY <1>1, <1>2, <1>5
  <2>2. CASE j = Len(c) + 1
    BY <1>1, <1>3, <1>5, <2>1, <2>2, SMTT(60)
  <2>3. CASE j \in 1..Len(c)
    <3>1. d[j] = c[j]
      BY <1>1, <2>3
    <3> QED BY <1>5, <2>1, <2>3, <3>1 DEF Carries
  <2> QED BY <1>2, <2>2, <2>3
<1>6. ASSUME NEW v \in k + 1..m + 1
      PROVE  \E i \in 1..Len(d) : d[i].type = "APP_DATA" /\ d[i].payload = v
  <2>1. CASE v = m + 1
    BY <1>1, <2>1
  <2>2. CASE v # m + 1
    <3>1. v \in k + 1..m
      BY <2>2
    <3>2. PICK i \in 1..Len(c) : c[i].type = "APP_DATA" /\ c[i].payload = v
      BY <3>1 DEF Carries
    <3>3. i \in 1..Len(d) /\ d[i] = c[i]
      BY <1>1
    <3> QED BY <3>2, <3>3
  <2> QED BY <2>1, <2>2
<1> QED BY <1>4, <1>5, <1>6 DEF Carries

LEMMA CarriesOther ==
    ASSUME NEW p \in Ends, NEW c \in Seq(SealedRecords(p)), NEW k \in Nat, NEW m \in Nat,
           Carries(c, k, m), NEW r \in SealedRecords(p), r.type # "APP_DATA"
    PROVE  Carries(Append(c, r), k, m)
<1> DEFINE d == Append(c, r)
<1>1. /\ Len(d) = Len(c) + 1 /\ Len(c) \in Nat /\ d[Len(c) + 1] = r
      /\ \A i \in 1..Len(c) : d[i] = c[i]
  OBVIOUS
<1> SUFFICES Carries(d, k, m)
  OBVIOUS
<1> HIDE DEF d
<1>2. ASSUME NEW i \in 1..Len(d), d[i].type = "APP_DATA" PROVE i \in 1..Len(c) /\ d[i] = c[i]
  BY <1>1, <1>2
<1>3. ASSUME NEW v \in k + 1..m
      PROVE  \E i \in 1..Len(d) : d[i].type = "APP_DATA" /\ d[i].payload = v
  <2>1. PICK i \in 1..Len(c) : c[i].type = "APP_DATA" /\ c[i].payload = v
    BY DEF Carries
  <2>2. i \in 1..Len(d) /\ d[i] = c[i]
    BY <1>1
  <2> QED BY <2>1, <2>2
<1> QED BY <1>2, <1>3, ZenonT(60) DEF Carries

\* The first record, if it carries data, carries the number that is due.
LEMMA CarriesFirst ==
    ASSUME NEW p \in Ends, NEW c \in Seq(SealedRecords(p)), c # <<>>, NEW k \in Nat, NEW m \in Nat,
           Carries(c, k, m)
    PROVE  /\ Head(c).type # "APP_DATA" => Carries(Tail(c), k, m)
           /\ Head(c).type = "APP_DATA" =>
                 Head(c).payload = k + 1 /\ k + 1 <= m /\ Carries(Tail(c), k + 1, m)
<1> DEFINE d == Tail(c)
           r == Head(c)
<1>1. /\ Len(d) = Len(c) - 1 /\ Len(c) \in Nat \ {0} /\ c[1] = r
      /\ \A i \in 1..Len(d) : d[i] = c[i + 1]
  OBVIOUS
<1> SUFFICES /\ r.type # "APP_DATA" => Carries(d, k, m)
             /\ r.type = "APP_DATA" => r.payload = k + 1 /\ k + 1 <= m /\ Carries(d, k + 1, m)
  OBVIOUS
<1> HIDE DEF d, r
<1>2. ASSUME NEW i \in 1..Len(d) PROVE i + 1 \in 1..Len(c) /\ d[i] = c[i + 1] /\ 1 < i + 1
  BY <1>1
<1>3. ASSUME NEW i \in 1..Len(c), i # 1 PROVE i - 1 \in 1..Len(d) /\ d[i - 1] = c[i]
  <2>1. i - 1 \in 1..Len(d) /\ (i - 1) + 1 = i
    BY <1>1, <1>3
  <2> QED BY <1>1, <2>1
<1>4. ASSUME NEW i \in 1..Len(d), NEW j \in 1..Len(d), i < j,
             d[i].type = "APP_DATA", d[j].type = "APP_DATA"
      PROVE  d[i].payload < d[j].payload
  <2>1. /\ i + 1 < j + 1 /\ i + 1 \in 1..Len(c) /\ j + 1 \in 1..Len(c)
        /\ d[i] = c[i + 1] /\ d[j] = c[j + 1]
    BY <1>2, <1>4
  <2>2. ASSUME NEW x \in 1..Len(c), NEW y \in 1..Len(c), x < y,
               c[x].type = "APP_DATA", c[y].type = "APP_DATA"
        PROVE  c[x].payload < c[y].payload
    BY <2>2 DEF Carries
  <2> QED BY <1>4, <2>1, <2>2
<1>5. ASSUME NEW i \in 1..Len(d), d[i].type = "APP_DATA" PROVE d[i].payload \in k + 1..m
  BY <1>2, <1>5, SMTT(60) DEF Carries
<1>6. CASE r.type # "APP_DATA"
  <2>1. ASSUME NEW v \in k + 1..m
        PROVE  \E i \in 1..Len(d) : d[i].type = "APP_DATA" /\ d[i].payload = v
    <3>1. PICK i \in 1..Len(c) : c[i].type = "APP_DATA" /\ c[i].payload = v
      BY SMTT(60) DEF Carries
    <3>2. i # 1
      BY <1>1, <1>6, <3>1
    <3> QED BY <1>3, <3>1, <3>2, ZenonT(60)
  <2>2. Carries(d, k, m)
    BY <1>4, <1>5, <2>1 DEF Carries
  <2> QED BY <1>6, <2>2
<1>7. CASE r.type = "APP_DATA"
  <2>1. 1 \in 1..Len(c)
    BY <1>1
  <2>2. r.payload \in k + 1..m
    BY <1>1, <1>7, <2>1 DEF Carries
  <2>3. k + 1 \in k + 1..m
    BY <2>2
  <2>4. ASSUME NEW i \in 1..Len(c), i # 1, c[i].type = "APP_DATA" PROVE r.payload < c[i].payload
    <3>1. 1 < i
      BY <1>1, <2>4
    <3> QED BY <1>1, <1>7, <2>1, <2>4, <3>1 DEF Carries
  <2>5. r.payload = k + 1
    <3>1. PICK i \in 1..Len(c) : c[i].type = "APP_DATA" /\ c[i].payload = k + 1
      BY <2>3, ZenonT(60) DEF Carries
    <3>2. CASE i = 1
      BY <1>1, <3>1, <3>2
    <3>3. CASE i # 1
      BY <2>2, <2>4, <3>1, <3>3
    <3> QED BY <3>2, <3>3
  <2>6. ASSUME NEW i \in 1..Len(d), d[i].type = "APP_DATA" PROVE d[i].payload \in (k + 1) + 1..m
    <3>1. i + 1 \in 1..Len(c) /\ i + 1 # 1 /\ d[i] = c[i + 1]
      BY <1>2
    <3>2. r.payload < d[i].payload
      BY <2>4, <2>6, <3>1
    <3>3. d[i].payload \in k + 1..m
      BY <1>5, <2>6
    <3> QED BY <2>5, <3>2, <3>3, SMTT(60)
  <2>7. ASSUME NEW v \in (k + 1) + 1..m
        PROVE  \E i \in 1..Len(d) : d[i].type = "APP_DATA" /\ d[i].payload = v
    <3>1. v \in k + 1..m /\ v # k + 1
      OBVIOUS
    <3>2. PICK i \in 1..Len(c) : c[i].type = "APP_DATA" /\ c[i].payload = v
      BY <3>1 DEF Carries
    <3>3. i # 1
      BY <1>1, <2>5, <3>1, <3>2
    <3> QED BY <1>3, <3>2, <3>3, ZenonT(60)
  <2>8. Carries(d, k + 1, m)
    BY <1>4, <2>6, <2>7, ZenonT(30) DEF Carries
  <2> QED BY <1>7, <2>3, <2>5, <2>8
<1> QED BY <1>6, <1>7

\* The order of payloads from p to q when p sends: an application record is the next one.
LEMMA OrderSends ==
    ASSUME Keyed, NEW p \in Ends, NEW q \in Ends, q = Other(p), InOrder(q, p),
           NEW r \in SealedRecords(p), chan'[q] = Append(chan[q], r),
           opened'[q] = opened[q], conn'[q] = conn[q],
           \/ /\ r.type = "APP_DATA" /\ r.payload = Len(sent[p]) + 1
              /\ sent'[p] = Append(sent[p], Len(sent[p]) + 1)
           \/ r.type # "APP_DATA" /\ sent'[p] = sent[p]
    PROVE  InOrder(q, p)'
<1>1. /\ chan[q] \in Seq(SealedRecords(p)) /\ sent[p] \in Seq(Nat)
      /\ Len(opened[q]) \in Nat /\ Len(sent[p]) \in Nat
  BY TwoEnds, FlowTypes, ZenonT(30)
<1>2. CASE /\ r.type = "APP_DATA" /\ r.payload = Len(sent[p]) + 1
           /\ sent'[p] = Append(sent[p], Len(sent[p]) + 1)
  <2>1. Numbered(sent'[p]) /\ Len(sent'[p]) = Len(sent[p]) + 1
    BY <1>1, <1>2, NumberedGrows DEF InOrder
  <2>2. ASSUME conn[q] # "kClosed" PROVE Carries(chan'[q], Len(opened[q]), Len(sent[p]) + 1)
    BY <1>1, <1>2, <2>2, CarriesNext, ZenonT(60) DEF InOrder
  <2> QED BY <1>1, <2>1, <2>2 DEF InOrder
<1>3. CASE r.type # "APP_DATA" /\ sent'[p] = sent[p]
  <2>1. ASSUME conn[q] # "kClosed" PROVE Carries(chan'[q], Len(opened[q]), Len(sent[p]))
    BY <1>1, <1>3, <2>1, CarriesOther DEF InOrder
  <2> QED BY <1>3, <2>1, SMTT(60) DEF InOrder
<1> QED BY <1>2, <1>3, ZenonT(30)

\* The order of payloads from q to p when p takes a record: an application record that
\* opens carries the number that follows those already opened.
LEMMA OrderTakes ==
    ASSUME Keyed, NEW p \in Ends, NEW q \in Ends, q = Other(p), InOrder(p, q),
           chan[p] # <<>>, chan'[p] = Tail(chan[p]), sent'[q] = sent[q], conn[p] # "kClosed",
           NEW r, r = Head(chan[p]),
           \/ opened'[p] = opened[p] /\ conn'[p] = "kClosed"
           \/ opened'[p] = opened[p] /\ conn'[p] = conn[p] /\ r.type # "APP_DATA"
           \/ /\ opened'[p] = Append(opened[p], r.payload) /\ conn'[p] = conn[p]
              /\ r.type = "APP_DATA"
    PROVE  InOrder(p, q)'
<1>1. /\ chan[p] \in Seq(SealedRecords(q)) /\ opened[p] \in Seq(Nat)
      /\ Len(opened[p]) \in Nat /\ Len(sent[q]) \in Nat
  BY TwoEnds, FlowTypes, ZenonT(30)
<1>2. /\ Numbered(sent[q]) /\ Numbered(opened[p]) /\ Len(opened[p]) <= Len(sent[q])
      /\ Carries(chan[p], Len(opened[p]), Len(sent[q]))
  BY DEF InOrder
<1>3. CASE opened'[p] = opened[p] /\ conn'[p] = "kClosed"
  BY <1>2, <1>3, ZenonT(60) DEF InOrder
<1>4. CASE opened'[p] = opened[p] /\ conn'[p] = conn[p] /\ r.type # "APP_DATA"
  <2>1. Carries(chan'[p], Len(opened[p]), Len(sent[q]))
    BY <1>1, <1>2, <1>4, CarriesFirst, ZenonT(60)
  <2> QED BY <1>2, <1>4, <2>1, ZenonT(60) DEF InOrder
<1>5. CASE /\ opened'[p] = Append(opened[p], r.payload) /\ conn'[p] = conn[p]
           /\ r.type = "APP_DATA"
  <2>1. /\ r.payload = Len(opened[p]) + 1 /\ Len(opened[p]) + 1 <= Len(sent[q])
        /\ Carries(chan'[p], Len(opened[p]) + 1, Len(sent[q]))
    BY <1>1, <1>2, <1>5, CarriesFirst, ZenonT(60)
  <2>2. Numbered(opened'[p]) /\ Len(opened'[p]) = Len(opened[p]) + 1
    BY <1>1, <1>2, <1>5, <2>1, NumberedGrows, ZenonT(60)
  <2> QED BY <1>2, <2>1, <2>2, ZenonT(60) DEF InOrder
<1> QED BY <1>3, <1>4, <1>5, ZenonT(30)

\* A step that leaves the direction from q to p alone, but for closing p.
LEMMA OrderKept ==
    ASSUME NEW p \in Ends, NEW q \in Ends, InOrder(p, q), sent'[q] = sent[q],
           opened'[p] = opened[p], chan'[p] = chan[p],
           conn'[p] # "kClosed" => conn[p] # "kClosed"
    PROVE  InOrder(p, q)'
BY DEF InOrder

\* The chain of records as it grows and shrinks.
LEMMA LinkedEmpty ==
    ASSUME NEW g, NEW n, NEW G, NEW N, NEW l
    PROVE  Linked(<<>>, g, n, G, N, l) <=> g = G /\ n = N
BY DEF Linked, GenAt, NumAt

LEMMA LinkedNext ==
    ASSUME NEW p \in Ends, NEW c \in Seq(SealedRecords(p)), NEW g \in Nat, NEW n \in Nat,
           NEW G \in Nat, NEW N \in Nat, NEW l \in Nat, Linked(c, g, n, G, N, l),
           NEW r \in SealedRecords(p), GenOf(r) = G, NumOf(r) = N,
           NEW G2 \in Nat, NEW N2 \in Nat,
           \/ r.type # "KEY_UPDATE" /\ G2 = G /\ N2 = N + 1
           \/ r.type = "KEY_UPDATE" /\ r.payload = G + 1 - l /\ G2 = G + 1 /\ N2 = 1
    PROVE  Linked(Append(c, r), g, n, G2, N2, l)
<1> DEFINE d == Append(c, r)
           k == Len(c)
<1>1. /\ Len(d) = k + 1 /\ k \in Nat /\ d[k + 1] = r
      /\ \A i \in 1..k : d[i] = c[i]
  OBVIOUS
<1>2. ASSUME NEW i \in 1..k PROVE GenOf(c[i]) \in Nat
  <2>1. c[i] \in SealedRecords(p)
    OBVIOUS
  <2> QED BY <2>1, SealedFields, ZenonT(60)
<1> SUFFICES Linked(d, g, n, G2, N2, l)
  OBVIOUS
<1> HIDE DEF d
<1>3. ASSUME NEW i \in 1..k + 1
      PROVE  GenAt(d, G2, i) = GenAt(c, G, i) /\ NumAt(d, N2, i) = NumAt(c, N, i)
  <2>1. CASE i = k + 1
    BY <1>1, <2>1 DEF GenAt, NumAt
  <2>2. CASE i \in 1..k
    BY <1>1, <2>2 DEF GenAt, NumAt
  <2> QED BY <1>1, <2>1, <2>2
<1>4. GenAt(d, G2, 1) = g /\ NumAt(d, N2, 1) = n
  BY <1>1, <1>3 DEF Linked
<1>5. ASSUME NEW i \in 1..k PROVE Follows(d, G2, N2, l, i)
  <2>1. Follows(c, G, N, l, i) /\ d[i] = c[i] /\ i + 1 \in 1..k + 1
    BY <1>1, SMTT(60) DEF Linked
  <2>2. GenAt(d, G2, i + 1) = GenAt(c, G, i + 1) /\ NumAt(d, N2, i + 1) = NumAt(c, N, i + 1)
    BY <1>3, <2>1, SMTT(60)
  <2>3. GenOf(c[i]) <= G2
    BY <1>2, <2>1, SMTT(60) DEF Follows
  <2> QED BY <2>1, <2>2, <2>3, ZenonT(30) DEF Follows
<1>6. Follows(d, G2, N2, l, k + 1)
  <2>1. GenAt(d, G2, (k + 1) + 1) = G2 /\ NumAt(d, N2, (k + 1) + 1) = N2
    BY <1>1 DEF GenAt, NumAt
  <2> QED BY <1>1, <2>1, SMTT(60) DEF Follows
<1>7. ASSUME NEW i \in 1..Len(d) PROVE i \in 1..k \/ i = k + 1
  BY <1>1, SMTT(60)
<1> QED BY <1>4, <1>5, <1>6, <1>7, SMTT(60) DEF Linked

LEMMA LinkedFirst ==
    ASSUME NEW p \in Ends, NEW c \in Seq(SealedRecords(p)), c # <<>>, NEW g \in Nat, NEW n \in Nat,
           NEW G \in Nat, NEW N \in Nat, NEW l \in Nat, Linked(c, g, n, G, N, l)
    PROVE  /\ GenOf(Head(c)) = g /\ NumOf(Head(c)) = n /\ g <= G
           /\ Head(c).type # "KEY_UPDATE" => Linked(Tail(c), g, n + 1, G, N, l)
           /\ Head(c).type = "KEY_UPDATE" =>
                 g < G /\ Head(c).payload = g + 1 - l /\ Linked(Tail(c), g + 1, 1, G, N, l)
<1> DEFINE d == Tail(c)
           r == Head(c)
<1>1. /\ Len(d) = Len(c) - 1 /\ Len(c) \in Nat \ {0} /\ c[1] = r
      /\ \A i \in 1..Len(d) : d[i] = c[i + 1]
  OBVIOUS
<1> SUFFICES /\ GenOf(r) = g /\ NumOf(r) = n /\ g <= G
             /\ r.type # "KEY_UPDATE" => Linked(d, g, n + 1, G, N, l)
             /\ r.type = "KEY_UPDATE" =>
                   g < G /\ r.payload = g + 1 - l /\ Linked(d, g + 1, 1, G, N, l)
  OBVIOUS
<1> HIDE DEF d, r
<1>2. GenOf(r) = g /\ NumOf(r) = n
  BY <1>1 DEF Linked, GenAt, NumAt
<1>3. Follows(c, G, N, l, 1)
  BY <1>1 DEF Linked
<1>4. ASSUME NEW i \in 1..Len(d) + 1
      PROVE  GenAt(d, G, i) = GenAt(c, G, i + 1) /\ NumAt(d, N, i) = NumAt(c, N, i + 1)
  <2>1. CASE i = Len(d) + 1
    <3>1. i \notin 1..Len(d) /\ i + 1 \notin 1..Len(c)
      BY <1>1, <2>1
    <3> QED BY <3>1 DEF GenAt, NumAt
  <2>2. CASE i \in 1..Len(d)
    <3>1. i + 1 \in 1..Len(c) /\ d[i] = c[i + 1]
      BY <1>1, <2>2, SMTT(60)
    <3> QED BY <2>2, <3>1 DEF GenAt, NumAt
  <2> QED BY <1>1, <2>1, <2>2
<1>5. ASSUME NEW i \in 1..Len(d) PROVE Follows(d, G, N, l, i)
  <2>1. i + 1 \in 1..Len(c) /\ d[i] = c[i + 1] /\ i + 1 \in 1..Len(d) + 1
    BY <1>1
  <2>2. Follows(c, G, N, l, i + 1)
    BY <2>1 DEF Linked
  <2>3. GenAt(d, G, i + 1) = GenAt(c, G, (i + 1) + 1) /\ NumAt(d, N, i + 1) = NumAt(c, N, (i + 1) + 1)
    BY <1>4, <2>1, ZenonT(60)
  <2> QED BY <2>1, <2>2, <2>3, SMTT(60) DEF Follows
<1>6. GenAt(d, G, 1) = GenAt(c, G, 2) /\ NumAt(d, N, 1) = NumAt(c, N, 2)
  BY <1>1, <1>4
<1>7. GenAt(c, G, 2) <= G
  <2>1. CASE 2 \in 1..Len(c)
    <3>1. Follows(c, G, N, l, 2)
      BY <2>1 DEF Linked
    <3> QED BY <2>1, <3>1 DEF GenAt, Follows
  <2>2. CASE 2 \notin 1..Len(c)
    BY <2>2 DEF GenAt
  <2> QED BY <2>1, <2>2
<1>8. CASE r.type # "KEY_UPDATE"
  <2>1. GenAt(c, G, 2) = g /\ NumAt(c, N, 2) = n + 1 /\ g <= G
    BY <1>1, <1>2, <1>3, <1>8, SMTT(60) DEF Follows
  <2>2. Linked(d, g, n + 1, G, N, l)
    BY <1>5, <1>6, <2>1, ZenonT(60) DEF Linked
  <2> QED BY <1>2, <1>8, <2>1, <2>2, ZenonT(60)
<1>9. CASE r.type = "KEY_UPDATE"
  <2>1. GenAt(c, G, 2) = g + 1 /\ NumAt(c, N, 2) = 1 /\ g <= G /\ r.payload = g + 1 - l
    BY <1>1, <1>2, <1>3, <1>9, SMTT(60) DEF Follows
  <2>2. Linked(d, g + 1, 1, G, N, l)
    BY <1>5, <1>6, <2>1 DEF Linked
  <2>3. g < G
    BY <1>7, <2>1
  <2> QED BY <1>2, <1>9, <2>1, <2>2, <2>3, ZenonT(60)
<1> QED BY <1>8, <1>9, SMTT(60)

\* p sends to q, which has no newer keys than p.
LEMMA ChainSends ==
    ASSUME Keyed, NEW p \in Ends, NEW q \in Ends, q = Other(p), Chain(q, p), Rotations(q) <= Rotations(p),
           NEW r \in SealedRecords(p), GenOf(r) = Rotations(p), NumOf(r) = out_seq[p],
           chan'[q] = Append(chan[q], r), in_seq'[q] = in_seq[q], epochs'[q] = epochs[q],
           Rotations(q)' = Rotations(q), epochs'[p].peer = epochs[p].peer,
           \/ r.type # "KEY_UPDATE" /\ Rotations(p)' = Rotations(p) /\ out_seq'[p] = out_seq[p] + 1
           \/ /\ r.type = "KEY_UPDATE" /\ r.payload = epochs[p].local + 1
              /\ Rotations(p)' = Rotations(p) + 1 /\ out_seq'[p] = 1
    PROVE  Chain(q, p)'
<1>1. /\ chan[q] \in Seq(SealedRecords(p)) /\ Rotations(p) \in Nat /\ Rotations(q) \in Nat
      /\ in_seq[q] \in Nat /\ out_seq[p] \in Nat /\ epochs[q].local \in Nat
      /\ epochs[p].local \in Nat /\ epochs[p].peer \in Nat
      /\ Rotations(p) = epochs[p].local + epochs[p].peer
  <2>1. chan[q] \in Seq(SealedRecords(p))
    BY FlowTypes, ZenonT(30)
  <2> QED BY <2>1, RotationsNat, SMTT(60)
<1>2. /\ epochs[q].local = epochs[p].peer
      /\ Linked(chan[q], Rotations(q), in_seq[q], Rotations(p), out_seq[p], epochs[q].local)
  BY SMTT(60) DEF Chain
<1>3. Rotations(p)' \in Nat /\ out_seq'[p] \in Nat /\ Rotations(p)' >= Rotations(p)
  BY <1>1, SMTT(60)
<1>4. \/ r.type # "KEY_UPDATE" /\ Rotations(p)' = Rotations(p) /\ out_seq'[p] = out_seq[p] + 1
      \/ /\ r.type = "KEY_UPDATE" /\ r.payload = Rotations(p) + 1 - epochs[q].local
         /\ Rotations(p)' = Rotations(p) + 1 /\ out_seq'[p] = 1
  <2>1. PICK a \in Nat, b \in Nat, R \in Nat :
            a = epochs[p].local /\ b = epochs[p].peer /\ R = Rotations(p)
    BY <1>1, ZenonT(30)
  <2>2. R = a + b
    BY <1>1, <2>1
  <2>3. a + 1 = R + 1 - b
    BY <2>2
  <2> QED BY <1>2, <2>1, <2>3, ZenonT(30)
<1>5. Linked(Append(chan[q], r), Rotations(q), in_seq[q], Rotations(p)', out_seq'[p], epochs[q].local)
  <2>1. PICK c \in Seq(SealedRecords(p)), g \in Nat, n \in Nat, G \in Nat, N \in Nat, l \in Nat,
             G2 \in Nat, N2 \in Nat :
            /\ c = chan[q] /\ g = Rotations(q) /\ n = in_seq[q] /\ G = Rotations(p)
            /\ N = out_seq[p] /\ l = epochs[q].local /\ G2 = Rotations(p)' /\ N2 = out_seq'[p]
    BY <1>1, <1>3, ZenonT(60)
  <2>2. Linked(Append(c, r), g, n, G2, N2, l)
    <3>1. /\ Linked(c, g, n, G, N, l) /\ GenOf(r) = G /\ NumOf(r) = N
          /\ \/ r.type # "KEY_UPDATE" /\ G2 = G /\ N2 = N + 1
             \/ r.type = "KEY_UPDATE" /\ r.payload = G + 1 - l /\ G2 = G + 1 /\ N2 = 1
      BY <1>2, <1>4, <2>1
    <3> QED BY <3>1, LinkedNext, ZenonT(60)
  <2> QED BY <2>1, <2>2, ZenonT(30)
<1>6. ~(Rotations(p)' < Rotations(q)')
  BY <1>1, <1>3
<1> QED BY <1>2, <1>5, <1>6, ZenonT(30) DEF Chain

\* p changes its keys with nothing under way to it.
LEMMA ChainRuns ==
    ASSUME Keyed, NEW p \in Ends, NEW q \in Ends, q = Other(p), Chain(p, q), chan[p] = <<>>,
           chan'[p] = chan[p], in_seq'[p] = 1,
           Rotations(p)' = Rotations(p) + 1, Rotations(q)' = Rotations(q)
    PROVE  Rotations(q) <= Rotations(p) /\ Chain(p, q)'
<1>1. Rotations(p) \in Nat /\ Rotations(q) \in Nat
  BY RotationsNat
<1>2. Rotations(q) <= Rotations(p)
  <2>1. CASE Rotations(p) <= Rotations(q)
    <3>1. Linked(<<>>, Rotations(p), in_seq[p], Rotations(q), out_seq[q], epochs[p].local)
      BY <2>1, ZenonT(60) DEF Chain
    <3> QED BY <1>1, <3>1, LinkedEmpty, SMTT(60)
  <2> QED BY <1>1, <2>1, SMTT(60)
<1> QED BY <1>1, <1>2 DEF Chain

\* Nothing of the direction from q to p changes.
LEMMA ChainKept ==
    ASSUME NEW p \in Ends, NEW q \in Ends, Chain(p, q), chan'[p] = chan[p], in_seq'[p] = in_seq[p],
           out_seq'[q] = out_seq[q], epochs' = epochs
    PROVE  Chain(p, q)'
<1>1. Rotations(p)' = Rotations(p) /\ Rotations(q)' = Rotations(q)
  BY ZenonT(30) DEF Rotations
<1> QED BY <1>1 DEF Chain

\* What is at the head of an uncrossed channel opens, and an epoch it carries is due.
LEMMA ChainHead ==
    ASSUME Keyed, NEW p \in Ends, NEW q \in Ends, q = Other(p), Chain(p, q), chan[p] # <<>>,
           NEW r, r = Head(chan[p])
    PROVE  /\ record_opens(p, r) /\ Rotations(p) <= Rotations(q) /\ epochs[p].local = epochs[q].peer
           /\ r.type = "KEY_UPDATE" =>
                 /\ check_peer_epoch(p, r.payload) /\ Rotations(p) < Rotations(q)
                 /\ Linked(Tail(chan[p]), Rotations(p) + 1, 1, Rotations(q), out_seq[q], epochs[p].local)
           /\ r.type # "KEY_UPDATE" =>
                 Linked(Tail(chan[p]), Rotations(p), in_seq[p] + 1, Rotations(q), out_seq[q],
                        epochs[p].local)
<1>1. /\ chan[p] \in Seq(SealedRecords(q)) /\ Rotations(p) \in Nat /\ Rotations(q) \in Nat
      /\ in_seq[p] \in Nat /\ out_seq[q] \in Nat /\ epochs[p].local \in Nat
      /\ epochs[p].peer \in Nat /\ Rotations(p) = epochs[p].local + epochs[p].peer
  <2>1. chan[p] \in Seq(SealedRecords(q))
    BY FlowTypes, ZenonT(30)
  <2> QED BY <2>1, RotationsNat, SMTT(60)
<1>2. Rotations(p) <= Rotations(q)
  BY <1>1 DEF Chain
<1>3. /\ epochs[p].local = epochs[q].peer
      /\ Linked(chan[p], Rotations(p), in_seq[p], Rotations(q), out_seq[q], epochs[p].local)
  BY <1>2, ZenonT(30) DEF Chain
<1>4. /\ GenOf(r) = Rotations(p) /\ NumOf(r) = in_seq[p]
      /\ r.type # "KEY_UPDATE" =>
            Linked(Tail(chan[p]), Rotations(p), in_seq[p] + 1, Rotations(q), out_seq[q],
                   epochs[p].local)
      /\ r.type = "KEY_UPDATE" =>
            /\ Rotations(p) < Rotations(q) /\ r.payload = Rotations(p) + 1 - epochs[p].local
            /\ Linked(Tail(chan[p]), Rotations(p) + 1, 1, Rotations(q), out_seq[q], epochs[p].local)
  <2>1. PICK c \in Seq(SealedRecords(q)), g \in Nat, n \in Nat, G \in Nat, N \in Nat, l \in Nat :
            /\ c = chan[p] /\ g = Rotations(p) /\ n = in_seq[p] /\ G = Rotations(q)
            /\ N = out_seq[q] /\ l = epochs[p].local
    BY <1>1, ZenonT(60)
  <2>2. Linked(c, g, n, G, N, l) /\ c # <<>>
    BY <1>3, <2>1
  <2>3. /\ GenOf(Head(c)) = g /\ NumOf(Head(c)) = n /\ g <= G
        /\ Head(c).type # "KEY_UPDATE" => Linked(Tail(c), g, n + 1, G, N, l)
        /\ Head(c).type = "KEY_UPDATE" =>
              g < G /\ Head(c).payload = g + 1 - l /\ Linked(Tail(c), g + 1, 1, G, N, l)
    BY <2>2, LinkedFirst, ZenonT(60)
  <2> QED BY <2>1, <2>3, SMTT(60)
<1>5. r \in SealedRecords(q)
  BY <1>1
<1>6. record_opens(p, r)
  BY <1>4, <1>5, Opens, ZenonT(60)
<1>7. r.type = "KEY_UPDATE" => check_peer_epoch(p, r.payload)
  BY <1>1, <1>4, SMTT(60) DEF check_peer_epoch
<1> QED BY <1>2, <1>3, <1>4, <1>6, <1>7, ZenonT(60)

\* p takes a record that changes no keys.
LEMMA ChainTakes ==
    ASSUME Keyed, NEW p \in Ends, NEW q \in Ends, q = Other(p), Chain(p, q), chan[p] # <<>>,
           NEW r, r = Head(chan[p]), r.type # "KEY_UPDATE", chan'[p] = Tail(chan[p]),
           in_seq'[p] = in_seq[p] + 1, out_seq'[q] = out_seq[q], epochs' = epochs
    PROVE  Chain(p, q)'
<1>1. Rotations(p)' = Rotations(p) /\ Rotations(q)' = Rotations(q)
  BY DEF Rotations
<1>2. Rotations(p) \in Nat /\ Rotations(q) \in Nat
  BY RotationsNat, ZenonT(30)
<1>3. /\ Rotations(p) <= Rotations(q) /\ epochs[p].local = epochs[q].peer
      /\ Linked(Tail(chan[p]), Rotations(p), in_seq[p] + 1, Rotations(q), out_seq[q], epochs[p].local)
  BY ChainHead, ZenonT(60)
<1>4. ~(Rotations(q)' < Rotations(p)')
  BY <1>1, <1>2, <1>3, SMTT(60)
<1> QED BY <1>1, <1>3, <1>4 DEF Chain

\* p takes a key update: both directions go on under the keys of q.
LEMMA ChainAdvances ==
    ASSUME Keyed, NEW p \in Ends, NEW q \in Ends, q = Other(p), Chain(p, q), Chain(q, p),
           chan[p] # <<>>, NEW r, r = Head(chan[p]), r.type = "KEY_UPDATE",
           chan'[p] = Tail(chan[p]), chan'[q] = chan[q], out_seq'[p] = 1, in_seq'[p] = 1,
           out_seq'[q] = out_seq[q], in_seq'[q] = in_seq[q],
           Rotations(p)' = Rotations(p) + 1, Rotations(q)' = Rotations(q),
           epochs'[p].local = epochs[p].local, epochs'[p].peer = epochs[p].peer + 1,
           epochs'[q] = epochs[q]
    PROVE  Chain(p, q)' /\ Chain(q, p)'
<1>1. /\ Rotations(p) \in Nat /\ Rotations(q) \in Nat
      /\ epochs[p].local \in Nat /\ epochs[p].peer \in Nat /\ Rotations(p) = epochs[p].local + epochs[p].peer
      /\ epochs[q].local \in Nat /\ epochs[q].peer \in Nat /\ Rotations(q) = epochs[q].local + epochs[q].peer
  BY RotationsNat, ZenonT(30)
<1>2. /\ Rotations(p) < Rotations(q) /\ epochs[p].local = epochs[q].peer
      /\ Linked(Tail(chan[p]), Rotations(p) + 1, 1, Rotations(q), out_seq[q], epochs[p].local)
  BY ChainHead, ZenonT(30)
<1>3. Chain(p, q)'
  <2>1. ~(Rotations(q)' < Rotations(p)')
    BY <1>1, <1>2
  <2> QED BY <1>2, <2>1, ZenonT(30) DEF Chain
<1>4. chan'[q] = <<>> /\ in_seq'[q] = 1
  BY <1>2, ZenonT(30) DEF Chain
<1>5. ASSUME Rotations(q)' <= Rotations(p)'
      PROVE  /\ Rotations(q)' = Rotations(p)' /\ epochs'[q].local = epochs'[p].peer
             /\ Linked(chan'[q], Rotations(q)', in_seq'[q], Rotations(p)', out_seq'[p], epochs'[q].local)
  <2>1. Rotations(q)' = Rotations(p)' /\ epochs'[q].local = epochs'[p].peer
    BY <1>1, <1>2, <1>5, SMTT(60)
  <2> QED BY <1>4, <2>1, LinkedEmpty, SMTT(60)
<1> QED BY <1>3, <1>4, <1>5 DEF Chain

\* Each step of an end preserves the invariant of the channel.
LEMMA StepSendApp ==
    ASSUME ChannelInv, NEW p \in Ends, NEW q \in Ends, q = Other(p), SendApp(p)
    PROVE  ChannelInv'
<1>r. PICK r : r = SealedBy(p, Rotations(p), out_seq[p], "APP_DATA", Len(sent[p]) + 1)
  OBVIOUS
<1>1. Keyed /\ InOrder(p, q) /\ InOrder(q, p)
  BY TwoEnds, SMTT(60) DEF ChannelInv
<1>2. /\ Keyed' /\ SentOne(p, q, "APP_DATA", Len(sent[p]) + 1)
      /\ out_seq'[p] = out_seq[p] + 1 /\ out_seq'[q] = out_seq[q]
      /\ sent'[p] = Append(sent[p], Len(sent[p]) + 1) /\ sent'[q] = sent[q]
      /\ conn' = conn
  BY <1>1, SendAppKeyed
<1>3. /\ UNCHANGED <<in_seq, epochs, opened, unopened>>
      /\ crossed' = (crossed \/ Rotations(p) < Rotations(Other(p)))
  BY ZenonT(30) DEF SendApp
<1>4. /\ out_seq[p] \in 1..SeqMax - 1 /\ r \in SealedRecords(p)
      /\ chan'[q] = Append(chan[q], r) /\ chan'[p] = chan[p]
  BY <1>r, <1>2, ZenonT(30) DEF SentOne
<1>5. r.type = "APP_DATA" /\ r.payload = Len(sent[p]) + 1 /\ GenOf(r) = Rotations(p) /\ NumOf(r) = out_seq[p]
  <2>1. Len(sent[p]) + 1 \in Nat /\ "APP_DATA" \in Types
    BY <1>1 DEF Keyed, Types
  <2>2. Rotations(p) \in Nat
    BY <1>1, RotationsNat, ZenonT(30)
  <2> QED BY <1>r, <1>4, <2>1, <2>2, SealedIs, SMTT(60)
<1>6. Rotations(p)' = Rotations(p) /\ Rotations(q)' = Rotations(q)
  BY <1>3, ZenonT(60) DEF Rotations
<1>8. InOrder(q, p)' /\ InOrder(p, q)'
  BY <1>1, <1>2, <1>3, <1>4, <1>5, OrderSends, OrderKept, ZenonT(60)
<1>9. ASSUME ~crossed' PROVE unopened' = {} /\ Chain(q, p)' /\ Chain(p, q)'
  <2>1. ~crossed /\ ~(Rotations(p) < Rotations(q))
    BY <1>3, <1>9, ZenonT(30)
  <2>2. Rotations(q) <= Rotations(p)
    BY <1>1, <2>1, RotationsNat, SMTT(60)
  <2>3. unopened = {} /\ Chain(p, q) /\ Chain(q, p)
    BY <2>1, TwoEnds, ZenonT(60) DEF ChannelInv
  <2>4. Chain(q, p)'
    BY <1>1, <1>2, <1>3, <1>4, <1>5, <1>6, <2>2, <2>3, ChainSends, ZenonT(60)
  <2>5. Chain(p, q)'
    BY <1>2, <1>3, <1>4, <2>3, ChainKept, ZenonT(30)
  <2> QED BY <1>3, <2>3, <2>4, <2>5, ZenonT(60)
<1> QED BY <1>2, <1>8, <1>9, TwoEnds DEF ChannelInv

LEMMA StepSendClose ==
    ASSUME ChannelInv, NEW p \in Ends, NEW q \in Ends, q = Other(p), SendClose(p)
    PROVE  ChannelInv'
<1>r. PICK r : r = SealedBy(p, Rotations(p), out_seq[p], "CLOSE_NOTIFY", 0)
  OBVIOUS
<1>1. Keyed /\ InOrder(p, q) /\ InOrder(q, p)
  BY TwoEnds, ZenonT(30) DEF ChannelInv
<1>2. /\ Keyed' /\ SentOne(p, q, "CLOSE_NOTIFY", 0)
      /\ out_seq'[p] = out_seq[p] + 1 /\ out_seq'[q] = out_seq[q]
      /\ conn'[p] = "kClosing" /\ conn[p] = "kAuthenticated" /\ conn'[q] = conn[q]
  BY <1>1, SendCloseKeyed
<1>3. /\ UNCHANGED <<in_seq, epochs, sent, opened, unopened>>
      /\ crossed' = (crossed \/ Rotations(p) < Rotations(Other(p)))
  BY ZenonT(30) DEF SendClose
<1>4. /\ out_seq[p] \in 1..SeqMax - 1 /\ r \in SealedRecords(p)
      /\ chan'[q] = Append(chan[q], r) /\ chan'[p] = chan[p]
  BY <1>r, <1>2, ZenonT(30) DEF SentOne
<1>5. r.type = "CLOSE_NOTIFY" /\ GenOf(r) = Rotations(p) /\ NumOf(r) = out_seq[p]
  <2>1. "CLOSE_NOTIFY" \in Types
    BY DEF Types
  <2>2. Rotations(p) \in Nat
    BY <1>1, RotationsNat
  <2> QED BY <1>r, <1>4, <2>1, <2>2, SealedIs, SMTT(60)
<1>6. Rotations(p)' = Rotations(p) /\ Rotations(q)' = Rotations(q)
  BY <1>3, ZenonT(30) DEF Rotations
<1>8. InOrder(q, p)' /\ InOrder(p, q)'
  BY <1>1, <1>2, <1>3, <1>4, <1>5, OrderSends, OrderKept, ZenonT(60)
<1>9. ASSUME ~crossed' PROVE unopened' = {} /\ Chain(q, p)' /\ Chain(p, q)'
  <2>1. ~crossed /\ ~(Rotations(p) < Rotations(q))
    BY <1>3, <1>9, ZenonT(30)
  <2>2. Rotations(q) <= Rotations(p)
    BY <1>1, <2>1, RotationsNat, SMTT(60)
  <2>3. unopened = {} /\ Chain(p, q) /\ Chain(q, p)
    BY <2>1, TwoEnds, ZenonT(60) DEF ChannelInv
  <2>4. Chain(q, p)'
    BY <1>1, <1>2, <1>3, <1>4, <1>5, <1>6, <2>2, <2>3, ChainSends, ZenonT(60)
  <2>5. Chain(p, q)'
    BY <1>2, <1>3, <1>4, <2>3, ChainKept, ZenonT(30)
  <2> QED BY <1>3, <2>3, <2>4, <2>5, ZenonT(60)
<1> QED BY <1>2, <1>8, <1>9, TwoEnds, ZenonT(60) DEF ChannelInv

LEMMA StepSendKeyUpdate ==
    ASSUME ChannelInv, NEW p \in Ends, NEW q \in Ends, q = Other(p), SendKeyUpdate(p)
    PROVE  ChannelInv'
<1>r. PICK r : r = SealedBy(p, Rotations(p), out_seq[p], "KEY_UPDATE", epochs[p].local + 1)
  OBVIOUS
<1>1. Keyed /\ InOrder(p, q) /\ InOrder(q, p)
  BY TwoEnds, ZenonT(60) DEF ChannelInv
<1>2. /\ Keyed' /\ SentOne(p, q, "KEY_UPDATE", epochs[p].local + 1)
      /\ out_seq'[p] = 1 /\ in_seq'[p] = 1
      /\ out_seq'[q] = out_seq[q] /\ in_seq'[q] = in_seq[q]
      /\ Rotations(p)' = Rotations(p) + 1 /\ Rotations(q)' = Rotations(q)
      /\ epochs'[p].local = epochs[p].local + 1 /\ epochs'[p].peer = epochs[p].peer
      /\ epochs'[q] = epochs[q]
  BY <1>1, SendKeyUpdateKeyed
<1>3. /\ UNCHANGED <<conn, sent, opened, unopened>>
      /\ crossed' = (crossed \/ chan[p] # <<>>)
  BY ZenonT(30) DEF SendKeyUpdate
<1>4. /\ out_seq[p] \in 1..SeqMax - 1 /\ r \in SealedRecords(p)
      /\ chan'[q] = Append(chan[q], r) /\ chan'[p] = chan[p]
  BY <1>r, <1>2, ZenonT(30) DEF SentOne
<1>5. /\ r.type = "KEY_UPDATE" /\ r.payload = epochs[p].local + 1
      /\ GenOf(r) = Rotations(p) /\ NumOf(r) = out_seq[p]
  <2>1. "KEY_UPDATE" \in Types
    BY DEF Types
  <2>2. Rotations(p) \in Nat /\ epochs[p].local + 1 \in Nat
    BY <1>1, RotationsNat
  <2> QED BY <1>r, <1>4, <2>1, <2>2, SealedIs, SMTT(60)
<1>7. InOrder(q, p)' /\ InOrder(p, q)'
  BY <1>1, <1>2, <1>3, <1>4, <1>5, OrderSends, OrderKept, ZenonT(30)
<1>8. ASSUME ~crossed' PROVE unopened' = {} /\ Chain(q, p)' /\ Chain(p, q)'
  <2>1. ~crossed /\ chan[p] = <<>>
    BY <1>3, <1>8, ZenonT(30)
  <2>2. unopened = {} /\ Chain(p, q) /\ Chain(q, p)
    BY <2>1, TwoEnds, ZenonT(60) DEF ChannelInv
  <2>3. Rotations(q) <= Rotations(p) /\ Chain(p, q)'
    BY <1>1, <1>2, <1>4, <2>1, <2>2, ChainRuns, ZenonT(60)
  <2>4. Chain(q, p)'
    BY <1>1, <1>2, <1>4, <1>5, <2>2, <2>3, ChainSends, ZenonT(60)
  <2> QED BY <1>3, <2>2, <2>3, <2>4, ZenonT(60)
<1> QED BY <1>2, <1>7, <1>8, TwoEnds, ZenonT(60) DEF ChannelInv

\* What holds of the two ends when p takes the first record r of its channel.
LEMMA TakingHas ==
    ASSUME ChannelInv, NEW p \in Ends, NEW q \in Ends, q = Other(p), Moved(p, q)
    PROVE  /\ Keyed /\ InOrder(p, q) /\ InOrder(q, p)
           /\ chan'[p] = Tail(chan[p]) /\ chan'[q] = chan[q] /\ UNCHANGED <<sent, used, reused, crossed>>
           /\ ~crossed => unopened = {} /\ Chain(p, q) /\ Chain(q, p)
<1>1. Keyed /\ InOrder(p, q) /\ InOrder(q, p)
  BY TwoEnds, ZenonT(60) DEF ChannelInv
<1>2. /\ chan'[p] = Tail(chan[p]) /\ chan'[q] = chan[q] /\ UNCHANGED <<sent, used, reused, crossed>>
  BY DEF Moved
<1>3. ~crossed => unopened = {} /\ Chain(p, q) /\ Chain(q, p)
  BY TwoEnds, ZenonT(60) DEF ChannelInv
<1> QED BY <1>1, <1>2, <1>3, ZenonT(30)

LEMMA InvOfBoth ==
    ASSUME NEW p \in Ends, NEW q \in Ends, q = Other(p),
           Keyed', InOrder(p, q)', InOrder(q, p)',
           ~crossed' => unopened' = {} /\ Chain(p, q)' /\ Chain(q, p)'
    PROVE  ChannelInv'
BY TwoEnds DEF ChannelInv

\* A record that does not open, or a key update of the wrong epoch.
LEMMA StepFatal ==
    ASSUME ChannelInv, NEW p \in Ends, NEW q \in Ends, q = Other(p), Moved(p, q),
           chan[p] # <<>>, conn[p] \in {"kAuthenticated", "kClosing"},
           NEW r \in SealedRecords(q), r = Head(chan[p]),
           Fatal(p), ~(record_opens(p, r) /\ (r.type = "KEY_UPDATE" => check_peer_epoch(p, r.payload)))
    PROVE  ChannelInv'
<1>1. Keyed /\ InOrder(p, q) /\ InOrder(q, p)
  BY TakingHas, ZenonT(30)
<1>2. /\ chan'[p] = Tail(chan[p]) /\ chan'[q] = chan[q] /\ UNCHANGED <<sent, used, reused, crossed>>
  BY TakingHas, ZenonT(30)
<1>3. ~crossed => unopened = {} /\ Chain(p, q) /\ Chain(q, p)
  BY TakingHas, ZenonT(30)
<1>4. /\ Keyed' /\ conn'[p] = "kClosed" /\ conn'[q] = conn[q]
      /\ UNCHANGED <<epochs, in_seq, out_seq, opened>>
  BY <1>1, FatalKeyed, SMTT(60)
<1>5. Rotations(p)' = Rotations(p) /\ Rotations(q)' = Rotations(q)
  BY <1>4, ZenonT(30) DEF Rotations
<1>7. InOrder(p, q)' /\ InOrder(q, p)'
  BY <1>1, <1>2, <1>4, OrderTakes, OrderKept, ZenonT(60)
<1>8. ASSUME ~crossed PROVE FALSE
  BY <1>1, <1>3, <1>8, ChainHead, ZenonT(60)
<1> QED BY <1>2, <1>4, <1>7, <1>8, InvOfBoth, ZenonT(30)

\* Application data that opens.
LEMMA StepTakesApp ==
    ASSUME ChannelInv, NEW p \in Ends, NEW q \in Ends, q = Other(p), Moved(p, q),
           chan[p] # <<>>, conn[p] \in {"kAuthenticated", "kClosing"},
           NEW r \in SealedRecords(q), r = Head(chan[p]),
           record_opens(p, r), r.type = "APP_DATA", TakesApp(p, r)
    PROVE  ChannelInv'
<1>1. Keyed /\ InOrder(p, q) /\ InOrder(q, p)
  BY TakingHas, ZenonT(30)
<1>2. /\ chan'[p] = Tail(chan[p]) /\ chan'[q] = chan[q] /\ UNCHANGED <<sent, used, reused, crossed>>
  BY TakingHas, ZenonT(30)
<1>3. ~crossed => unopened = {} /\ Chain(p, q) /\ Chain(q, p)
  BY TakingHas, ZenonT(30)
<1>4. /\ Keyed' /\ conn' = conn /\ UNCHANGED <<epochs, out_seq, unopened>>
      /\ in_seq'[p] = in_seq[p] + 1 /\ in_seq'[q] = in_seq[q]
      /\ opened'[p] = Append(opened[p], r.payload) /\ opened'[q] = opened[q]
  BY <1>1, TakesAppKeyed
<1>5. Rotations(p)' = Rotations(p) /\ Rotations(q)' = Rotations(q)
  BY <1>4, ZenonT(30) DEF Rotations
<1>7. InOrder(p, q)' /\ InOrder(q, p)'
  <2>1. InOrder(p, q)'
    BY <1>1, <1>2, <1>4, OrderTakes, ZenonT(60)
  <2> QED BY <1>1, <1>2, <1>4, <2>1, OrderKept, ZenonT(30)
<1>8. ASSUME ~crossed PROVE Chain(p, q)' /\ Chain(q, p)'
  <2>1. Chain(p, q)'
    BY <1>1, <1>2, <1>3, <1>4, <1>8, ChainTakes, ZenonT(60)
  <2> QED BY <1>2, <1>3, <1>4, <1>8, <2>1, ChainKept, ZenonT(30)
<1> QED BY <1>2, <1>3, <1>4, <1>7, <1>8, InvOfBoth, ZenonT(30)

\* A key update that opens and has the next epoch.
LEMMA StepTakesKeyUpdate ==
    ASSUME ChannelInv, NEW p \in Ends, NEW q \in Ends, q = Other(p), Moved(p, q),
           chan[p] # <<>>, conn[p] \in {"kAuthenticated", "kClosing"},
           NEW r \in SealedRecords(q), r = Head(chan[p]),
           record_opens(p, r), r.type = "KEY_UPDATE", check_peer_epoch(p, r.payload),
           TakesKeyUpdate(p, r)
    PROVE  ChannelInv'
<1>1. Keyed /\ InOrder(p, q) /\ InOrder(q, p)
  BY TakingHas, ZenonT(30)
<1>2. /\ chan'[p] = Tail(chan[p]) /\ chan'[q] = chan[q] /\ UNCHANGED <<sent, used, reused, crossed>>
  BY TakingHas, ZenonT(30)
<1>3. ~crossed => unopened = {} /\ Chain(p, q) /\ Chain(q, p)
  BY TakingHas, ZenonT(30)
<1>4. /\ Keyed' /\ UNCHANGED <<conn, opened, unopened>>
      /\ out_seq'[p] = 1 /\ in_seq'[p] = 1
      /\ out_seq'[q] = out_seq[q] /\ in_seq'[q] = in_seq[q]
      /\ Rotations(p)' = Rotations(p) + 1 /\ Rotations(q)' = Rotations(q)
      /\ epochs'[p].local = epochs[p].local /\ epochs'[p].peer = epochs[p].peer + 1
      /\ epochs'[q] = epochs[q]
  BY <1>1, TakesKeyUpdateKeyed
<1>6. InOrder(p, q)' /\ InOrder(q, p)'
  <2>1. InOrder(p, q)'
    BY <1>1, <1>2, <1>4, OrderTakes, ZenonT(60)
  <2> QED BY <1>1, <1>2, <1>4, <2>1, OrderKept, ZenonT(30)
<1>7. ASSUME ~crossed PROVE Chain(p, q)' /\ Chain(q, p)'
  BY <1>1, <1>2, <1>3, <1>4, <1>7, ChainAdvances, ZenonT(60)
<1> QED BY <1>2, <1>3, <1>4, <1>6, <1>7, InvOfBoth, ZenonT(30)

\* The close of the peer.
LEMMA StepTakesClose ==
    ASSUME ChannelInv, NEW p \in Ends, NEW q \in Ends, q = Other(p), Moved(p, q),
           chan[p] # <<>>, conn[p] \in {"kAuthenticated", "kClosing"},
           NEW r \in SealedRecords(q), r = Head(chan[p]),
           record_opens(p, r), r.type = "CLOSE_NOTIFY", TakesClose(p)
    PROVE  ChannelInv'
<1>1. Keyed /\ InOrder(p, q) /\ InOrder(q, p)
  BY TakingHas, ZenonT(30)
<1>2. /\ chan'[p] = Tail(chan[p]) /\ chan'[q] = chan[q] /\ UNCHANGED <<sent, used, reused, crossed>>
  BY TakingHas, ZenonT(30)
<1>3. ~crossed => unopened = {} /\ Chain(p, q) /\ Chain(q, p)
  BY TakingHas, ZenonT(30)
<1>4. /\ Keyed' /\ conn'[p] = "kClosed" /\ conn'[q] = conn[q]
      /\ UNCHANGED <<epochs, out_seq, unopened, opened>>
      /\ in_seq'[p] = in_seq[p] + 1 /\ in_seq'[q] = in_seq[q]
  BY <1>1, TakesCloseKeyed, ZenonT(60)
<1>5. Rotations(p)' = Rotations(p) /\ Rotations(q)' = Rotations(q)
  BY <1>4, ZenonT(30) DEF Rotations
<1>7. InOrder(p, q)' /\ InOrder(q, p)'
  <2>1. InOrder(p, q)'
    BY <1>1, <1>2, <1>4, OrderTakes, ZenonT(60)
  <2> QED BY <1>1, <1>2, <1>4, <2>1, OrderKept, ZenonT(60)
<1>8. ASSUME ~crossed PROVE Chain(p, q)' /\ Chain(q, p)'
  <2>1. Chain(p, q)'
    BY <1>1, <1>2, <1>3, <1>4, <1>8, ChainTakes, ZenonT(60)
  <2> QED BY <1>2, <1>3, <1>4, <1>8, <2>1, ChainKept, ZenonT(60)
<1> QED BY <1>2, <1>3, <1>4, <1>7, <1>8, InvOfBoth, ZenonT(30)

LEMMA StepReceive ==
    ASSUME ChannelInv, NEW p \in Ends, NEW q \in Ends, q = Other(p), Receive(p)
    PROVE  ChannelInv'
<1> DEFINE r == Head(chan[p])
<1>1. Keyed
  BY ZenonT(30) DEF ChannelInv
<1>2. /\ chan[p] # <<>> /\ conn[p] \in {"kAuthenticated", "kClosing"} /\ r \in SealedRecords(q)
      /\ Moved(p, q)
      /\ \/ Fatal(p) /\ ~(record_opens(p, r) /\
                          (r.type = "KEY_UPDATE" => check_peer_epoch(p, r.payload)))
         \/ record_opens(p, r) /\ r.type = "APP_DATA" /\ TakesApp(p, r)
         \/ /\ record_opens(p, r) /\ r.type = "KEY_UPDATE"
            /\ check_peer_epoch(p, r.payload) /\ TakesKeyUpdate(p, r)
         \/ record_opens(p, r) /\ r.type = "CLOSE_NOTIFY" /\ TakesClose(p)
  BY <1>1, ReceiveSplits, ZenonT(30)
<1> QED BY <1>2, StepFatal, StepTakesApp, StepTakesKeyUpdate, StepTakesClose, ZenonT(30)

\* Two ends fresh from their handshake.
LEMMA ChannelInit == CInit => ChannelInv
<1> SUFFICES ASSUME CInit PROVE ChannelInv
  BY ZenonT(60)
<1>1. \A p \in Ends : Rotations(p) = 0
  BY DEF CInit, Rotations
<1>2. Keyed
  BY KeyInit, ZenonT(60) DEF KeyInv
<1>3. ASSUME NEW p \in Ends PROVE Chain(p, Other(p))
  BY <1>1, <1>3, TwoEnds, SMTT(60) DEF CInit, Chain, Linked, GenAt, NumAt
<1>4. ASSUME NEW p \in Ends PROVE InOrder(p, Other(p))
  BY <1>4, TwoEnds, SMTT(60) DEF CInit, InOrder, Numbered, Carries
<1> QED BY <1>2, <1>3, <1>4, ZenonT(60) DEF ChannelInv, CInit

LEMMA ChannelStep == ChannelInv /\ [CNext]_cvars => ChannelInv'
<1> SUFFICES ASSUME ChannelInv, [CNext]_cvars PROVE ChannelInv'
  BY ZenonT(60)
<1>1. ASSUME NEW p \in Ends, SendApp(p) \/ SendKeyUpdate(p) \/ SendClose(p) \/ Receive(p)
      PROVE  ChannelInv'
  BY <1>1, TwoEnds, StepSendApp, StepSendKeyUpdate, StepSendClose, StepReceive, ZenonT(60)
<1>2. CASE UNCHANGED cvars
  <2>1. UNCHANGED <<secret, keys, out_seq, in_seq, epochs, conn, chan, sent, opened, used, reused,
                    crossed, unopened>>
    BY <1>2, ZenonT(30) DEF cvars
  <2>2. \A p \in Ends : Rotations(p)' = Rotations(p)
    BY <2>1, ZenonT(30) DEF Rotations
  <2>3. Keyed'
    BY <2>1, <2>2, ZenonT(60) DEF ChannelInv, Keyed
    <2>5. ASSUME NEW p \in Ends PROVE InOrder(p, Other(p))'
    BY <2>1, <2>5, TwoEnds, OrderKept, ZenonT(30) DEF ChannelInv
  <2>6. ASSUME ~crossed', NEW p \in Ends PROVE Chain(p, Other(p))'
    BY <2>1, <2>6, TwoEnds, ChainKept, ZenonT(60) DEF ChannelInv
  <2> QED BY <2>1, <2>3, <2>5, <2>6, ZenonT(60) DEF ChannelInv
<1> QED BY <1>1, <1>2 DEF CNext

\* What is opened is a prefix of what was sealed, and a record fails to open only where a
\* key update crossed it (sl_record_open, sl_rekey_advance).
THEOREM RecordsRight == CSpec => []RecordsOpen
<1>1. ChannelInv => RecordsOpen
  <2> SUFFICES ASSUME ChannelInv PROVE RecordsOpen
    OBVIOUS
  <2>1. FailsOnlyCrossing
    BY DEF ChannelInv, FailsOnlyCrossing
  <2>2. ASSUME NEW p \in Ends PROVE  Len(opened[p]) <= Len(sent[Other(p)])
             /\ opened[p] = SubSeq(sent[Other(p)], 1, Len(opened[p]))
    <3> DEFINE s == opened[p]
               t == sent[Other(p)]
    <3>1. s \in Seq(Nat) /\ t \in Seq(Nat) /\ Len(s) <= Len(t) /\ Numbered(s) /\ Numbered(t)
      BY TwoEnds, ZenonT(60) DEF ChannelInv, Keyed, InOrder
    <3> HIDE DEF s, t
    <3>2. s = SubSeq(t, 1, Len(s))
      BY <3>1, SMTT(60) DEF Numbered
    <3> QED BY <3>1, <3>2, ZenonT(30) DEF s, t
  <2> QED BY <2>1, <2>2, ZenonT(60) DEF RecordsOpen, OpenedPrefix
<1> QED BY <1>1, ChannelInit, ChannelStep, PTL DEF CSpec
===============================================================================
