------------------------- MODULE SecureChannelProofs --------------------------
(***************************************************************************)
(* Proofs about the record layer for every width of the sequence number,   *)
(* any number of key updates and of records under way: what the keys are   *)
(* after each rotation, and which pairs of key and nonce are in use.       *)
(***************************************************************************)
EXTENDS SecureChannel, TLAPS

\* The keys after g rotations, those of one direction, and a record sealed with them.
KeysOf(g) ==
    session_keys_derive(traffic_secret("handshake", g),
        IF g = 0 THEN [hash |-> "transcript"] ELSE traffic_secret("handshake", g))
KeyOf(p, g) == IF p = "client" THEN KeysOf(g).client_key ELSE KeysOf(g).server_key
IvOf(p, g) == IF p = "client" THEN KeysOf(g).client_iv ELSE KeysOf(g).server_iv
Types == {"APP_DATA", "KEY_UPDATE", "CLOSE_NOTIFY"}
SealedBy(p, g, n, t, v) ==
    [type |-> t, key |-> KeyOf(p, g), nonce |-> <<IvOf(p, g), n>>, payload |-> v]
SealedRecords(p) ==
    {SealedBy(p, g, n, t, v) : g \in Nat, n \in 1..SeqMax - 1, t \in Types, v \in Nat}
GenOf(r) == r.key.ikm.advanced
NumOf(r) == r.nonce[2]

\* Both ends derive their keys from the number of rotations they count, and what is
\* under way was sealed by the end that writes to the channel.
Keyed ==
    /\ epochs \in [Ends -> [local : Nat, peer : Nat]]
    /\ DOMAIN secret = Ends /\ DOMAIN keys = Ends
    /\ \A p \in Ends : /\ secret[p] = traffic_secret("handshake", Rotations(p))
                      /\ keys[p] = KeysOf(Rotations(p))
    /\ out_seq \in [Ends -> 1..SeqMax] /\ in_seq \in [Ends -> 1..SeqMax]
    /\ conn \in [Ends -> {"kAuthenticated", "kClosing", "kClosed"}]
    /\ DOMAIN chan = Ends /\ \A p \in Ends : chan[p] \in Seq(SealedRecords(Other(p)))
    /\ sent \in [Ends -> Seq(Nat)] /\ opened \in [Ends -> Seq(Nat)]

\* Every pair in use is of an earlier generation, or of a number already counted.
Counted ==
    /\ ~reused
    /\ \A u \in used : \E p \in Ends, g \in Nat, n \in Nat :
           /\ u = <<KeyOf(p, g), <<IvOf(p, g), n>>>>
           /\ g < Rotations(p) \/ (g = Rotations(p) /\ n < out_seq[p])

KeyInv == Keyed /\ Counted

\* The two ends are each other's other end.
LEMMA TwoEnds ==
    ASSUME NEW p \in Ends
    PROVE  Other(p) \in Ends /\ Other(p) # p /\ Other(Other(p)) = p
           /\ \A x \in Ends : x = p \/ x = Other(p)
BY DEF Ends, Other

\* Keys of different directions or generations are different.
LEMMA KeyFields ==
    ASSUME NEW p \in Ends, NEW g \in Nat
    PROVE  /\ KeyOf(p, g).ikm.advanced = g
           /\ KeyOf(p, g).info = IF p = "client" THEN "c2s key" ELSE "s2c key"
BY ZenonT(60) DEF KeyOf, KeysOf, session_keys_derive, hkdf, traffic_secret

LEMMA KeyInjective ==
    ASSUME NEW p \in Ends, NEW q \in Ends, NEW g \in Nat, NEW h \in Nat,
           KeyOf(p, g) = KeyOf(q, h)
    PROVE  p = q /\ g = h
<1>1. KeyOf(p, g).ikm.advanced = g /\ KeyOf(q, h).ikm.advanced = h
  BY KeyFields, Zenon
<1>2. KeyOf(p, g).info = (IF p = "client" THEN "c2s key" ELSE "s2c key")
  BY KeyFields, Zenon
<1>3. KeyOf(q, h).info = (IF q = "client" THEN "c2s key" ELSE "s2c key")
  BY KeyFields, Zenon
<1> QED BY <1>1, <1>2, <1>3, ZenonT(60) DEF Ends

\* What a sealed record says of itself.
LEMMA SealedFields ==
    ASSUME NEW p \in Ends, NEW r \in SealedRecords(p)
    PROVE  /\ r.type \in Types /\ r.payload \in Nat
           /\ GenOf(r) \in Nat /\ NumOf(r) \in 1..SeqMax - 1
           /\ r.key = KeyOf(p, GenOf(r)) /\ r.nonce = <<IvOf(p, GenOf(r)), NumOf(r)>>
<1>1. PICK g \in Nat, n \in 1..SeqMax - 1, t \in Types, v \in Nat : r = SealedBy(p, g, n, t, v)
  BY DEF SealedRecords
<1>2. r.type = t /\ r.payload = v /\ r.key = KeyOf(p, g) /\ r.nonce = <<IvOf(p, g), n>>
  BY <1>1 DEF SealedBy
<1>3. GenOf(r) = g
  <2>1. KeyOf(p, g).ikm.advanced = g
    BY KeyFields, Zenon
  <2> QED BY <1>2, <2>1 DEF GenOf
<1>4. NumOf(r) = n
  BY <1>2 DEF NumOf
<1> QED BY <1>2, <1>3, <1>4

LEMMA SealedIs ==
    ASSUME NEW p \in Ends, NEW g \in Nat, NEW n \in 1..SeqMax - 1, NEW t \in Types, NEW v \in Nat
    PROVE  LET r == SealedBy(p, g, n, t, v)
           IN  /\ r \in SealedRecords(p) /\ r.type = t /\ r.payload = v
               /\ GenOf(r) = g /\ NumOf(r) = n
<1> DEFINE r == SealedBy(p, g, n, t, v)
<1>1. r \in SealedRecords(p)
  BY DEF SealedRecords
<1>2. r.type = t /\ r.payload = v /\ r.key = KeyOf(p, g) /\ r.nonce = <<IvOf(p, g), n>>
  BY DEF SealedBy
<1> HIDE DEF r
<1>3. GenOf(r) = g
  <2>1. KeyOf(p, g).ikm.advanced = g
    BY KeyFields, Zenon
  <2> QED BY <1>2, <2>1 DEF GenOf
<1>4. NumOf(r) = n
  BY <1>2 DEF NumOf
<1> QED BY <1>1, <1>2, <1>3, <1>4 DEF r

\* Under the invariant record_seal and record_opens use the keys of their generation.
LEMMA SealsWith ==
    ASSUME Keyed, NEW p \in Ends, NEW t, NEW v
    PROVE  record_seal(p, t, v) = SealedBy(p, Rotations(p), out_seq[p], t, v)
<1>1. keys[p] = KeysOf(Rotations(p))
  BY DEF Keyed
<1> QED BY <1>1 DEF record_seal, Key, Iv, KeyOf, IvOf, SealedBy, nonce_build

LEMMA Opens ==
    ASSUME Keyed, NEW p \in Ends, NEW r \in SealedRecords(Other(p)),
           GenOf(r) = Rotations(p), NumOf(r) = in_seq[p]
    PROVE  record_opens(p, r)
<1>1. keys[p] = KeysOf(Rotations(p))
  BY DEF Keyed
<1>2. r.key = KeyOf(Other(p), GenOf(r)) /\ r.nonce = <<IvOf(Other(p), GenOf(r)), NumOf(r)>>
  BY SealedFields, TwoEnds
<1> QED BY <1>1, <1>2 DEF record_opens, Key, Iv, KeyOf, IvOf, nonce_build

LEMMA OpensOnly ==
    ASSUME Keyed, NEW p \in Ends, NEW r \in SealedRecords(Other(p)), record_opens(p, r)
    PROVE  NumOf(r) = in_seq[p]
<1>1. r.nonce = <<Iv(p, Other(p)), in_seq[p]>>
  BY DEF record_opens, nonce_build
<1> QED BY <1>1 DEF NumOf

\* The transitions of a connection past its handshake.
LEMMA ConnSteps ==
    /\ conn_on_event("kAuthenticated", "kSendAppRecord") = "kAuthenticated"
    /\ conn_on_event("kAuthenticated", "kBeginClose") = "kClosing"
    /\ \A c \in {"kAuthenticated", "kClosing"} :
           /\ conn_on_event(c, "kRecvAppRecord") = c
           /\ conn_on_event(c, "kIoError") = "kClosed"
           /\ conn_on_event(c, "kPeerClosed") = "kClosed"
BY DEF conn_on_event, ConnTable

\* The types of the counters.
LEMMA RotationsNat ==
    ASSUME Keyed, NEW p \in Ends
    PROVE  /\ Rotations(p) \in Nat /\ SeqMax \in Nat
           /\ out_seq[p] \in 1..SeqMax /\ in_seq[p] \in 1..SeqMax
           /\ epochs[p].local \in Nat /\ epochs[p].peer \in Nat
           /\ Rotations(p) = epochs[p].local + epochs[p].peer
BY SeqMaxAssumption, SMTT(60) DEF Keyed, Rotations

\* What is under way to p, and what it has sent and opened, are sequences.
LEMMA FlowTypes ==
    ASSUME Keyed, NEW p \in Ends, NEW q \in Ends, q = Other(p)
    PROVE  /\ chan[p] \in Seq(SealedRecords(q)) /\ chan[q] \in Seq(SealedRecords(p))
           /\ sent[p] \in Seq(Nat) /\ opened[p] \in Seq(Nat)
           /\ Len(sent[p]) \in Nat /\ Len(opened[p]) \in Nat
<1>1. chan[p] \in Seq(SealedRecords(q)) /\ chan[q] \in Seq(SealedRecords(p))
  BY TwoEnds, ZenonT(30) DEF Keyed
<1>2. sent \in [Ends -> Seq(Nat)] /\ opened \in [Ends -> Seq(Nat)]
  BY ZenonT(30) DEF Keyed
<1>3. sent[p] \in Seq(Nat) /\ opened[p] \in Seq(Nat)
  BY <1>2, ZenonT(30)
<1> QED BY <1>1, <1>3

\* What the three ways to send have in common: one record more, and its pair in use.
LEMMA Emits ==
    ASSUME Keyed, NEW p \in Ends, NEW t \in Types, NEW v \in Nat, Emit(p, record_seal(p, t, v))
    PROVE  LET r == SealedBy(p, Rotations(p), out_seq[p], t, v)
           IN  /\ out_seq[p] \in 1..SeqMax - 1 /\ r \in SealedRecords(p)
               /\ chan' = [chan EXCEPT ![Other(p)] = Append(@, r)]
               /\ used' = used \cup {<<KeyOf(p, Rotations(p)), <<IvOf(p, Rotations(p)), out_seq[p]>>>>}
               /\ reused' = (reused \/ <<KeyOf(p, Rotations(p)),
                                        <<IvOf(p, Rotations(p)), out_seq[p]>>>> \in used)
<1> DEFINE r == SealedBy(p, Rotations(p), out_seq[p], t, v)
<1>1. out_seq[p] \in 1..SeqMax - 1
  BY SeqMaxAssumption, SMTT(60) DEF Emit, nonce_can_next, Keyed
<1>2. record_seal(p, t, v) = r
  BY SealsWith
<1>3. r \in SealedRecords(p)
  BY <1>1, RotationsNat, SealedIs
<1>4. r.key = KeyOf(p, Rotations(p)) /\ r.nonce = <<IvOf(p, Rotations(p)), out_seq[p]>>
  BY DEF SealedBy
<1>5. /\ chan' = [chan EXCEPT ![Other(p)] = Append(@, r)]
      /\ used' = used \cup {<<r.key, r.nonce>>}
      /\ reused' = (reused \/ <<r.key, r.nonce>> \in used)
  BY <1>2 DEF Emit
<1> HIDE DEF r
<1>6. <<r.key, r.nonce>> = <<KeyOf(p, Rotations(p)), <<IvOf(p, Rotations(p)), out_seq[p]>>>>
  BY <1>4
<1> QED BY <1>1, <1>3, <1>5, <1>6 DEF r

\* The channel stays one of sealed records.
LEMMA ChanGrows ==
    ASSUME Keyed, NEW p \in Ends, NEW r \in SealedRecords(p),
           chan' = [chan EXCEPT ![Other(p)] = Append(@, r)]
    PROVE  /\ DOMAIN chan' = Ends /\ \A x \in Ends : chan'[x] \in Seq(SealedRecords(Other(x)))
           /\ chan'[p] = chan[p] /\ chan'[Other(p)] = Append(chan[Other(p)], r)
BY TwoEnds, SMTT(60) DEF Keyed

LEMMA ChanShrinks ==
    ASSUME Keyed, NEW p \in Ends, chan[p] # <<>>, chan' = [chan EXCEPT ![p] = Tail(@)]
    PROVE  /\ DOMAIN chan' = Ends /\ \A x \in Ends : chan'[x] \in Seq(SealedRecords(Other(x)))
           /\ chan'[p] = Tail(chan[p]) /\ chan'[Other(p)] = chan[Other(p)]
           /\ Head(chan[p]) \in SealedRecords(Other(p))
BY TwoEnds, SMTT(60) DEF Keyed

\* Advancing the secret of an end gives it the keys of the next generation.
LEMMA Advances ==
    ASSUME Keyed, NEW p \in Ends, NEW q \in Ends, q = Other(p), rekey_advance(p),
           Rotations(p)' = Rotations(p) + 1, Rotations(q)' = Rotations(q)
    PROVE  /\ DOMAIN secret' = Ends /\ DOMAIN keys' = Ends
           /\ \A x \in Ends : /\ secret'[x] = traffic_secret("handshake", Rotations(x)')
                             /\ keys'[x] = KeysOf(Rotations(x)')
           /\ out_seq' \in [Ends -> 1..SeqMax] /\ in_seq' \in [Ends -> 1..SeqMax]
           /\ out_seq'[p] = 1 /\ in_seq'[p] = 1
           /\ out_seq'[q] = out_seq[q] /\ in_seq'[q] = in_seq[q]
<1>0. p # q /\ \A x \in Ends : x = p \/ x = q
  BY TwoEnds
<1>1. secret[p] = traffic_secret("handshake", Rotations(p)) /\ Rotations(p) \in Nat
  BY RotationsNat, ZenonT(60) DEF Keyed
<1>2. next_secret(secret[p]) = traffic_secret("handshake", Rotations(p) + 1)
  BY <1>1 DEF next_secret, traffic_secret
<1>3. rekeyed(secret[p]) = KeysOf(Rotations(p) + 1)
  BY <1>1, <1>2 DEF rekeyed, KeysOf
<1>4. /\ DOMAIN secret = Ends /\ DOMAIN keys = Ends
      /\ secret[q] = traffic_secret("handshake", Rotations(q)) /\ keys[q] = KeysOf(Rotations(q))
      /\ out_seq \in [Ends -> 1..SeqMax] /\ in_seq \in [Ends -> 1..SeqMax]
  BY ZenonT(60) DEF Keyed
<1>5. /\ secret' = [secret EXCEPT ![p] = next_secret(secret[p])]
      /\ keys' = [keys EXCEPT ![p] = rekeyed(secret[p])]
      /\ out_seq' = [out_seq EXCEPT ![p] = 1] /\ in_seq' = [in_seq EXCEPT ![p] = 1]
  BY DEF rekey_advance
<1>6. /\ DOMAIN secret' = Ends /\ secret'[p] = next_secret(secret[p]) /\ secret'[q] = secret[q]
      /\ DOMAIN keys' = Ends /\ keys'[p] = rekeyed(secret[p]) /\ keys'[q] = keys[q]
  BY <1>0, <1>4, <1>5
<1>7. /\ out_seq' \in [Ends -> 1..SeqMax] /\ in_seq' \in [Ends -> 1..SeqMax]
      /\ out_seq'[p] = 1 /\ in_seq'[p] = 1
      /\ out_seq'[q] = out_seq[q] /\ in_seq'[q] = in_seq[q]
  BY <1>0, <1>4, <1>5, SeqMaxAssumption
<1> QED BY <1>0, <1>2, <1>3, <1>4, <1>6, <1>7

\* A step that leaves secrets, keys and epochs alone.
LEMMA KeysKept ==
    ASSUME Keyed, UNCHANGED <<secret, keys, epochs>>
    PROVE  /\ epochs' \in [Ends -> [local : Nat, peer : Nat]]
           /\ DOMAIN secret' = Ends /\ DOMAIN keys' = Ends
           /\ \A x \in Ends : /\ Rotations(x)' = Rotations(x)
                             /\ secret'[x] = traffic_secret("handshake", Rotations(x)')
                             /\ keys'[x] = KeysOf(Rotations(x)')
<1>1. \A x \in Ends : Rotations(x)' = Rotations(x)
  BY DEF Rotations
<1> QED BY <1>1 DEF Keyed

\* The effect of SendApp and SendClose: one record more under the keys of the sender.
SentOne(p, q, t, v) ==
    /\ out_seq[p] \in 1..SeqMax - 1
    /\ SealedBy(p, Rotations(p), out_seq[p], t, v) \in SealedRecords(p)
    /\ chan'[q] = Append(chan[q], SealedBy(p, Rotations(p), out_seq[p], t, v))
    /\ chan'[p] = chan[p]
    /\ used' = used \cup {<<KeyOf(p, Rotations(p)), <<IvOf(p, Rotations(p)), out_seq[p]>>>>}
    /\ reused' = (reused \/ <<KeyOf(p, Rotations(p)),
                             <<IvOf(p, Rotations(p)), out_seq[p]>>>> \in used)

LEMMA SendAppKeyed ==
    ASSUME Keyed, NEW p \in Ends, NEW q \in Ends, q = Other(p), SendApp(p)
    PROVE  /\ Keyed' /\ SentOne(p, q, "APP_DATA", Len(sent[p]) + 1)
           /\ out_seq'[p] = out_seq[p] + 1 /\ out_seq'[q] = out_seq[q]
           /\ sent'[p] = Append(sent[p], Len(sent[p]) + 1) /\ sent'[q] = sent[q]
           /\ conn' = conn
<1> DEFINE r == SealedBy(p, Rotations(p), out_seq[p], "APP_DATA", Len(sent[p]) + 1)
<1>1. Len(sent[p]) + 1 \in Nat /\ sent \in [Ends -> Seq(Nat)] /\ "APP_DATA" \in Types
  BY SMTT(60) DEF Keyed, Types
<1>2. /\ out_seq[p] \in 1..SeqMax - 1 /\ r \in SealedRecords(p)
      /\ chan' = [chan EXCEPT ![Other(p)] = Append(@, r)]
      /\ SentOne(p, q, "APP_DATA", Len(sent[p]) + 1)
  <2>1. Emit(p, record_seal(p, "APP_DATA", Len(sent[p]) + 1))
    BY DEF SendApp
  <2>2. /\ out_seq[p] \in 1..SeqMax - 1 /\ r \in SealedRecords(p)
        /\ chan' = [chan EXCEPT ![Other(p)] = Append(@, r)]
        /\ used' = used \cup {<<KeyOf(p, Rotations(p)), <<IvOf(p, Rotations(p)), out_seq[p]>>>>}
        /\ reused' = (reused \/ <<KeyOf(p, Rotations(p)),
                                 <<IvOf(p, Rotations(p)), out_seq[p]>>>> \in used)
    BY <1>1, <2>1, Emits, ZenonT(60)
  <2> HIDE DEF r
  <2>3. chan'[q] = Append(chan[q], r) /\ chan'[p] = chan[p]
    BY <2>2, ChanGrows, ZenonT(60)
  <2> QED BY <2>2, <2>3 DEF SentOne, r
<1> HIDE DEF r
<1>3. DOMAIN chan' = Ends /\ \A x \in Ends : chan'[x] \in Seq(SealedRecords(Other(x)))
  BY <1>2, ChanGrows, ZenonT(60)
<1>4. nonce_next(out_seq[p]) = out_seq[p] + 1 /\ out_seq[p] + 1 \in 1..SeqMax
  BY <1>2, SeqMaxAssumption, SMTT(60) DEF nonce_next
<1>5. /\ out_seq' \in [Ends -> 1..SeqMax] /\ in_seq' \in [Ends -> 1..SeqMax]
      /\ out_seq'[p] = out_seq[p] + 1 /\ out_seq'[q] = out_seq[q]
  BY <1>4, TwoEnds, ZenonT(30) DEF SendApp, Keyed
<1>6. conn' = conn /\ conn \in [Ends -> {"kAuthenticated", "kClosing", "kClosed"}]
  BY ConnSteps, ZenonT(60) DEF SendApp, can_send_app, Keyed
<1>7. /\ sent' \in [Ends -> Seq(Nat)] /\ opened' \in [Ends -> Seq(Nat)]
      /\ sent'[p] = Append(sent[p], Len(sent[p]) + 1) /\ sent'[q] = sent[q]
  BY <1>1, TwoEnds, SMTT(60) DEF SendApp, Keyed
<1>8. UNCHANGED <<secret, keys, epochs>>
  BY DEF SendApp
<1> QED BY <1>2, <1>3, <1>5, <1>6, <1>7, <1>8, KeysKept, ZenonT(60) DEF Keyed

LEMMA SendCloseKeyed ==
    ASSUME Keyed, NEW p \in Ends, NEW q \in Ends, q = Other(p), SendClose(p)
    PROVE  /\ Keyed' /\ SentOne(p, q, "CLOSE_NOTIFY", 0)
           /\ out_seq'[p] = out_seq[p] + 1 /\ out_seq'[q] = out_seq[q]
           /\ conn'[p] = "kClosing" /\ conn[p] = "kAuthenticated" /\ conn'[q] = conn[q]
<1> DEFINE r == SealedBy(p, Rotations(p), out_seq[p], "CLOSE_NOTIFY", 0)
<1>1. "CLOSE_NOTIFY" \in Types
  BY DEF Types
<1>2. /\ out_seq[p] \in 1..SeqMax - 1 /\ r \in SealedRecords(p)
      /\ chan' = [chan EXCEPT ![Other(p)] = Append(@, r)]
      /\ SentOne(p, q, "CLOSE_NOTIFY", 0)
  <2>1. Emit(p, record_seal(p, "CLOSE_NOTIFY", 0))
    BY DEF SendClose
  <2>2. /\ out_seq[p] \in 1..SeqMax - 1 /\ r \in SealedRecords(p)
        /\ chan' = [chan EXCEPT ![Other(p)] = Append(@, r)]
        /\ used' = used \cup {<<KeyOf(p, Rotations(p)), <<IvOf(p, Rotations(p)), out_seq[p]>>>>}
        /\ reused' = (reused \/ <<KeyOf(p, Rotations(p)),
                                 <<IvOf(p, Rotations(p)), out_seq[p]>>>> \in used)
    BY <1>1, <2>1, Emits, ZenonT(30)
  <2> HIDE DEF r
  <2>3. chan'[q] = Append(chan[q], r) /\ chan'[p] = chan[p]
    BY <2>2, ChanGrows, ZenonT(60)
  <2> QED BY <2>2, <2>3 DEF SentOne, r
<1> HIDE DEF r
<1>3. DOMAIN chan' = Ends /\ \A x \in Ends : chan'[x] \in Seq(SealedRecords(Other(x)))
  BY <1>2, ChanGrows, ZenonT(60)
<1>4. nonce_next(out_seq[p]) = out_seq[p] + 1 /\ out_seq[p] + 1 \in 1..SeqMax
  BY <1>2, SeqMaxAssumption, SMTT(60) DEF nonce_next
<1>5. /\ out_seq' \in [Ends -> 1..SeqMax] /\ in_seq' \in [Ends -> 1..SeqMax]
      /\ out_seq'[p] = out_seq[p] + 1 /\ out_seq'[q] = out_seq[q]
  BY <1>4, TwoEnds, ZenonT(60) DEF SendClose, Keyed
<1>6. /\ conn' \in [Ends -> {"kAuthenticated", "kClosing", "kClosed"}]
      /\ conn'[p] = "kClosing" /\ conn[p] = "kAuthenticated" /\ conn'[q] = conn[q]
  BY ConnSteps, TwoEnds DEF SendClose, can_send_app, Keyed
<1>7. sent' \in [Ends -> Seq(Nat)] /\ opened' \in [Ends -> Seq(Nat)]
  BY ZenonT(30) DEF SendClose, Keyed
<1>8. UNCHANGED <<secret, keys, epochs>>
  BY DEF SendClose
<1> QED BY <1>2, <1>3, <1>5, <1>6, <1>7, <1>8, KeysKept, ZenonT(60) DEF Keyed

LEMMA SendKeyUpdateKeyed ==
    ASSUME Keyed, NEW p \in Ends, NEW q \in Ends, q = Other(p), SendKeyUpdate(p)
    PROVE  /\ Keyed' /\ SentOne(p, q, "KEY_UPDATE", epochs[p].local + 1)
           /\ out_seq'[p] = 1 /\ in_seq'[p] = 1
           /\ out_seq'[q] = out_seq[q] /\ in_seq'[q] = in_seq[q]
           /\ Rotations(p)' = Rotations(p) + 1 /\ Rotations(q)' = Rotations(q)
           /\ epochs'[p].local = epochs[p].local + 1 /\ epochs'[p].peer = epochs[p].peer
           /\ epochs'[q] = epochs[q]
<1> DEFINE r == SealedBy(p, Rotations(p), out_seq[p], "KEY_UPDATE", epochs[p].local + 1)
<1>1. epochs[p].local + 1 \in Nat /\ "KEY_UPDATE" \in Types
  BY SMTT(60) DEF Types, Keyed
<1>2. /\ out_seq[p] \in 1..SeqMax - 1 /\ r \in SealedRecords(p)
      /\ chan' = [chan EXCEPT ![Other(p)] = Append(@, r)]
      /\ SentOne(p, q, "KEY_UPDATE", epochs[p].local + 1)
  <2>1. Emit(p, record_seal(p, "KEY_UPDATE", epochs[p].local + 1))
    BY DEF SendKeyUpdate
  <2>2. /\ out_seq[p] \in 1..SeqMax - 1 /\ r \in SealedRecords(p)
        /\ chan' = [chan EXCEPT ![Other(p)] = Append(@, r)]
        /\ used' = used \cup {<<KeyOf(p, Rotations(p)), <<IvOf(p, Rotations(p)), out_seq[p]>>>>}
        /\ reused' = (reused \/ <<KeyOf(p, Rotations(p)),
                                 <<IvOf(p, Rotations(p)), out_seq[p]>>>> \in used)
    BY <1>1, <2>1, Emits, ZenonT(60)
  <2> HIDE DEF r
  <2>3. chan'[q] = Append(chan[q], r) /\ chan'[p] = chan[p]
    BY <2>2, ChanGrows, ZenonT(60)
  <2> QED BY <2>2, <2>3 DEF SentOne, r
<1> HIDE DEF r
<1>3. DOMAIN chan' = Ends /\ \A x \in Ends : chan'[x] \in Seq(SealedRecords(Other(x)))
  BY <1>2, ChanGrows, ZenonT(60)
<1>4. epochs \in [Ends -> [local : Nat, peer : Nat]] /\ p # q
  BY TwoEnds DEF Keyed
<1>5. epochs' = [epochs EXCEPT ![p].local = @ + 1]
  BY DEF SendKeyUpdate
<1>6. /\ epochs' \in [Ends -> [local : Nat, peer : Nat]]
      /\ epochs'[p].local = epochs[p].local + 1 /\ epochs'[p].peer = epochs[p].peer
      /\ epochs'[q] = epochs[q]
  BY <1>4, <1>5
<1>7. Rotations(p)' = Rotations(p) + 1 /\ Rotations(q)' = Rotations(q)
  BY <1>4, <1>6 DEF Rotations
<1>8. conn' = conn /\ sent' = sent /\ opened' = opened /\ rekey_advance(p)
  BY ZenonT(60) DEF SendKeyUpdate
<1>9. /\ DOMAIN secret' = Ends /\ DOMAIN keys' = Ends
      /\ \A x \in Ends : /\ secret'[x] = traffic_secret("handshake", Rotations(x)')
                        /\ keys'[x] = KeysOf(Rotations(x)')
      /\ out_seq' \in [Ends -> 1..SeqMax] /\ in_seq' \in [Ends -> 1..SeqMax]
      /\ out_seq'[p] = 1 /\ in_seq'[p] = 1
      /\ out_seq'[q] = out_seq[q] /\ in_seq'[q] = in_seq[q]
  BY <1>7, <1>8, Advances, ZenonT(60)
<1> QED BY <1>2, <1>3, <1>6, <1>7, <1>8, <1>9, ZenonT(60) DEF Keyed

\* The ways a record is taken, one by one.
TakesApp(p, r) ==
    /\ conn' = [conn EXCEPT ![p] = conn_on_event(@, "kRecvAppRecord")]
    /\ opened' = [opened EXCEPT ![p] = Append(@, r.payload)]
    /\ in_seq' = [in_seq EXCEPT ![p] = nonce_next(@)]
    /\ UNCHANGED <<secret, keys, out_seq, epochs, unopened>>
TakesKeyUpdate(p, r) ==
    /\ rekey_advance(p)
    /\ epochs' = [epochs EXCEPT ![p].peer = r.payload]
    /\ UNCHANGED <<conn, opened, unopened>>
TakesClose(p) ==
    /\ conn' = [conn EXCEPT ![p] = conn_on_event(@, "kPeerClosed")]
    /\ in_seq' = [in_seq EXCEPT ![p] = nonce_next(@)]
    /\ UNCHANGED <<secret, keys, out_seq, epochs, opened, unopened>>

\* p takes the first record from its channel.
Moved(p, q) ==
    /\ DOMAIN chan' = Ends /\ \A x \in Ends : chan'[x] \in Seq(SealedRecords(Other(x)))
    /\ chan'[p] = Tail(chan[p]) /\ chan'[q] = chan[q]
    /\ UNCHANGED <<sent, used, reused, crossed>>

LEMMA ReceiveSplits ==
    ASSUME Keyed, NEW p \in Ends, NEW q \in Ends, q = Other(p), Receive(p), NEW r, r = Head(chan[p])
    PROVE  /\ chan[p] # <<>> /\ conn[p] \in {"kAuthenticated", "kClosing"} /\ r \in SealedRecords(q)
           /\ Moved(p, q)
           /\ \/ Fatal(p) /\ ~(record_opens(p, r) /\
                               (r.type = "KEY_UPDATE" => check_peer_epoch(p, r.payload)))
              \/ record_opens(p, r) /\ r.type = "APP_DATA" /\ TakesApp(p, r)
              \/ /\ record_opens(p, r) /\ r.type = "KEY_UPDATE"
                 /\ check_peer_epoch(p, r.payload) /\ TakesKeyUpdate(p, r)
              \/ record_opens(p, r) /\ r.type = "CLOSE_NOTIFY" /\ TakesClose(p)
<1>1. /\ chan[p] # <<>> /\ conn[p] # "kClosed" /\ chan' = [chan EXCEPT ![p] = Tail(@)]
      /\ IF record_opens(p, r) THEN Took(p, r) ELSE Fatal(p)
      /\ UNCHANGED <<sent, used, reused, crossed>>
  BY DEF Receive
<1>2. /\ r \in SealedRecords(q)
      /\ DOMAIN chan' = Ends /\ \A x \in Ends : chan'[x] \in Seq(SealedRecords(Other(x)))
      /\ chan'[p] = Tail(chan[p]) /\ chan'[q] = chan[q]
  BY <1>1, ChanShrinks, ZenonT(60)
<1>m. Moved(p, q)
  BY <1>1, <1>2 DEF Moved
<1>3. r.type \in Types
  BY <1>2, SealedFields, ZenonT(60)
<1>4. conn[p] \in {"kAuthenticated", "kClosing"}
  BY <1>1 DEF Keyed
<1>5. CASE ~record_opens(p, r)
  BY <1>1, <1>2, <1>m, <1>4, <1>5
<1>6. CASE record_opens(p, r) /\ r.type = "APP_DATA"
  <2>1. TakesApp(p, r)
    BY <1>1, <1>6 DEF Took, TakesApp
  <2> QED BY <1>1, <1>2, <1>m, <1>4, <1>6, <2>1
<1>7. CASE record_opens(p, r) /\ r.type = "KEY_UPDATE" /\ check_peer_epoch(p, r.payload)
  <2>1. TakesKeyUpdate(p, r)
    BY <1>1, <1>7 DEF Took, TakesKeyUpdate
  <2> QED BY <1>1, <1>2, <1>m, <1>4, <1>7, <2>1, ZenonT(60)
<1>8. CASE record_opens(p, r) /\ r.type = "CLOSE_NOTIFY"
  <2>1. TakesClose(p)
    BY <1>1, <1>8, ZenonT(60) DEF Took, TakesClose
  <2> QED BY <1>1, <1>2, <1>m, <1>4, <1>8, <2>1
<1>9. CASE record_opens(p, r) /\ r.type = "KEY_UPDATE" /\ ~check_peer_epoch(p, r.payload)
  <2>1. Fatal(p)
    BY <1>1, <1>9, SMTT(60) DEF Took
  <2> QED BY <1>1, <1>2, <1>m, <1>4, <1>9, <2>1
<1>10. r.type = "APP_DATA" \/ r.type = "KEY_UPDATE" \/ r.type = "CLOSE_NOTIFY"
  BY <1>3, ZenonT(60) DEF Types
<1> QED BY <1>5, <1>6, <1>7, <1>8, <1>9, <1>10, ZenonT(60)

LEMMA FatalKeyed ==
    ASSUME Keyed, NEW p \in Ends, NEW q \in Ends, q = Other(p), Moved(p, q), Fatal(p),
           conn[p] \in {"kAuthenticated", "kClosing"}
    PROVE  /\ Keyed' /\ conn'[p] = "kClosed" /\ conn'[q] = conn[q]
           /\ UNCHANGED <<epochs, in_seq, out_seq, opened>> /\ p \in unopened'
<1>1. /\ conn' \in [Ends -> {"kAuthenticated", "kClosing", "kClosed"}]
      /\ conn'[p] = "kClosed" /\ conn'[q] = conn[q]
  BY ConnSteps, TwoEnds, ZenonT(60) DEF Fatal, Keyed
<1>2. UNCHANGED <<secret, keys, epochs, in_seq, out_seq, opened, sent>> /\ p \in unopened'
  BY DEF Fatal, Moved
<1> QED BY <1>1, <1>2, KeysKept, ZenonT(60) DEF Keyed, Moved

LEMMA NextIn ==
    ASSUME Keyed, NEW p \in Ends, NEW q \in Ends, q = Other(p), NEW r \in SealedRecords(q),
           record_opens(p, r), in_seq' = [in_seq EXCEPT ![p] = nonce_next(@)]
    PROVE  /\ in_seq' \in [Ends -> 1..SeqMax] /\ NumOf(r) = in_seq[p]
           /\ in_seq'[p] = in_seq[p] + 1 /\ in_seq'[q] = in_seq[q]
<1>1. in_seq[p] \in 1..SeqMax - 1 /\ NumOf(r) = in_seq[p]
  BY OpensOnly, SealedFields
<1>2. nonce_next(in_seq[p]) = in_seq[p] + 1 /\ in_seq[p] + 1 \in 1..SeqMax
  BY <1>1, SeqMaxAssumption DEF nonce_next
<1> QED BY <1>1, <1>2, TwoEnds DEF Keyed

LEMMA TakesAppKeyed ==
    ASSUME Keyed, NEW p \in Ends, NEW q \in Ends, q = Other(p), Moved(p, q),
           NEW r \in SealedRecords(q), record_opens(p, r), TakesApp(p, r),
           conn[p] \in {"kAuthenticated", "kClosing"}
    PROVE  /\ Keyed' /\ conn' = conn /\ UNCHANGED <<epochs, out_seq, unopened>>
           /\ NumOf(r) = in_seq[p] /\ in_seq'[p] = in_seq[p] + 1 /\ in_seq'[q] = in_seq[q]
           /\ opened'[p] = Append(opened[p], r.payload) /\ opened'[q] = opened[q]
<1>1. conn' = conn
  BY ConnSteps, ZenonT(60) DEF TakesApp, Keyed
<1>2. /\ in_seq' \in [Ends -> 1..SeqMax] /\ NumOf(r) = in_seq[p]
      /\ in_seq'[p] = in_seq[p] + 1 /\ in_seq'[q] = in_seq[q]
  BY NextIn, ZenonT(60) DEF TakesApp
<1>3. r.payload \in Nat
  BY SealedFields
<1>4. /\ opened' \in [Ends -> Seq(Nat)]
      /\ opened'[p] = Append(opened[p], r.payload) /\ opened'[q] = opened[q]
  BY <1>3, TwoEnds, SMTT(60) DEF TakesApp, Keyed
<1>5. UNCHANGED <<secret, keys, epochs, out_seq, unopened, sent>>
  BY DEF TakesApp, Moved
<1> QED BY <1>1, <1>2, <1>4, <1>5, KeysKept, ZenonT(60) DEF Keyed, Moved

LEMMA TakesCloseKeyed ==
    ASSUME Keyed, NEW p \in Ends, NEW q \in Ends, q = Other(p), Moved(p, q),
           NEW r \in SealedRecords(q), record_opens(p, r), TakesClose(p),
           conn[p] \in {"kAuthenticated", "kClosing"}
    PROVE  /\ Keyed' /\ conn'[p] = "kClosed" /\ conn'[q] = conn[q]
           /\ UNCHANGED <<epochs, out_seq, unopened, opened>>
           /\ NumOf(r) = in_seq[p] /\ in_seq'[p] = in_seq[p] + 1 /\ in_seq'[q] = in_seq[q]
<1>1. /\ conn' \in [Ends -> {"kAuthenticated", "kClosing", "kClosed"}]
      /\ conn'[p] = "kClosed" /\ conn'[q] = conn[q]
  BY ConnSteps, TwoEnds, ZenonT(60) DEF TakesClose, Keyed
<1>2. /\ in_seq' \in [Ends -> 1..SeqMax] /\ NumOf(r) = in_seq[p]
      /\ in_seq'[p] = in_seq[p] + 1 /\ in_seq'[q] = in_seq[q]
  BY NextIn, ZenonT(60) DEF TakesClose
<1>5. UNCHANGED <<secret, keys, epochs, out_seq, unopened, sent, opened>>
  BY ZenonT(60) DEF TakesClose, Moved
<1> QED BY <1>1, <1>2, <1>5, KeysKept, ZenonT(60) DEF Keyed, Moved

LEMMA TakesKeyUpdateKeyed ==
    ASSUME Keyed, NEW p \in Ends, NEW q \in Ends, q = Other(p), Moved(p, q),
           NEW r \in SealedRecords(q), TakesKeyUpdate(p, r), check_peer_epoch(p, r.payload)
    PROVE  /\ Keyed' /\ UNCHANGED <<conn, opened, unopened>>
           /\ out_seq'[p] = 1 /\ in_seq'[p] = 1
           /\ out_seq'[q] = out_seq[q] /\ in_seq'[q] = in_seq[q]
           /\ Rotations(p)' = Rotations(p) + 1 /\ Rotations(q)' = Rotations(q)
           /\ epochs'[p].local = epochs[p].local /\ epochs'[p].peer = epochs[p].peer + 1
           /\ epochs'[q] = epochs[q]
<1>1. epochs \in [Ends -> [local : Nat, peer : Nat]] /\ p # q
  BY TwoEnds DEF Keyed
<1>2. epochs' = [epochs EXCEPT ![p].peer = epochs[p].peer + 1]
  BY DEF TakesKeyUpdate, check_peer_epoch
<1>3. /\ epochs' \in [Ends -> [local : Nat, peer : Nat]]
      /\ epochs'[p].local = epochs[p].local /\ epochs'[p].peer = epochs[p].peer + 1
      /\ epochs'[q] = epochs[q]
  BY <1>1, <1>2
<1>4. Rotations(p)' = Rotations(p) + 1 /\ Rotations(q)' = Rotations(q)
  BY <1>1, <1>3 DEF Rotations
<1>5. UNCHANGED <<conn, opened, unopened, sent>> /\ rekey_advance(p)
  BY ZenonT(30) DEF TakesKeyUpdate, Moved
<1>6. /\ DOMAIN secret' = Ends /\ DOMAIN keys' = Ends
      /\ \A x \in Ends : /\ secret'[x] = traffic_secret("handshake", Rotations(x)')
                        /\ keys'[x] = KeysOf(Rotations(x)')
      /\ out_seq' \in [Ends -> 1..SeqMax] /\ in_seq' \in [Ends -> 1..SeqMax]
      /\ out_seq'[p] = 1 /\ in_seq'[p] = 1
      /\ out_seq'[q] = out_seq[q] /\ in_seq'[q] = in_seq[q]
  BY <1>4, <1>5, Advances, ZenonT(30)
<1> QED BY <1>3, <1>4, <1>5, <1>6, ZenonT(60) DEF Keyed, Moved

\* Sealing takes a pair that was not in use, and counts it.
LEMMA SealingCounts ==
    ASSUME Keyed, Counted, NEW p \in Ends, NEW q \in Ends, q = Other(p), NEW t, NEW v,
           SentOne(p, q, t, v), Rotations(q)' = Rotations(q), out_seq'[q] = out_seq[q],
           \/ Rotations(p)' = Rotations(p) /\ out_seq'[p] = out_seq[p] + 1
           \/ Rotations(p)' = Rotations(p) + 1
    PROVE  Counted'
<1> DEFINE new == <<KeyOf(p, Rotations(p)), <<IvOf(p, Rotations(p)), out_seq[p]>>>>
<1>1. Rotations(p) \in Nat /\ out_seq[p] \in Nat /\ out_seq[q] \in Nat /\ Rotations(q) \in Nat
  BY RotationsNat, SMTT(60)
<1>2. \A x \in Ends : x = p \/ x = q
  BY TwoEnds, SMTT(60)
<1>3. used' = used \cup {new} /\ reused' = (reused \/ new \in used)
  BY ZenonT(60) DEF SentOne
<1>4. new \notin used
  <2> SUFFICES ASSUME new \in used PROVE FALSE
    BY ZenonT(60)
  <2>1. PICK x \in Ends, g \in Nat, n \in Nat :
            /\ new = <<KeyOf(x, g), <<IvOf(x, g), n>>>>
            /\ g < Rotations(x) \/ (g = Rotations(x) /\ n < out_seq[x])
    BY ZenonT(60) DEF Counted
  <2>2. KeyOf(p, Rotations(p)) = KeyOf(x, g) /\ out_seq[p] = n
    BY <2>1, ZenonT(60)
  <2>3. p = x /\ Rotations(p) = g
    BY <1>1, <2>2, KeyInjective, SMTT(60)
  <2> QED BY <1>1, <2>1, <2>2, <2>3, SMTT(60)
<1>5. ~reused'
  BY <1>3, <1>4, ZenonT(60) DEF Counted
<1>6. ASSUME NEW u \in used'
      PROVE  \E x \in Ends, g \in Nat, n \in Nat :
                /\ u = <<KeyOf(x, g), <<IvOf(x, g), n>>>>
                /\ g < Rotations(x)' \/ (g = Rotations(x)' /\ n < out_seq'[x])
  <2>1. CASE u \in used
    <3>1. PICK x \in Ends, g \in Nat, n \in Nat :
              /\ u = <<KeyOf(x, g), <<IvOf(x, g), n>>>>
              /\ g < Rotations(x) \/ (g = Rotations(x) /\ n < out_seq[x])
      BY <2>1, ZenonT(60) DEF Counted
    <3>2. g < Rotations(x)' \/ (g = Rotations(x)' /\ n < out_seq'[x])
      BY <1>1, <1>2, <3>1
    <3> QED BY <3>1, <3>2, ZenonT(60)
  <2>2. CASE u = new
    <3>1. Rotations(p) < Rotations(p)' \/ (Rotations(p) = Rotations(p)' /\ out_seq[p] < out_seq'[p])
      BY <1>1, SMTT(60)
    <3> QED BY <1>1, <2>2, <3>1, ZenonT(60)
  <2> QED BY <1>3, <2>1, <2>2, ZenonT(60)
<1> QED BY <1>5, <1>6, SMTT(60) DEF Counted

LEMMA ReceivingCounts ==
    ASSUME Keyed, Counted, NEW p \in Ends, NEW q \in Ends, q = Other(p), UNCHANGED <<used, reused>>,
           Rotations(q)' = Rotations(q), out_seq'[q] = out_seq[q],
           \/ Rotations(p)' = Rotations(p) /\ out_seq'[p] = out_seq[p]
           \/ Rotations(p)' = Rotations(p) + 1
    PROVE  Counted'
<1>1. Rotations(p) \in Nat /\ out_seq[p] \in Nat /\ out_seq[q] \in Nat /\ Rotations(q) \in Nat
  BY RotationsNat, SMTT(60)
<1>2. \A x \in Ends : x = p \/ x = q
  BY TwoEnds
<1>3. ~reused'
  BY ZenonT(60) DEF Counted
<1>4. ASSUME NEW u \in used'
      PROVE  \E x \in Ends, g \in Nat, n \in Nat :
                /\ u = <<KeyOf(x, g), <<IvOf(x, g), n>>>>
                /\ g < Rotations(x)' \/ (g = Rotations(x)' /\ n < out_seq'[x])
  <2>1. PICK x \in Ends, g \in Nat, n \in Nat :
            /\ u = <<KeyOf(x, g), <<IvOf(x, g), n>>>>
            /\ g < Rotations(x) \/ (g = Rotations(x) /\ n < out_seq[x])
    BY ZenonT(60) DEF Counted
  <2>2. g < Rotations(x)' \/ (g = Rotations(x)' /\ n < out_seq'[x])
    BY <1>1, <1>2, <2>1
  <2> QED BY <2>1, <2>2, ZenonT(60)
<1> QED BY <1>3, <1>4 DEF Counted

\* Two ends fresh from their handshake.
LEMMA KeyInit == CInit => KeyInv
<1> SUFFICES ASSUME CInit PROVE KeyInv
  BY ZenonT(60)
<1>1. \A p \in Ends : Rotations(p) = 0
  BY SMTT(60) DEF CInit, Rotations
<1>2. Keyed
  BY <1>1, SeqMaxAssumption, SMTT(60) DEF CInit, Keyed, KeysOf, Master
<1>3. Counted
  BY DEF CInit, Counted
<1> QED BY <1>2, <1>3 DEF KeyInv

\* Every way to send seals with a new pair.
LEMMA SendKeys ==
    ASSUME KeyInv, NEW p \in Ends, NEW q \in Ends, q = Other(p),
           SendApp(p) \/ SendKeyUpdate(p) \/ SendClose(p)
    PROVE  KeyInv'
<1>1. Keyed /\ Counted
  BY DEF KeyInv
<1>2. CASE SendApp(p)
  <2>1. /\ Keyed' /\ SentOne(p, q, "APP_DATA", Len(sent[p]) + 1)
        /\ out_seq'[p] = out_seq[p] + 1 /\ out_seq'[q] = out_seq[q]
    BY <1>1, <1>2, SendAppKeyed, ZenonT(30)
  <2>2. Rotations(p)' = Rotations(p) /\ Rotations(q)' = Rotations(q)
    BY <1>2, ZenonT(30) DEF SendApp, Rotations
  <2>3. Counted'
    BY <1>1, <2>1, <2>2, SealingCounts, ZenonT(30)
  <2> QED BY <2>1, <2>3, ZenonT(30) DEF KeyInv
<1>3. CASE SendKeyUpdate(p)
  <2>1. /\ Keyed' /\ SentOne(p, q, "KEY_UPDATE", epochs[p].local + 1)
        /\ out_seq'[q] = out_seq[q]
        /\ Rotations(p)' = Rotations(p) + 1 /\ Rotations(q)' = Rotations(q)
    BY <1>1, <1>3, SendKeyUpdateKeyed, ZenonT(30)
  <2>2. Counted'
    BY <1>1, <2>1, SealingCounts, ZenonT(30)
  <2> QED BY <2>1, <2>2, ZenonT(30) DEF KeyInv
<1>4. CASE SendClose(p)
  <2>1. /\ Keyed' /\ SentOne(p, q, "CLOSE_NOTIFY", 0)
        /\ out_seq'[p] = out_seq[p] + 1 /\ out_seq'[q] = out_seq[q]
    BY <1>1, <1>4, SendCloseKeyed, ZenonT(30)
  <2>2. Rotations(p)' = Rotations(p) /\ Rotations(q)' = Rotations(q)
    BY <1>4, ZenonT(30) DEF SendClose, Rotations
  <2>3. Counted'
    BY <1>1, <2>1, <2>2, SealingCounts, ZenonT(30)
  <2> QED BY <2>1, <2>3, ZenonT(30) DEF KeyInv
<1> QED BY <1>2, <1>3, <1>4, ZenonT(30)

\* However a record is taken, the pairs in use stay behind the counters.
LEMMA ReceiveKeys ==
    ASSUME KeyInv, NEW p \in Ends, NEW q \in Ends, q = Other(p), Receive(p)
    PROVE  KeyInv'
<1>1. Keyed /\ Counted
  BY DEF KeyInv
<1>2. PICK r : r = Head(chan[p])
  OBVIOUS
<1>3. /\ conn[p] \in {"kAuthenticated", "kClosing"} /\ r \in SealedRecords(q) /\ Moved(p, q)
      /\ \/ Fatal(p)
         \/ record_opens(p, r) /\ TakesApp(p, r)
         \/ check_peer_epoch(p, r.payload) /\ TakesKeyUpdate(p, r)
         \/ record_opens(p, r) /\ TakesClose(p)
  BY <1>1, <1>2, ReceiveSplits, ZenonT(30)
<1>4. UNCHANGED <<used, reused>>
  BY <1>3, ZenonT(30) DEF Moved
<1>5. \/ Keyed' /\ UNCHANGED <<epochs, out_seq>>
      \/ /\ Keyed' /\ out_seq'[q] = out_seq[q]
         /\ Rotations(p)' = Rotations(p) + 1 /\ Rotations(q)' = Rotations(q)
  <2>1. CASE Fatal(p)
    BY <1>1, <1>3, <2>1, FatalKeyed, ZenonT(30)
  <2>2. CASE record_opens(p, r) /\ TakesApp(p, r)
    BY <1>1, <1>3, <2>2, TakesAppKeyed, ZenonT(30)
  <2>3. CASE check_peer_epoch(p, r.payload) /\ TakesKeyUpdate(p, r)
    BY <1>1, <1>3, <2>3, TakesKeyUpdateKeyed, ZenonT(30)
  <2>4. CASE record_opens(p, r) /\ TakesClose(p)
    BY <1>1, <1>3, <2>4, TakesCloseKeyed, ZenonT(30)
  <2> QED BY <1>3, <2>1, <2>2, <2>3, <2>4, ZenonT(30)
<1>6. CASE Keyed' /\ UNCHANGED <<epochs, out_seq>>
  <2>1. Rotations(p)' = Rotations(p) /\ Rotations(q)' = Rotations(q)
    BY <1>6, ZenonT(30) DEF Rotations
  <2>2. out_seq'[p] = out_seq[p] /\ out_seq'[q] = out_seq[q]
    BY <1>6, ZenonT(30)
  <2>3. Counted'
    BY <1>1, <1>4, <2>1, <2>2, ReceivingCounts, ZenonT(30)
  <2> QED BY <1>6, <2>3, ZenonT(30) DEF KeyInv
<1>7. CASE /\ Keyed' /\ out_seq'[q] = out_seq[q]
           /\ Rotations(p)' = Rotations(p) + 1 /\ Rotations(q)' = Rotations(q)
  <2>1. Counted'
    BY <1>1, <1>4, <1>7, ReceivingCounts, ZenonT(30)
  <2> QED BY <1>7, <2>1, ZenonT(30) DEF KeyInv
<1> QED BY <1>5, <1>6, <1>7, ZenonT(30)

LEMMA KeyStep == KeyInv /\ [CNext]_cvars => KeyInv'
<1> SUFFICES ASSUME KeyInv, [CNext]_cvars PROVE KeyInv'
  OBVIOUS
<1>1. ASSUME NEW p \in Ends, SendApp(p) \/ SendKeyUpdate(p) \/ SendClose(p) \/ Receive(p)
      PROVE  KeyInv'
  BY <1>1, TwoEnds, SendKeys, ReceiveKeys, ZenonT(30)
<1>2. CASE UNCHANGED cvars
  <2>1. UNCHANGED <<secret, keys, out_seq, in_seq, epochs, conn, chan, sent, opened, used, reused>>
    BY <1>2, ZenonT(30) DEF cvars
  <2>2. \A p \in Ends : Rotations(p)' = Rotations(p)
    BY <2>1, ZenonT(30) DEF Rotations
  <2>3. Keyed'
    BY <2>1, <2>2 DEF KeyInv, Keyed
  <2>4. Counted'
    BY <2>1, <2>2 DEF KeyInv, Counted
  <2> QED BY <2>3, <2>4 DEF KeyInv
<1> QED BY <1>1, <1>2, ZenonT(30) DEF CNext

\* No two records are sealed with the same key and nonce, for every width of the sequence
\* number and any number of key updates (sl_nonce_next, sl_rekey_advance).
THEOREM NoncesOnce == CSpec => []NonceOnce
<1>1. KeyInv => NonceOnce
  BY DEF KeyInv, Counted, NonceOnce
<1> QED BY <1>1, KeyInit, KeyStep, PTL DEF CSpec
===============================================================================
