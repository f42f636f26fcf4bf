---------------------------- MODULE SessionProofs -----------------------------
(***************************************************************************)
(* Proofs about what two ends remember of each other.  The table of sessions *)
(* and the tickets issued from it agree with what happened to each session; *)
(* the receiver of a file never takes a chunk for written that is not there, *)
(* and a transfer that calls itself complete has the same bytes.           *)
(***************************************************************************)
EXTENDS Sessions, FileTransfer, FiniteSetTheorems, WellFoundedInduction, TLAPS

\* What the table says of a session agrees with what happened to it, its bytes bound those
\* since the last change of keys, and the last answer about it was the right one.
Entry(id) ==
    /\ sessions[id] \in [peer : Peers, opened : Nat, last : Nat, bytes : Nat, since_rekey : Nat]
    /\ sessions[id].last = touched[id] /\ sessions[id].since_rekey <= sessions[id].bytes
    /\ advice.id = id /\ sessions[id].bytes >= RekeyBytes => advice.rekey

TableRight ==
    /\ now \in Nat /\ wall \in Nat /\ next_id \in Nat \ {0}
    /\ DOMAIN touched = 1..next_id - 1 /\ DOMAIN sessions \subseteq 1..next_id - 1
    /\ sessions = [id \in DOMAIN sessions |-> sessions[id]]
    /\ advice \in [id : Nat, rekey : BOOLEAN] /\ advice.id < next_id
    /\ \A id \in DOMAIN sessions : Entry(id)

Issued(t) ==
    t.body.lifetime = TicketLifetime /\ t.body.issued_at \in Nat /\ t.body.id \in 1..next_id - 1
TicketsRight == (\A t \in tickets : Issued(t)) /\ TicketHonest

SessionInv == TableRight /\ TicketsRight

\* Tickets do not depend on the table.
LEMMA TicketsKept ==
    ASSUME TicketsRight, next_id \in Nat, next_id' \in Nat, next_id' >= next_id,
           UNCHANGED <<tickets, resumed>>
    PROVE  TicketsRight'
<1>1. \A t \in tickets : Issued(t)'
  BY SMTT(60) DEF TicketsRight, Issued
<1>2. TicketHonest'
  BY <1>1, SMTT(60) DEF TicketsRight, TicketHonest, Issued
<1> QED BY <1>1, <1>2, ZenonT(60) DEF TicketsRight

LEMMA RegisterInv ==
    ASSUME SessionInv, NEW peer \in Peers, register_session(peer)
    PROVE  SessionInv'
<1> DEFINE new == [peer |-> peer, opened |-> now, last |-> now, bytes |-> 0, since_rekey |-> 0]
<1>1. /\ now \in Nat /\ next_id \in Nat \ {0}
      /\ DOMAIN touched = 1..next_id - 1 /\ DOMAIN sessions \subseteq 1..next_id - 1
      /\ advice \in [id : Nat, rekey : BOOLEAN] /\ advice.id < next_id
      /\ \A id \in DOMAIN sessions : Entry(id)
  BY DEF SessionInv, TableRight
<1>2. next_id \notin DOMAIN sessions /\ next_id \notin DOMAIN touched
  BY <1>1, SMTT(60)
<1>3. /\ DOMAIN sessions' = DOMAIN sessions \cup {next_id} /\ sessions'[next_id] = new
      /\ \A id \in DOMAIN sessions : sessions'[id] = sessions[id]
      /\ sessions' = [id \in DOMAIN sessions' |-> sessions'[id]]
  BY <1>2, ZenonT(60) DEF register_session, Emplaced
<1>4. /\ DOMAIN touched' = DOMAIN touched \cup {next_id} /\ touched'[next_id] = now
      /\ \A id \in DOMAIN touched : touched'[id] = touched[id]
  BY <1>2, ZenonT(60) DEF register_session, Emplaced
<1>5. next_id' = next_id + 1 /\ UNCHANGED <<now, wall, tickets, resumed, advice>>
  BY DEF register_session
<1>6. ASSUME NEW id \in DOMAIN sessions' PROVE Entry(id)'
  <2>1. CASE id = next_id
    BY <1>1, <1>3, <1>4, <1>5, <2>1, SMTT(60) DEF Entry
  <2>2. CASE id \in DOMAIN sessions
    BY <1>1, <1>3, <1>4, <1>5, <2>2, ZenonT(60) DEF Entry
  <2> QED BY <1>3, <2>1, <2>2, ZenonT(60)
<1>7. TableRight'
  BY <1>1, <1>3, <1>4, <1>5, <1>6, SMTT(60) DEF SessionInv, TableRight
<1>8. TicketsRight'
  BY <1>1, <1>5, TicketsKept, SMTT(60) DEF SessionInv
<1> QED BY <1>7, <1>8 DEF SessionInv
\* What traffic changes of a session.
LEMMA ActiveFields ==
    ASSUME now \in Nat, NEW n \in Nat,
           NEW s \in [peer : Peers, opened : Nat, last : Nat, bytes : Nat, since_rekey : Nat]
    PROVE  /\ Active(s, n) \in [peer : Peers, opened : Nat, last : Nat, bytes : Nat, since_rekey : Nat]
           /\ Active(s, n).last = now /\ Active(s, n).bytes = s.bytes + n
           /\ Active(s, n).since_rekey = s.since_rekey + n
<1> DEFINE R == [peer : Peers, opened : Nat, last : Nat, bytes : Nat, since_rekey : Nat]
<1>0. s.bytes + n \in Nat /\ s.since_rekey + n \in Nat
  OBVIOUS
<1>a. [s EXCEPT !.bytes = s.bytes + n] \in R
  BY <1>0
<1>1. PICK a \in R : a = [s EXCEPT !.bytes = s.bytes + n]
  BY <1>a
<1>b. [a EXCEPT !.since_rekey = s.since_rekey + n] \in R
  BY <1>0
<1>2. PICK b \in R : b = [a EXCEPT !.since_rekey = s.since_rekey + n]
  BY <1>b
<1>3. [b EXCEPT !.last = now] \in R /\ Active(s, n) = [b EXCEPT !.last = now]
  BY <1>1, <1>2, ZenonT(60) DEF Active
<1> QED BY <1>1, <1>2, <1>3, ZenonT(60)

LEMMA TrafficInv ==
    ASSUME SessionInv, NEW id \in Nat, NEW n \in Nat, record_traffic(id, n)
    PROVE  SessionInv'
<1>1. /\ now \in Nat /\ next_id \in Nat \ {0}
      /\ DOMAIN touched = 1..next_id - 1 /\ DOMAIN sessions \subseteq 1..next_id - 1
      /\ advice \in [id : Nat, rekey : BOOLEAN] /\ advice.id < next_id
      /\ \A x \in DOMAIN sessions : Entry(x) /\ x # 0
  BY DEF SessionInv, TableRight
<1>2. CASE id \notin DOMAIN sessions
  <2>1. advice' = NoAdvice /\ UNCHANGED <<sessions, next_id, now, wall, tickets, touched, resumed>>
    BY <1>2, ZenonT(60) DEF record_traffic
  <2>2. ASSUME NEW x \in DOMAIN sessions PROVE Entry(x)'
    BY <1>1, <2>1, ZenonT(60) DEF Entry, NoAdvice
  <2>3. TableRight'
    BY <1>1, <2>1, <2>2 DEF SessionInv, TableRight, NoAdvice
  <2>4. TicketsRight'
    BY <1>1, <2>1, TicketsKept DEF SessionInv
  <2> QED BY <2>3, <2>4, ZenonT(60) DEF SessionInv
<1>3. CASE id \in DOMAIN sessions
  <2> DEFINE s == Active(sessions[id], n)
  <2>1. /\ sessions' = [sessions EXCEPT ![id] = s]
        /\ advice' = [id |-> id, rekey |-> Advised(sessions'[id])]
        /\ touched' = [touched EXCEPT ![id] = now]
        /\ UNCHANGED <<next_id, now, wall, tickets, resumed>>
    BY <1>3, ZenonT(60) DEF record_traffic
  <2>2. /\ s \in [peer : Peers, opened : Nat, last : Nat, bytes : Nat, since_rekey : Nat]
        /\ s.last = now /\ s.since_rekey <= s.bytes
    <3>1. /\ sessions[id] \in [peer : Peers, opened : Nat, last : Nat, bytes : Nat, since_rekey : Nat]
          /\ sessions[id].since_rekey <= sessions[id].bytes
      BY <1>1, <1>3, ZenonT(60) DEF Entry
    <3>2. /\ Active(sessions[id], n) \in [peer : Peers, opened : Nat, last : Nat, bytes : Nat, since_rekey : Nat]
          /\ Active(sessions[id], n).last = now
          /\ Active(sessions[id], n).since_rekey <= Active(sessions[id], n).bytes
      BY <1>1, <3>1, ActiveFields, SMTT(60)
    <3> QED BY <3>2, ZenonT(60)
  <2> HIDE DEF s
  <2>3. /\ DOMAIN sessions' = DOMAIN sessions /\ sessions'[id] = s
        /\ \A x \in DOMAIN sessions : x # id => sessions'[x] = sessions[x]
        /\ sessions' = [x \in DOMAIN sessions' |-> sessions'[x]]
    BY <1>3, <2>1, ZenonT(60)
  <2>4. /\ DOMAIN touched' = DOMAIN touched /\ touched'[id] = now
        /\ \A x \in DOMAIN touched : x # id => touched'[x] = touched[x]
    BY <1>1, <1>3, <2>1, ZenonT(60)
  <2>5. /\ advice'.id = id /\ advice'.rekey = Advised(s) /\ advice' \in [id : Nat, rekey : BOOLEAN]
    BY <2>1, <2>2, <2>3, SessionConfig, ZenonT(60) DEF Advised
  <2>6. Advised(s) = (s.bytes >= RekeyBytes \/ s.last - s.opened >= RekeySeconds)
    BY ZenonT(60) DEF Advised
  <2>7. Entry(id)'
    BY <2>1, <2>2, <2>3, <2>4, <2>5, <2>6, ZenonT(60) DEF Entry
  <2>8. ASSUME NEW x \in DOMAIN sessions, x # id PROVE Entry(x)'
    BY <1>1, <2>1, <2>3, <2>4, <2>5, <2>8, ZenonT(60) DEF Entry
  <2>9. TableRight'
    BY <1>1, <1>3, <2>1, <2>3, <2>4, <2>5, <2>7, <2>8, SMTT(60) DEF SessionInv, TableRight
  <2>10. TicketsRight'
    BY <1>1, <2>1, TicketsKept DEF SessionInv
  <2> QED BY <2>9, <2>10, ZenonT(60) DEF SessionInv
<1> QED BY <1>2, <1>3

\* Keys changed: the bytes since then start again.
LEMMA RekeyInv ==
    ASSUME SessionInv, NEW id, note_rekey(id)
    PROVE  SessionInv'
<1>1. /\ next_id \in Nat \ {0} /\ \A x \in DOMAIN sessions : Entry(x)
  BY DEF SessionInv, TableRight
<1>2. /\ id \in DOMAIN sessions /\ sessions' = [sessions EXCEPT ![id].since_rekey = 0]
      /\ UNCHANGED <<next_id, now, wall, tickets, touched, resumed, advice>>
  BY DEF note_rekey
<1>3. /\ DOMAIN sessions' = DOMAIN sessions
      /\ sessions'[id] = [sessions[id] EXCEPT !.since_rekey = 0]
      /\ \A x \in DOMAIN sessions : x # id => sessions'[x] = sessions[x]
      /\ sessions' = [x \in DOMAIN sessions' |-> sessions'[x]]
  BY <1>2, ZenonT(60)
<1>4. Entry(id)'
  BY <1>1, <1>2, <1>3 DEF Entry
<1>5. ASSUME NEW x \in DOMAIN sessions, x # id PROVE Entry(x)'
  BY <1>1, <1>2, <1>3, <1>5 DEF Entry
<1>6. TableRight'
  BY <1>1, <1>2, <1>3, <1>4, <1>5 DEF SessionInv, TableRight
<1>7. TicketsRight'
  BY <1>1, <1>2, TicketsKept DEF SessionInv
<1> QED BY <1>6, <1>7 DEF SessionInv

\* Sessions that go leave the others as they are.
LEMMA FewerInv ==
    ASSUME SessionInv, NEW S \in SUBSET DOMAIN sessions, sessions' = Restrict(sessions, S),
           UNCHANGED <<next_id, now, wall, tickets, touched, resumed, advice>>
    PROVE  SessionInv'
<1>1. /\ next_id \in Nat \ {0} /\ \A x \in DOMAIN sessions : Entry(x)
  BY DEF SessionInv, TableRight
<1>2. /\ DOMAIN sessions' = S /\ \A x \in S : sessions'[x] = sessions[x]
      /\ sessions' = [x \in DOMAIN sessions' |-> sessions'[x]]
  BY ZenonT(60) DEF Restrict
<1>3. ASSUME NEW x \in S PROVE Entry(x)'
  BY <1>1, <1>2, ZenonT(60) DEF Entry
<1>4. TableRight'
  BY <1>2, <1>3 DEF SessionInv, TableRight
<1>5. TicketsRight'
  BY <1>1, TicketsKept DEF SessionInv
<1> QED BY <1>4, <1>5, ZenonT(60) DEF SessionInv

LEMMA IssueInv ==
    ASSUME SessionInv, NEW id, NEW stk, issue_ticket(id, stk)
    PROVE  SessionInv'
<1>1. /\ next_id \in Nat \ {0} /\ wall \in Nat /\ DOMAIN sessions \subseteq 1..next_id - 1
  BY DEF SessionInv, TableRight
<1>t. PICK t : t = ticket_seal(stk, Cardinality(tickets),
                              [issued_at |-> wall, lifetime |-> TicketLifetime, id |-> id,
                               peer |-> sessions[id].peer])
  BY ZenonT(60)
<1>2. /\ tickets' = tickets \cup {t}
      /\ t.body.issued_at = wall /\ t.body.lifetime = TicketLifetime /\ t.body.id = id
  BY <1>t, ZenonT(60) DEF issue_ticket, ticket_seal
<1>3. /\ id \in DOMAIN sessions
      /\ UNCHANGED <<sessions, next_id, now, wall, touched, resumed, advice>>
  BY ZenonT(60) DEF issue_ticket
<1>4. TableRight'
  BY <1>3, ZenonT(60) DEF SessionInv, TableRight, Entry
<1>5. Issued(t)'
  BY <1>1, <1>2, <1>3, ZenonT(60) DEF Issued
<1>6. \A u \in tickets : Issued(u)'
  BY <1>3, ZenonT(60) DEF SessionInv, TicketsRight, Issued
<1>7. TicketHonest'
  BY <1>2, <1>3, ZenonT(60) DEF SessionInv, TicketsRight, TicketHonest
<1> QED BY <1>2, <1>4, <1>5, <1>6, <1>7, ZenonT(60) DEF SessionInv, TicketsRight

LEMMA ConsumeInv ==
    ASSUME SessionInv, NEW stk, NEW t \in tickets, consume_ticket(stk, t)
    PROVE  SessionInv'
<1>1. next_id \in Nat /\ wall \in Nat /\ Issued(t)
  BY DEF SessionInv, TableRight, TicketsRight
<1>2. /\ ticket_is_fresh(t.body) /\ resumed' = <<wall, t>>
      /\ UNCHANGED <<sessions, next_id, now, wall, tickets, touched, advice>>
  BY ZenonT(60) DEF consume_ticket
<1>3. TableRight'
  BY <1>2 DEF SessionInv, TableRight, Entry
<1>4. resumed'[1] = wall /\ resumed'[2] = t
  BY <1>2, ZenonT(60)
<1>5. wall - t.body.issued_at \in 0..(TicketLifetime - 1) /\ t.body.id < next_id
  BY <1>1, <1>2, SessionConfig, SMTT(60) DEF ticket_is_fresh, Issued
<1>6. TicketHonest'
  BY <1>2, <1>4, <1>5, ZenonT(60) DEF TicketHonest
<1>7. \A u \in tickets : Issued(u)'
  BY <1>2 DEF SessionInv, TicketsRight, Issued
<1> QED BY <1>2, <1>3, <1>6, <1>7, ZenonT(60) DEF SessionInv, TicketsRight

\* Time passes, or an operator sets the wall clock back.
LEMMA ClockInv ==
    ASSUME SessionInv, now' \in Nat, wall' \in Nat,
           UNCHANGED <<sessions, next_id, tickets, touched, resumed, advice>>
    PROVE  SessionInv'
<1>1. TableRight'
  BY DEF SessionInv, TableRight, Entry
<1>2. TicketsRight'
  BY TicketsKept, SMTT(60) DEF SessionInv, TableRight
<1> QED BY <1>1, <1>2, ZenonT(60) DEF SessionInv

LEMMA SessionsInit == SInit => SessionInv
BY SMTT(60) DEF SInit, SessionInv, TableRight, TicketsRight, TicketHonest, NoAdvice

LEMMA SessionsStep == SessionInv /\ [SNext]_svars => SessionInv'
<1> SUFFICES ASSUME SessionInv, [SNext]_svars PROVE SessionInv'
  OBVIOUS
<1>1. ASSUME NEW peer \in Peers, register_session(peer) PROVE SessionInv'
  BY <1>1, RegisterInv
<1>2. ASSUME NEW id \in 1..MaxSessions, NEW n \in 1..2, record_traffic(id, n) PROVE SessionInv'
  <2>1. id \in Nat /\ n \in Nat
    OBVIOUS
  <2> QED BY <1>2, <2>1, TrafficInv
<1>3. ASSUME NEW id, note_rekey(id) PROVE SessionInv'
  BY <1>3, RekeyInv, ZenonT(60)
<1>4. ASSUME NEW id, close_session(id) PROVE SessionInv'
  BY <1>4, FewerInv, ZenonT(60) DEF close_session
<1>5. ASSUME NEW id, NEW stk, issue_ticket(id, stk) PROVE SessionInv'
  BY <1>5, IssueInv, ZenonT(60)
<1>6. ASSUME NEW stk, NEW t \in tickets, consume_ticket(stk, t) PROVE SessionInv'
  BY <1>6, ConsumeInv, ZenonT(60)
<1>7. CASE sweep
  BY <1>7, FewerInv, ZenonT(60) DEF sweep
<1>8. CASE Tick \/ SetBack \/ UNCHANGED svars
  <2>1. now \in Nat /\ wall \in Nat
    BY DEF SessionInv, TableRight
  <2> QED BY <1>8, <2>1, ClockInv, SMTT(60) DEF Tick, SetBack, svars
<1> QED BY <1>1, <1>2, <1>3, <1>4, <1>5, <1>6, <1>7, <1>8, ZenonT(60) DEF SNext

\* A ticket that resumes is of a registered session and within its lifetime, and the advice
\* to change keys is not missed, whatever the limits in the configuration are
\* (session_manager.cpp record_traffic, issue_ticket, consume_ticket).
THEOREM SessionsRight == SSpec => []SessionsHonest
<1>1. SessionInv => SessionsHonest
  <2> SUFFICES ASSUME SessionInv PROVE SessionsHonest
    OBVIOUS
  <2>1. TicketHonest
    BY ZenonT(60) DEF SessionInv, TicketsRight
  <2>2. RekeyAdvised
    BY SessionConfig, SMTT(60) DEF SessionInv, TableRight, Entry, RekeyAdvised
  <2> QED BY <2>1, <2>2 DEF SessionsHonest
<1> QED BY <1>1, SessionsInit, SessionsStep, PTL DEF SSpec

\* A session that a step removes was idle as long as the timeout or is closed alone
\* (session_manager.cpp sweep, close_session).
THEOREM SweepsOnlyIdle == SSpec => ActiveKept
<1> DEFINE Taken == DOMAIN sessions \ DOMAIN sessions'
           A == \A id \in Taken : now - touched[id] >= IdleTimeout \/ Taken = {id}
<1>1. ASSUME SessionInv, [SNext]_svars PROVE [A]_svars
  <2>1. CASE sweep
    <3>1. DOMAIN sessions' = {id \in DOMAIN sessions : ~Idle(sessions[id])}
      BY <2>1, ZenonT(60) DEF sweep, Restrict
    <3> QED BY <1>1, <3>1, ZenonT(60) DEF SessionInv, TableRight, Entry, Idle
  <2>2. ASSUME NEW id, close_session(id) PROVE A
    <3>1. Taken = {id}
      BY <2>2, ZenonT(60) DEF close_session, Restrict
    <3> QED BY <3>1, ZenonT(60)
  <2>3. CASE DOMAIN sessions \subseteq DOMAIN sessions'
    BY <2>3, ZenonT(60)
  <2>4. ASSUME NEW peer \in Peers, register_session(peer) PROVE DOMAIN sessions \subseteq DOMAIN sessions'
    BY <2>4, ZenonT(60) DEF register_session, Emplaced
  <2>5. ASSUME NEW id, NEW n, record_traffic(id, n) PROVE DOMAIN sessions \subseteq DOMAIN sessions'
    BY <2>5 DEF record_traffic
  <2>6. ASSUME NEW id, note_rekey(id) PROVE DOMAIN sessions \subseteq DOMAIN sessions'
    BY <2>6, ZenonT(60) DEF note_rekey
  <2>7. ASSUME NEW id, NEW stk, issue_ticket(id, stk) PROVE DOMAIN sessions \subseteq DOMAIN sessions'
    BY <2>7 DEF issue_ticket
  <2>8. ASSUME NEW stk, NEW t, consume_ticket(stk, t) PROVE DOMAIN sessions \subseteq DOMAIN sessions'
    BY <2>8, ZenonT(60) DEF consume_ticket
  <2>9. CASE Tick \/ SetBack \/ UNCHANGED svars
    BY <2>9 DEF Tick, SetBack, svars
  <2> HIDE DEF A
  <2> QED BY <1>1, <2>1, <2>2, <2>3, <2>4, <2>5, <2>6, <2>7, <2>8, <2>9, SMTT(60) DEF SNext
<1> QED BY <1>1, SessionsInit, SessionsStep, PTL DEF SSpec, ActiveKept

-------------------------------------------------------------------------------
Cells == [v : {1, 2}, len : Int]
IsMeta(m) == m.total_chunks \in Nat /\ "sha256" \in DOMAIN m
IsChunk(f) == \E i \in Nat, d \in Cells, last \in BOOLEAN : f = chunk_pack(i, d, last)
IsFrame(f) == IsChunk(f) \/ \E m : IsMeta(m) /\ f = [meta |-> m]

\* The sender reads cells of the source, and what is under way was sent by it.
SenderInv ==
    /\ \E n \in Nat : source \in [0..(n - 1) -> Cells]
    /\ sent_meta = NoMeta \/ IsMeta(sent_meta)
    /\ next_idx \in Nat
    /\ \A f \in wire : IsFrame(f)
    /\ MaxCount \in Nat \ {0}

Chunks == 0..(meta.total_chunks - 1)
Slot(x) == x = [v |-> x.v, len |-> x.len, ext |-> x.ext]
Same(f, sum) ==
    /\ DOMAIN f = DOMAIN sum
    /\ \A i \in DOMAIN f : f[i] = [v |-> sum[i].v, len |-> sum[i].len, ext |-> sum[i].len]

\* Once the metadata is taken the destination has a slot for every chunk, the
\* marked ones are whole, and the digest is not taken before all are marked;
\* after that nothing writes to the file.
ReceiverInv ==
    /\ received = Cardinality(bits)
    /\ meta = NoMeta => bits = {} /\ ~hash_done /\ rx # "kComplete"
    /\ meta # NoMeta =>
           /\ IsMeta(meta)
           /\ file = [i \in Chunks |-> file[i]]
           /\ \A i \in Chunks : Slot(file[i])
           /\ bits \subseteq Chunks
           /\ \A i \in bits : file[i].v # Torn /\ file[i].v # 0
           /\ hash_done => bits = Chunks
           /\ rx = "kComplete" => hash_done /\ Same(file, meta.sha256)

TransferInv == SenderInv /\ ReceiverInv

\* The least number of a set of naturals is one of them.
LEMMA MinNat == ASSUME NEW S, S \subseteq Nat, S # {} PROVE Min(S) \in S
<1> DEFINE R == OpToRel(<, Nat)
<1>1. \A x, y \in Nat : <<y, x>> \in R <=> y < x
  BY DEF OpToRel
<1>2. IsWellFoundedOn(R, Nat)
  BY NatLessThanWellFounded, ZenonT(60)
<1> HIDE DEF R
<1>3. \E x \in S : \A y \in S : ~ (<<y, x>> \in R)
  BY <1>2, WFMin, ZenonT(60)
<1>4. PICK x \in S : \A y \in S : ~ (<<y, x>> \in R)
  BY <1>3
<1>5. ASSUME NEW y \in S PROVE ~ (y < x) /\ y \in Int /\ x \in Int
  <2>1. x \in Nat /\ y \in Nat
    BY <1>4
  <2>2. <<y, x>> \in R <=> y < x
    BY <1>1, <2>1, Zenon
  <2>3. ~ (<<y, x>> \in R)
    BY <1>4, Zenon
  <2> QED BY <2>1, <2>2, <2>3
<1>6. \E z \in S : \A y \in S : z =< y
  BY <1>5
<1> QED BY <1>6, Zenon DEF Min

\* The file size is a number: source keeps its chunks 0..n-1.
LEMMA SizeType == ASSUME SenderInv PROVE FileSize \in Int
<1>1. PICK n \in Nat : source \in [0..(n - 1) -> Cells]
  BY DEF SenderInv
<1>2. Cardinality(0..(n - 1)) = n
  BY FS_Interval
<1>3. CASE n = 0
  <2>1. source = <<>>
    BY <1>1, <1>3
  <2> QED BY <2>1 DEF FileSize
<1>4. CASE n # 0
  <2>1. Last(source) = n - 1 /\ Last(source) \in 0..(n - 1)
    BY <1>1, <1>2, <1>4 DEF Last
  <2>2. source[Last(source)].len \in Int /\ Last(source) \in Int
    BY <1>1, <2>1 DEF Cells
  <2> QED BY <2>2, TransferAssumption DEF FileSize
<1> QED BY <1>3, <1>4

\* The transfer starts with nothing sent and nothing taken.
LEMMA InitTransfer == TransferInit => TransferInv
<1> SUFFICES ASSUME TransferInit PROVE TransferInv
  OBVIOUS
<1>1. PICK sz \in Sizes : source = Source(sz)
  BY DEF TransferInit
<1>2. sz \in Nat /\ ChunkSize \in Nat \ {0} /\ MaxCount \in Nat \ {0}
  BY TransferAssumption, SMTT(60)
<1>3. \E n \in Nat : source \in [0..(n - 1) -> Cells]
  <2> DEFINE n == CeilDiv(sz, ChunkSize)
  <2>1. n \in Nat
    BY <1>2, SMTT(60) DEF CeilDiv
  <2> HIDE DEF n
  <2>2. source = [i \in 0..(n - 1) |->
            Cell(1, IF i = n - 1 THEN sz - (n - 1) * ChunkSize ELSE ChunkSize)]
    BY <1>1 DEF Source, n
  <2>3. (n - 1) * ChunkSize \in Int
    BY <1>2, <2>1, SMTT(60)
  <2>4. \A i \in 0..(n - 1) :
            Cell(1, IF i = n - 1 THEN sz - (n - 1) * ChunkSize ELSE ChunkSize) \in Cells
    BY <1>2, <2>1, <2>3, SMTT(60) DEF Cell, Cells
  <2>5. source \in [0..(n - 1) -> Cells]
    BY <2>2, <2>4
  <2> QED BY <2>1, <2>5
<1>4. SenderInv
  BY <1>2, <1>3 DEF TransferInit, SenderInv
<1>5. ReceiverInv
  BY FS_EmptySet DEF TransferInit, ReceiverInv
<1> QED BY <1>4, <1>5 DEF TransferInv

\* Steps that leave an end alone leave its part of the invariant.
LEMMA ReceiverKept == ASSUME ReceiverInv, UNCHANGED receiver PROVE ReceiverInv'
BY DEF ReceiverInv, receiver, Chunks

LEMMA SenderKept ==
  ASSUME SenderInv, UNCHANGED <<source, sent_meta, next_idx>>, wire' \subseteq wire
  PROVE  SenderInv'
BY DEF SenderInv

\* open announces a number of chunks and starts at the first.
LEMMA OpenInv == ASSUME TransferInv, Open PROVE TransferInv'
<1>1. SenderInv /\ ReceiverInv /\ UNCHANGED receiver /\ UNCHANGED <<source, wire>>
  BY DEF TransferInv, Open
<1>2. PICK name \in NameKinds : sent_meta' = Meta(FileSize, ChunkSize, name, Content)
  BY DEF Open
<1>3. FileSize \in Int /\ ChunkSize \in Nat \ {0} /\ MaxCount \in Nat \ {0}
  BY <1>1, SizeType, TransferAssumption DEF SenderInv
<1>4. CeilDiv(FileSize, ChunkSize) % MaxCount \in Nat
  BY <1>3, SMTT(60) DEF CeilDiv
<1>5. IsMeta(sent_meta')
  BY <1>2, <1>4, ZenonT(60) DEF Meta, IsMeta
<1>6. next_idx' \in Nat
  BY DEF Open
<1>7. SenderInv'
  BY <1>1, <1>5, <1>6, SMTT(60) DEF SenderInv
<1> QED BY <1>1, <1>7, ReceiverKept, ZenonT(60) DEF TransferInv

\* What the sender puts on the wire is what it read, under its own index.
LEMMA SendInv ==
  ASSUME TransferInv, send_meta \/ send_next_chunk \/ seek_chunk PROVE TransferInv'
<1>1. SenderInv /\ ReceiverInv /\ UNCHANGED receiver /\ UNCHANGED <<source, sent_meta>>
  BY DEF TransferInv, send_meta, send_next_chunk, seek_chunk, sender
<1>2. ASSUME send_meta PROVE SenderInv'
  <2>1. wire' = wire \cup {[meta |-> sent_meta]} /\ next_idx' = next_idx /\ IsMeta(sent_meta)
    BY <1>1, <1>2 DEF send_meta, sender, SenderInv
  <2>2. IsFrame([meta |-> sent_meta])
    BY <2>1, ZenonT(60) DEF IsFrame
  <2> QED BY <1>1, <2>1, <2>2, ZenonT(60) DEF SenderInv
<1>3. ASSUME send_next_chunk PROVE SenderInv'
  <2> DEFINE cell == ReadAt(next_idx)
             c == chunk_pack(next_idx, cell, next_idx + 1 = sent_meta.total_chunks)
  <2>1. CASE UNCHANGED <<next_idx, wire>>
    BY <1>1, <2>1 DEF SenderInv
  <2>2. CASE /\ cell.len # 0 /\ wire' \in {wire, wire \cup {c}}
             /\ next_idx' \in {next_idx, next_idx + 1}
    <3>1. next_idx \in Nat /\ next_idx' \in Nat
      BY <1>1, <2>2, SMTT(60) DEF SenderInv
    <3>2. cell \in Cells
      BY <1>1, <2>2 DEF SenderInv, ReadAt, Nothing, Cell
    <3>3. IsChunk(c)
      BY <3>1, <3>2, Zenon DEF IsChunk
    <3> HIDE DEF c
    <3> QED BY <1>1, <2>2, <3>1, <3>3, ZenonT(60) DEF SenderInv, IsFrame
  <2> QED BY <1>3, <2>1, <2>2, ZenonT(60) DEF send_next_chunk, Advance
<1>4. ASSUME seek_chunk PROVE SenderInv'
  <2>1. missing_chunks \subseteq Nat /\ missing_chunks # {} /\ next_idx' = Min(missing_chunks)
    BY <1>4 DEF seek_chunk, missing_chunks
  <2>2. next_idx' \in Nat
    BY <2>1, MinNat, ZenonT(60)
  <2> QED BY <1>1, <1>4, <2>2, ZenonT(60) DEF SenderInv, seek_chunk
<1>5. SenderInv'
  BY <1>2, <1>3, <1>4, ZenonT(60)
<1> QED BY <1>1, <1>5, ReceiverKept, ZenonT(60) DEF TransferInv

\* Somebody's write to the source leaves cells.
LEMMA EditInv == ASSUME TransferInv, Edit PROVE TransferInv'
<1>1. SenderInv /\ ReceiverInv /\ UNCHANGED receiver /\ UNCHANGED <<sent_meta, next_idx, wire>>
  BY DEF TransferInv, Edit
<1>2. PICK i \in DOMAIN source, len \in 0..ChunkSize :
          source' = [source EXCEPT ![i] = Cell(2, len)]
  BY ZenonT(60) DEF Edit
<1>3. Cell(2, len) \in Cells
  BY <1>2, TransferAssumption DEF Cell, Cells
<1>4. \E n \in Nat : source' \in [0..(n - 1) -> Cells]
  BY <1>1, <1>2, <1>3, ZenonT(60) DEF SenderInv
<1>5. SenderInv'
  BY <1>1, <1>4, ZenonT(60) DEF SenderInv
<1> QED BY <1>1, <1>5, ReceiverKept, ZenonT(60) DEF TransferInv

\* on_meta takes metadata once and truncates the destination.
LEMMA MetaInv ==
  ASSUME ReceiverInv, NEW m, IsMeta(m), NEW damage, on_meta(m, damage)
  PROVE  ReceiverInv'
<1>1. CASE UNCHANGED <<meta, bits, received, file, hash_done>> /\ rx' # "kComplete"
  BY <1>1, ZenonT(60) DEF ReceiverInv, Chunks
<1>2. CASE /\ meta = NoMeta /\ meta' = m /\ rx' # "kComplete"
           /\ file' = Holes(m) /\ bits' = {} /\ received' = 0 /\ hash_done' = hash_done
  <2>1. file' = [i \in Chunks' |-> file'[i]] /\ \A i \in Chunks' : Slot(file'[i])
    BY <1>2, ZenonT(60) DEF Chunks, Holes, Slot
  <2>2. received' = Cardinality(bits') /\ ~hash_done'
    BY <1>2, FS_EmptySet DEF ReceiverInv
  <2> QED BY <1>2, <2>1, <2>2, ZenonT(60) DEF ReceiverInv
<1> QED BY <1>1, <1>2, ZenonT(60) DEF on_meta, Answer, Fresh

\* on_chunk marks a chunk only after writing it, and takes the digest only when
\* the chunk it has just marked was the last one missing.
LEMMA ChunkInv ==
  ASSUME ReceiverInv, NEW c, c.index \in Nat, c.data \in Cells, on_chunk(c)
  PROVE  ReceiverInv'
<1>1. CASE UNCHANGED <<meta, bits, received, file, hash_done>> /\ rx' # "kComplete"
  BY <1>1, ZenonT(60) DEF ReceiverInv, Chunks
<1>2. CASE Screen(c) # "kAccepted"
  <2>1. Screen(c) # "kComplete"
    BY ZenonT(60) DEF Screen
  <2> QED BY <1>1, <1>2, <2>1 DEF on_chunk, Answer
<1>3. CASE Screen(c) = "kAccepted"
  <2> DEFINE i == c.index
  <2>1. /\ meta # NoMeta /\ meta' = meta /\ i \in Chunks /\ i \notin bits
        /\ IsMeta(meta) /\ bits \subseteq Chunks /\ meta.total_chunks \in Nat
    BY <1>3 DEF Screen, BadChunk, ReceiverInv, IsMeta, Chunks, on_chunk
  <2>2. ~hash_done /\ received = Cardinality(bits)
    BY <2>1, ZenonT(60) DEF ReceiverInv
  <2>3. IsFiniteSet(Chunks) /\ Cardinality(Chunks) = meta.total_chunks
    BY <2>1, FS_Interval DEF Chunks
  <2>4. IsFiniteSet(bits)
    BY <2>1, <2>3, FS_Subset, ZenonT(60)
  <2>5. CASE c.data.len > 0 /\ FailedWrite(c) /\ rx' = "kIoError" /\ hash_done' = hash_done
    <3>1. PICK ext : file' = [file EXCEPT ![i] = [v |-> Torn, len |-> 0, ext |-> ext]]
      BY <2>5, ZenonT(60) DEF FailedWrite, TornWrite
    <3>2. bits' = bits /\ received' = received
      BY <2>5 DEF FailedWrite
    <3>3. /\ file' = [j \in Chunks |-> file'[j]] /\ \A j \in Chunks : Slot(file'[j])
          /\ \A j \in bits : file'[j] = file[j]
      BY <2>1, <3>1, ZenonT(60) DEF ReceiverInv, Slot
    <3> QED BY <2>1, <2>2, <2>5, <3>2, <3>3, ZenonT(60) DEF ReceiverInv, Chunks
  <2>6. CASE /\ file' = [file EXCEPT ![i] = Written(@, c)] /\ Mark(i)
             /\ IF received' # meta.total_chunks
                THEN rx' = "kAccepted" /\ hash_done' = hash_done
                ELSE Verify(file')
    <3>1. bits' = bits \cup {i} /\ received' = received + 1
      BY <2>6, ZenonT(60) DEF Mark
    <3>2. received' = Cardinality(bits') /\ IsFiniteSet(bits') /\ bits' \subseteq Chunks
      BY <2>1, <2>2, <2>4, <3>1, FS_AddElement, ZenonT(60)
    <3>3. /\ file' = [j \in Chunks |-> file'[j]] /\ \A j \in Chunks : Slot(file'[j])
          /\ \A j \in bits' : file'[j].v # Torn /\ file'[j].v # 0
      <4>1. Written(file[i], c).v \in {1, 2} /\ Slot(Written(file[i], c))
        BY DEF Written, Slot, Cells
      <4>2. file' = [file EXCEPT ![i] = Written(file[i], c)]
        BY <2>6
      <4> DEFINE w == Written(file[i], c)
      <4> HIDE DEF w
      <4>3. file = [j \in Chunks |-> file[j]] /\ \A j \in Chunks : Slot(file[j])
        BY <2>1, ZenonT(60) DEF ReceiverInv
      <4>4. /\ file' = [j \in Chunks |-> file'[j]] /\ file'[i] = w
            /\ \A j \in Chunks : j # i => file'[j] = file[j]
        BY <2>1, <4>2, <4>3, ZenonT(60) DEF w
      <4>5. \A j \in bits : j # i /\ j \in Chunks /\ file[j].v # Torn /\ file[j].v # 0
        BY <2>1, ZenonT(60) DEF ReceiverInv
      <4>6. w.v # Torn /\ w.v # 0 /\ Slot(w)
        BY <4>1, SMTT(60) DEF w, Torn
      <4>7. \A j \in Chunks : Slot(file'[j])
        BY <4>3, <4>4, <4>6, ZenonT(60) DEF Slot
      <4> QED BY <3>1, <4>4, <4>5, <4>6, <4>7, ZenonT(60)
    <3>4. hash_done' => bits' = Chunks
      <4>1. hash_done' => received' = meta.total_chunks
        BY <2>2, <2>6, ZenonT(60)
      <4>2. received' = meta.total_chunks => bits' = Chunks
        BY <2>3, <3>2, FS_Subset, ZenonT(60)
      <4> QED BY <4>1, <4>2, ZenonT(60)
    <3>5. rx' = "kComplete" => hash_done' /\ Same(file', meta.sha256)
      <4> SUFFICES ASSUME rx' = "kComplete" PROVE hash_done' /\ Same(file', meta.sha256)
        OBVIOUS
      <4>1. hash_done' /\ Matches(file', meta.sha256)
        BY <2>6 DEF Verify, Answer
      <4>2. DOMAIN file' = Chunks
        BY <3>3
      <4> QED BY <3>3, <4>1, <4>2, ZenonT(60) DEF Matches, Same, Slot
    <3> QED BY <2>1, <3>2, <3>3, <3>4, <3>5, ZenonT(60) DEF ReceiverInv, Chunks
  <2> QED BY <1>3, <2>2, <2>5, <2>6, ZenonT(60) DEF on_chunk, Answer
<1> QED BY <1>2, <1>3, ZenonT(60)

\* Whatever arrives, damaged or not, was sent.
LEMMA ArriveInv ==
  ASSUME TransferInv, NEW f \in wire, NEW damage \in Damages, NEW keep \in BOOLEAN,
         Arrive(f, damage, keep)
  PROVE  TransferInv'
<1>1. SenderInv /\ ReceiverInv /\ IsFrame(f)
  BY DEF TransferInv, SenderInv
<1>2. SenderInv'
  <2>1. UNCHANGED <<source, sent_meta, next_idx>> /\ wire' \subseteq wire
    BY DEF Arrive, sender
  <2> QED BY <1>1, <2>1, SenderKept, ZenonT(60)
<1>3. ASSUME IsChunk(f) PROVE ReceiverInv'
  <2>1. PICK i \in Nat, d \in Cells, last \in BOOLEAN : f = chunk_pack(i, d, last)
    BY <1>3, ZenonT(60) DEF IsChunk
  <2>2. "meta" \notin DOMAIN f
    BY <2>1 DEF chunk_pack
  <2>3. Damaged(f, damage).index = i /\ Damaged(f, damage).data = d
    BY <2>1 DEF chunk_pack, Damaged
  <2>4. on_chunk(Damaged(f, damage))
    BY <2>2 DEF Arrive
  <2> QED BY <1>1, <2>3, <2>4, ChunkInv, ZenonT(60)
<1>4. ASSUME NEW m, IsMeta(m), f = [meta |-> m] PROVE ReceiverInv'
  <2>1. f.meta = m /\ "meta" \in DOMAIN f
    BY <1>4, ZenonT(60)
  <2>2. on_meta(m, damage)
    BY <2>1 DEF Arrive
  <2> QED BY <1>1, <1>4, <2>2, MetaInv, ZenonT(60)
<1> QED BY <1>1, <1>2, <1>3, <1>4, ZenonT(60) DEF IsFrame, TransferInv

\* Every step preserves the invariant.
LEMMA StepTransfer == TransferInv /\ [TransferNext]_ftvars => TransferInv'
<1> SUFFICES ASSUME TransferInv, [TransferNext]_ftvars PROVE TransferInv'
  OBVIOUS
<1>1. CASE TransferTick \/ UNCHANGED ftvars \/ \E f \in wire : LoseFrame(f)
  <2>1. /\ UNCHANGED <<source, sent_meta, next_idx>> /\ wire' \subseteq wire
        /\ UNCHANGED receiver
    BY <1>1 DEF TransferTick, ftvars, receiver, LoseFrame, sender
  <2> QED BY <2>1, SenderKept, ReceiverKept, ZenonT(60) DEF TransferInv
<1>2. CASE Restart
  <2>1. UNCHANGED <<source, sent_meta, next_idx>> /\ wire' \subseteq wire
    BY <1>2, ZenonT(60) DEF Restart, sender
  <2>2. ReceiverInv'
    BY <1>2, FS_EmptySet DEF Restart, ReceiverInv
  <2> QED BY <2>1, <2>2, SenderKept, ZenonT(60) DEF TransferInv
<1> QED BY <1>1, <1>2, OpenInv, SendInv, EditInv, ArriveInv, ZenonT(60) DEF TransferNext

\* The resume map is truthful for files of any size, through failed and torn
\* writes, duplicates, damaged frames and restarts of either end.
THEOREM MapTruthful == FairSpec => []BitmapTruthful
<1>1. TransferInv => BitmapTruthful
  <2> SUFFICES ASSUME TransferInv PROVE BitmapTruthful
    OBVIOUS
  <2>1. CASE meta = NoMeta
    BY <2>1, ZenonT(60) DEF TransferInv, ReceiverInv, BitmapTruthful
  <2>2. CASE meta # NoMeta
    <3>1. DOMAIN file = Chunks
      BY <2>2 DEF TransferInv, ReceiverInv
    <3> QED BY <2>2, <3>1, ZenonT(60) DEF TransferInv, ReceiverInv, BitmapTruthful
  <2> QED BY <2>1, <2>2, ZenonT(60)
<1> QED BY <1>1, InitTransfer, StepTransfer, PTL DEF FairSpec, TransferSpec

\* kComplete is answered only when the destination is the announced file.
THEOREM CompleteIsSame == FairSpec => []CompleteMeansSame
<1>1. TransferInv => CompleteMeansSame
  <2> SUFFICES ASSUME TransferInv PROVE CompleteMeansSame
    OBVIOUS
  <2>1. ASSUME meta # NoMeta
        PROVE  DOMAIN file = Chunks /\ Cardinality(Chunks) = meta.total_chunks
    <3>1. DOMAIN file = Chunks /\ meta.total_chunks \in Nat
      BY <2>1 DEF TransferInv, ReceiverInv, IsMeta
    <3>2. Cardinality(Chunks) = meta.total_chunks
      BY <3>1, FS_Interval, SMTT(60) DEF Chunks
    <3> QED BY <3>1, <3>2, ZenonT(60)
  <2>2. rx = "kComplete" => is_complete /\ Same(file, meta.sha256)
    BY <2>1, ZenonT(60) DEF TransferInv, ReceiverInv, is_complete
  <2>3. is_complete => bits = DOMAIN file
    BY <2>1 DEF TransferInv, ReceiverInv, is_complete
  <2> QED BY <2>2, <2>3 DEF CompleteMeansSame, Same
<1> QED BY <1>1, InitTransfer, StepTransfer, PTL DEF FairSpec, TransferSpec
===============================================================================
