---------------------------- MODULE SecureChannel -----------------------------
(***************************************************************************)
(* The record layer between two connections that have finished their       *)
(* handshake: sl_record.c, sl_nonce.c, sl_rekey.c, sl_close_notify.c and   *)
(* connection_state.cpp over two reliable streams. The code of the caller  *)
(* is external and does what sl_rekey.h and sl_record.h ask of it: it      *)
(* counts records itself, announces new keys with a KEY_UPDATE record that *)
(* carries its epoch, uses the keys right after it and restarts its counts *)
(* at 1; a record that does not open is fatal. The time a state was        *)
(* entered and the counters of events are left out.                        *)
(***************************************************************************)
EXTENDS KeySchedule, Integers, Sequences

\* connection_state.cpp: the life of one connection.
Gone == {"kPeerClosed", "kIoError", "kTimeout"}
ConnEvents == Gone \cup {"kStartHandshake", "kHandshakeDone", "kHandshakeFailed",
                         "kRecvAppRecord", "kSendAppRecord", "kBeginClose"}

\* The pairs that are accepted and where they lead.
ConnTable ==
    [kFresh         |-> [ev \in {"kStartHandshake"} |-> "kHandshaking"],
     kHandshaking   |-> [ev \in {"kHandshakeDone", "kHandshakeFailed"} |->
                            IF ev = "kHandshakeDone" THEN "kAuthenticated" ELSE "kClosed"],
     kAuthenticated |-> [ev \in {"kRecvAppRecord", "kSendAppRecord", "kBeginClose"} |->
                            IF ev = "kBeginClose" THEN "kClosing" ELSE "kAuthenticated"],
     kClosing       |-> [ev \in {"kRecvAppRecord"} |-> "kClosing"],
     kClosed        |-> [ev \in {} |-> "kClosed"]]
ConnValid(state, ev) == ev \in Gone \cup DOMAIN ConnTable[state]

\* Whatever is not in the table closes the connection.
conn_on_event(state, ev) ==
    IF ev \in DOMAIN ConnTable[state] THEN ConnTable[state][ev] ELSE "kClosed"

can_send_app(state) == state = "kAuthenticated"
-------------------------------------------------------------------------------
CONSTANTS SeqMax,        \* UINT64_MAX
          MaxEpoch, MaxSend, MaxFlight

ASSUME SeqMaxAssumption == SeqMax \in Nat \ {0}

Ends == {"client", "server"}
Other(p) == IF p = "client" THEN "server" ELSE "client"

VARIABLES secret, keys, out_seq, in_seq, epochs, conn, chan,
          sent, opened,  \* history: payloads sealed and opened by each end
          used, reused,  \* history: pairs of key and nonce, and a second use
          crossed,       \* history: a record was sent to, or under way to, an end with new keys
          unopened       \* history: the ends that met a record they could not open
cvars == <<secret, keys, out_seq, in_seq, epochs, conn, chan, sent, opened, used, reused,
           crossed, unopened>>

Master == traffic_secret("handshake", 0)
CInit ==
    /\ secret = [p \in Ends |-> Master]
    /\ keys = [p \in Ends |-> session_keys_derive(Master, [hash |-> "transcript"])]
    /\ out_seq = [p \in Ends |-> 1] /\ in_seq = [p \in Ends |-> 1]
    /\ epochs = [p \in Ends |-> [local |-> 0, peer |-> 0]]
    /\ conn = [p \in Ends |-> "kAuthenticated"]
    /\ chan = [p \in Ends |-> <<>>]
    /\ sent = [p \in Ends |-> <<>>] /\ opened = [p \in Ends |-> <<>>]
    /\ used = {} /\ reused = FALSE /\ crossed = FALSE /\ unopened = {}

Key(p, from) == IF from = "client" THEN keys[p].client_key ELSE keys[p].server_key
Iv(p, from) == IF from = "client" THEN keys[p].client_iv ELSE keys[p].server_iv

\* Exclusive or with a fixed value tells sequence numbers apart.
nonce_build(iv, seq) == <<iv, seq>>

nonce_can_next(seq) == seq < SeqMax
\* The variant does not count.
nonce_next_stuck(seq) == seq
nonce_next(seq) == (seq + 1) % (SeqMax + 1)

\* A record: the header is authenticated, key and nonce decide whether it opens.
record_seal(p, type, payload) ==
    [type |-> type, key |-> Key(p, p), nonce |-> nonce_build(Iv(p, p), out_seq[p]),
     payload |-> payload]
record_opens(p, r) ==
    r.key = Key(p, Other(p)) /\ r.nonce = nonce_build(Iv(p, Other(p)), in_seq[p])

Rotations(p) == epochs[p].local + epochs[p].peer

\* p seals a record and sends it; the counter moves with it.
Emit(p, r) ==
    /\ nonce_can_next(out_seq[p])
    /\ Len(chan[Other(p)]) < MaxFlight
    /\ chan' = [chan EXCEPT ![Other(p)] = Append(@, r)]
    /\ used' = used \cup {<<r.key, r.nonce>>}
    /\ reused' = (reused \/ <<r.key, r.nonce>> \in used)

\* sl_rekey_advance replaces the keys of both directions.
rekey_advance(p) ==
    /\ secret' = [secret EXCEPT ![p] = next_secret(@)]
    /\ keys' = [keys EXCEPT ![p] = rekeyed(secret[p])]
    /\ out_seq' = [out_seq EXCEPT ![p] = 1]
    /\ in_seq' = [in_seq EXCEPT ![p] = 1]

SendApp(p) ==
    /\ can_send_app(conn[p]) /\ Len(sent[p]) < MaxSend
    /\ Emit(p, record_seal(p, "APP_DATA", Len(sent[p]) + 1))
    /\ out_seq' = [out_seq EXCEPT ![p] = nonce_next(@)]
    /\ conn' = [conn EXCEPT ![p] = conn_on_event(@, "kSendAppRecord")]
    /\ sent' = [sent EXCEPT ![p] = Append(@, Len(@) + 1)]
    /\ crossed' = (crossed \/ Rotations(p) < Rotations(Other(p)))
    /\ UNCHANGED <<secret, keys, in_seq, epochs, opened, unopened>>

SendKeyUpdate(p) ==
    /\ can_send_app(conn[p]) /\ Rotations(p) < MaxEpoch
    /\ Emit(p, record_seal(p, "KEY_UPDATE", epochs[p].local + 1))
    /\ rekey_advance(p)
    /\ epochs' = [epochs EXCEPT ![p].local = @ + 1]
    /\ crossed' = (crossed \/ chan[p] # <<>>)
    /\ UNCHANGED <<conn, sent, opened, unopened>>

SendClose(p) ==
    /\ can_send_app(conn[p])
    /\ Emit(p, record_seal(p, "CLOSE_NOTIFY", 0))
    /\ out_seq' = [out_seq EXCEPT ![p] = nonce_next(@)]
    /\ conn' = [conn EXCEPT ![p] = conn_on_event(@, "kBeginClose")]
    /\ crossed' = (crossed \/ Rotations(p) < Rotations(Other(p)))
    /\ UNCHANGED <<secret, keys, in_seq, epochs, sent, opened, unopened>>

\* The variant accepts the epoch it has seen.
check_peer_epoch_again(p, incoming) == incoming \in {epochs[p].peer, epochs[p].peer + 2}
check_peer_epoch(p, incoming) == incoming = epochs[p].peer + 1

\* A record that does not open ends the connection; the variant drops it and goes on.
Fatal_ignored(p) ==
    /\ unopened' = unopened \cup {p}
    /\ UNCHANGED <<conn, secret, keys, out_seq, in_seq, epochs, opened>>
Fatal(p) ==
    /\ conn' = [conn EXCEPT ![p] = conn_on_event(@, "kIoError")]
    /\ unopened' = unopened \cup {p}
    /\ UNCHANGED <<secret, keys, out_seq, in_seq, epochs, opened>>

Took(p, r) ==
    CASE r.type = "APP_DATA" ->
            /\ conn' = [conn EXCEPT ![p] = conn_on_event(@, "kRecvAppRecord")]
            /\ opened' = [opened EXCEPT ![p] = Append(@, r.payload)]
            /\ in_seq' = [in_seq EXCEPT ![p] = nonce_next(@)]
            /\ UNCHANGED <<secret, keys, out_seq, epochs, unopened>>
      [] r.type = "KEY_UPDATE" /\ check_peer_epoch(p, r.payload) ->
            /\ rekey_advance(p)
            /\ epochs' = [epochs EXCEPT ![p].peer = r.payload]
            /\ UNCHANGED <<conn, opened, unopened>>
      [] r.type = "CLOSE_NOTIFY" ->
            /\ conn' = [conn EXCEPT ![p] = conn_on_event(@, "kPeerClosed")]
            /\ in_seq' = [in_seq EXCEPT ![p] = nonce_next(@)]
            /\ UNCHANGED <<secret, keys, out_seq, epochs, opened, unopened>>
      [] OTHER -> Fatal(p)

Receive(p) ==
    /\ chan[p] # <<>> /\ conn[p] # "kClosed"
    /\ chan' = [chan EXCEPT ![p] = Tail(@)]
    /\ IF record_opens(p, Head(chan[p])) THEN Took(p, Head(chan[p])) ELSE Fatal(p)
    /\ UNCHANGED <<sent, used, reused, crossed>>

CNext == \E p \in Ends : SendApp(p) \/ SendKeyUpdate(p) \/ SendClose(p) \/ Receive(p)

CSpec == CInit /\ [][CNext]_cvars
-------------------------------------------------------------------------------
\* No two records are ever sealed with the same key and nonce, over any number of
\* key updates by either end and up to the last sequence number
\* (sl_nonce_next, sl_rekey_advance).
NonceOnce == ~reused

\* What an end opens is what the other sealed, from the first on and without a
\* gap, whatever keys changed in between (sl_record_open).
OpenedPrefix ==
    \A p \in Ends : /\ Len(opened[p]) <= Len(sent[Other(p)])
                    /\ opened[p] = SubSeq(sent[Other(p)], 1, Len(opened[p]))

\* A record fails to open only when it crossed a key update: sl_rekey_advance
\* changes the keys of both directions, so what the peer has under way under the
\* old ones is lost; without such a crossing every record opens.
FailsOnlyCrossing == unopened # {} => crossed

\* What opens is right, and what does not has its reason.
RecordsOpen == OpenedPrefix /\ FailsOnlyCrossing
===============================================================================
