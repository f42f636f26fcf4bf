------------------------------ MODULE Handshake -------------------------------
(***************************************************************************)
(* The handshake: the machine that knows which message comes next          *)
(* (handshake_state.cpp), two such machines joined by two streams, and the *)
(* engine that parses, verifies and derives keys (handshake_engine.cpp).   *)
(***************************************************************************)
EXTENDS KeySchedule, Integers, Sequences, SequencesExt

(***************************************************************************)
(* handshake_state.cpp: which message either role may send or receive      *)
(* next.  h is a HandshakeState; every operation answers the new one, and  *)
(* its bool result is whether h.state is not "kFailed" after it.           *)
(***************************************************************************)
HsTypes == {"CLIENT_HELLO", "SERVER_HELLO", "CERTIFICATE", "CERT_VERIFY", "FINISHED"}
HsStates == {"kInit", "kWaitClientHello", "kWaitServerHello", "kWaitCertificate",
             "kWaitCertVerify", "kWaitServerFinished", "kWaitClientFinished",
             "kDone", "kFailed"}

NewState(role) == [role |-> role, state |-> "kInit", sent |-> 0, recv |-> 0]
is_terminal(h) == h.state \in {"kDone", "kFailed"}
fail(h) == [h EXCEPT !.state = "kFailed"]

hs_start(h) ==
    IF h.state # "kInit" THEN fail(h)
    ELSE [h EXCEPT !.state = IF h.role = "kClient" THEN "kWaitServerHello"
                             ELSE "kWaitClientHello"]

\* The state after sending.  A client is done as soon
\* as it sends Finished; a server's flight may leave in any order,
\* in the variant one message of it at most.
SendTo_strict(role, state, type) ==
    CASE role = "kClient" /\ type = "CLIENT_HELLO" /\ state = "kWaitServerHello" -> state
      [] role = "kClient" /\ type = "FINISHED" /\ state = "kWaitServerFinished" -> "kDone"
      [] role = "kServer" /\ type \in {"SERVER_HELLO", "CERTIFICATE", "CERT_VERIFY"}
           /\ state = "kWaitClientHello" -> "kWaitClientFinished"
      [] role = "kServer" /\ type = "FINISHED" /\ state = "kWaitClientFinished" -> state
      [] OTHER -> "kFailed"
SendTo(role, state, type) ==
    CASE role = "kClient" /\ type = "CLIENT_HELLO" /\ state = "kWaitServerHello" -> state
      [] role = "kClient" /\ type = "FINISHED" /\ state = "kWaitServerFinished" -> "kDone"
      [] role = "kServer" /\ type \in {"SERVER_HELLO", "CERTIFICATE", "CERT_VERIFY"}
           /\ state \in {"kWaitClientHello", "kWaitClientFinished"} -> "kWaitClientFinished"
      [] role = "kServer" /\ type = "FINISHED" /\ state = "kWaitClientFinished" -> state
      [] OTHER -> "kFailed"

ReceiveTo(role, state, type) ==
    CASE role = "kClient" /\ type = "SERVER_HELLO" /\ state = "kWaitServerHello" ->
            "kWaitCertificate"
      [] role = "kClient" /\ type = "CERTIFICATE" /\ state = "kWaitCertificate" ->
            "kWaitCertVerify"
      [] role = "kClient" /\ type = "CERT_VERIFY" /\ state = "kWaitCertVerify" ->
            "kWaitServerFinished"
      [] role = "kClient" /\ type = "FINISHED" /\ state = "kWaitServerFinished" -> state
      [] role = "kServer" /\ type = "CLIENT_HELLO" /\ state = "kWaitClientHello" -> state
      [] role = "kServer" /\ type = "FINISHED" /\ state = "kWaitClientFinished" -> "kDone"
      [] OTHER -> "kFailed"

\* Anything after a terminal state, kDone included, is a failure.
on_sent(h, type) ==
    IF is_terminal(h) THEN fail(h)
    ELSE [h EXCEPT !.sent = @ + 1, !.state = SendTo(h.role, h.state, type)]
on_received(h, type) ==
    IF is_terminal(h) THEN fail(h)
    ELSE [h EXCEPT !.recv = @ + 1, !.state = ReceiveTo(h.role, h.state, type)]
-------------------------------------------------------------------------------
(***************************************************************************)
(* Two HandshakeState machines joined by two streams.  Each side, external,*)
(* sends its messages in the order of the flow in handshake_state.hpp, as  *)
(* soon as its machine lets it; the client need not have taken the         *)
(* server's Finished before it sends its own.                              *)
(***************************************************************************)
VARIABLES hs,       \* role -> its HandshakeState
          todo,     \* role -> what it still has to send
          line,     \* role -> messages under way to it
          early     \* history: the client finished before the server's Finished came
fvars == <<hs, todo, line, early>>

Roles == {"kClient", "kServer"}
Partner(r) == IF r = "kClient" THEN "kServer" ELSE "kClient"

FInit ==
    /\ hs = [r \in Roles |-> NewState(r)]
    /\ todo = [kClient |-> <<"CLIENT_HELLO", "FINISHED">>,
               kServer |-> <<"SERVER_HELLO", "CERTIFICATE", "CERT_VERIFY", "FINISHED">>]
    /\ line = [r \in Roles |-> <<>>]
    /\ early = FALSE

Begin(r) ==
    /\ hs[r].state = "kInit"
    /\ hs' = [hs EXCEPT ![r] = hs_start(@)]
    /\ UNCHANGED <<todo, line, early>>

\* The server answers only a hello it has taken.
Allowed(r) ==
    /\ todo[r] # <<>> /\ hs[r].state # "kInit"
    /\ SendTo(r, hs[r].state, Head(todo[r])) # "kFailed"
    /\ r = "kServer" => hs[r].recv > 0
SendNext(r) ==
    /\ Allowed(r)
    /\ hs' = [hs EXCEPT ![r] = on_sent(@, Head(todo[r]))]
    /\ todo' = [todo EXCEPT ![r] = Tail(@)]
    /\ line' = [line EXCEPT ![Partner(r)] = Append(@, Head(todo[r]))]
    /\ early' = (early \/ (r = "kClient" /\ Head(todo[r]) = "FINISHED" /\ hs[r].recv < 4))

TakeNext(r) ==
    /\ line[r] # <<>> /\ hs[r].state # "kInit"
    /\ hs' = [hs EXCEPT ![r] = on_received(@, Head(line[r]))]
    /\ line' = [line EXCEPT ![r] = Tail(@)]
    /\ UNCHANGED <<todo, early>>

FNext == \E r \in Roles : Begin(r) \/ SendNext(r) \/ TakeNext(r)

-------------------------------------------------------------------------------
\* A handshake along the flow fails only when the client finished before it took
\* the server's Finished, which on_received then answers by leaving kDone for
\* kFailed; in every other order nobody fails, and when nothing is left to send
\* or to take both sides are done (on_sent, on_received).
FailsOnlyEarly ==
    /\ (\E r \in Roles : hs[r].state = "kFailed") => early
    /\ (\A r \in Roles : line[r] = <<>> /\ hs[r].state # "kInit" /\ ~Allowed(r)) =>
          early \/ \A r \in Roles : hs[r].state = "kDone"
-------------------------------------------------------------------------------
(***************************************************************************)
(* handshake_engine.cpp with sl_handshake_msg.c and sl_transcript.c: the   *)
(* engine of one role, fed with the bytes of a peer that follows the flow  *)
(* of handshake_state.hpp and signs and MACs what it has seen so far.  A   *)
(* message travels as two pieces, its header and its body; a transcript is *)
(* the sequence of the messages it absorbed.  The caller may feed more     *)
(* bytes after an error: the engine does not refuse them.                  *)
(***************************************************************************)
CONSTANTS Pins      \* whether pin_peer_identity is set, and to whom

VARIABLES e,        \* the engine
          peer,     \* the peer's transcript and what it has left to send
          stream    \* pieces under way to the engine
evars == <<e, peer, stream>>

None == "none"
\* size: the body has the length its type asks for, another one, or one above
\* SL_HS_MAX_PAYLOAD.
Sizes == {"right", "wrong", "oversize"}
Msg(type, body, size) == [type |-> type, body |-> body, size |-> size]
Hello(pub, cipher) == [ecdh |-> pub, cipher |-> cipher]
Aes == "AES256_GCM"

NewEngine(role, pin) ==
    [fsm |-> NewState(role), transcript |-> <<>>, recv_buf |-> <<>>, secret |-> <<>>,
     peer_pub |-> "zeroes", peer_id |-> None, pin |-> pin, got |-> <<>>, error |-> None]

\* emit_message absorbs before it asks the state machine.
emit_message(x, m) ==
    [x EXCEPT !.transcript = Append(@, m), !.fsm = on_sent(@, m.type)]

\* A second start fails in the state machine and emits nothing.
engine_start(x) ==
    LET s == [x EXCEPT !.fsm = hs_start(@)]
    IN  IF s.fsm.state = "kFailed" THEN [s EXCEPT !.error = "fsm_start_failed"]
        ELSE IF x.fsm.role = "kServer" THEN s
        ELSE emit_message(s, Msg("CLIENT_HELLO", Hello("c", Aes), "right"))

Err(x, what) == [x EXCEPT !.error = what]

OnHello(x, m) ==
    IF m.size # "right" THEN Err(x, "bad_hello")
    ELSE IF m.body.cipher # Aes THEN Err(x, "bad_cipher")
    ELSE IF ~validate_pubkey(m.body.ecdh) THEN Err(x, "bad_peer_ecdh")
    ELSE [x EXCEPT !.peer_pub = m.body.ecdh]

OnCertificate(x, m) ==
    IF m.size # "right" THEN Err(x, "bad_cert")
    ELSE LET y == [x EXCEPT !.peer_id = m.body]
         IN  IF x.pin \notin {None, m.body} THEN Err(y, "peer_identity_pin_mismatch") ELSE y

\* The transcript already holds the message being verified.
OnCertVerify(x, m) ==
    IF m.size # "right" THEN Err(x, "bad_certverify")
    ELSE IF x.peer_id = None THEN Err(x, "certverify_without_cert")
    ELSE IF ~ed25519_verify(x.peer_id, x.transcript, m.body)
         THEN Err(x, "certverify_signature_fail")
    ELSE x

\* The secrets are derived once, before the MAC is looked at.
OnFinished(x, m) ==
    IF m.size # "right" THEN Err(x, "bad_finished")
    ELSE IF x.secret = <<>> /\ ~validate_pubkey(x.peer_pub) THEN Err(x, "ecdh_compute")
    ELSE LET own  == IF x.fsm.role = "kClient" THEN "c" ELSE "s"
             y    == IF x.secret # <<>> THEN x
                     ELSE [x EXCEPT !.secret =
                             <<handshake_secret_derive(compute_shared(own, x.peer_pub),
                                                       x.transcript)>>]
             key  == IF x.fsm.role = "kClient" THEN y.secret[1].server_finished_key
                     ELSE y.secret[1].client_finished_key
         IN  IF finished_verify(key, y.transcript, m.body) THEN y ELSE Err(y, "finished_mac_fail")

\* The variant looks at the message before the state machine does.
process_one_message_unchecked(x, m) ==
    LET y == [x EXCEPT !.transcript = Append(@, m), !.got = Append(@, m.type)]
    IN  CASE m.type \in {"CLIENT_HELLO", "SERVER_HELLO"} -> OnHello(y, m)
          [] m.type = "CERTIFICATE" -> OnCertificate(y, m)
          [] m.type = "CERT_VERIFY" -> OnCertVerify(y, m)
          [] m.type = "FINISHED" -> OnFinished(y, m)

process_one_message(x, m) ==
    LET y == [x EXCEPT !.transcript = Append(@, m), !.fsm = on_received(@, m.type)]
        z == [y EXCEPT !.got = Append(@, m.type)]
    IN  IF y.fsm.state = "kFailed" THEN Err(y, "fsm_recv_rejected")
        ELSE CASE m.type \in {"CLIENT_HELLO", "SERVER_HELLO"} -> OnHello(z, m)
               [] m.type = "CERTIFICATE" -> OnCertificate(z, m)
               [] m.type = "CERT_VERIFY" -> OnCertVerify(z, m)
               [] m.type = "FINISHED" -> OnFinished(z, m)

\* on_bytes: the messages at the front of the buffer, until one fails or is not
\* whole.  A header that does not unpack stays there.
Drain(x) ==
    LET Step(y, k) ==
            LET m == x.recv_buf[2 * k - 1].msg
            IN  IF y.error # None THEN y
                ELSE IF m.size = "oversize" THEN Err(y, "bad_header")
                ELSE IF 2 * k > Len(x.recv_buf) THEN y
                ELSE [process_one_message(y, m) EXCEPT !.recv_buf = SubSeq(@, 3, Len(@))]
    IN  FoldLeft(Step, [x EXCEPT !.error = None],
                 [k \in 1..((Len(x.recv_buf) + 1) \div 2) |-> k])
on_bytes(x, pieces) == Drain([x EXCEPT !.recv_buf = @ \o pieces])

-------------------------------------------------------------------------------
\* The peer, external: its flight, each message made from what it has seen.
Pieces(m) == <<[part |-> "header", msg |-> m], [part |-> "body", msg |-> m]>>

PeerBody(type, t) ==
    CASE type = "CLIENT_HELLO" -> Hello("p", Aes)
      [] type = "SERVER_HELLO" -> Hello("p", Aes)
      [] type = "CERTIFICATE" -> "idP"
      [] type = "CERT_VERIFY" -> ed25519_sign("idP", t)
      [] type = "FINISHED" ->
            finished_compute(handshake_secret_derive({"c", "p"}, t).server_finished_key, t)

FlightTo(role) ==
    IF role = "kClient" THEN <<"SERVER_HELLO", "CERTIFICATE", "CERT_VERIFY", "FINISHED">>
    ELSE <<"CLIENT_HELLO", "FINISHED">>

EInit ==
    /\ \E role \in {"kClient", "kServer"}, pin \in Pins :
          /\ e = NewEngine(role, pin)
          /\ peer = [transcript |-> <<>>, left |-> FlightTo(role), heard |-> 0]
    /\ stream = <<>>

Start ==
    /\ e.fsm.state = "kInit"
    /\ e' = engine_start(e)
    /\ UNCHANGED <<peer, stream>>

\* The peer sends the next message of its flight, once more the one it sent
\* last, or one it garbled; it has absorbed the client's hello first.
PeerSends ==
    /\ e.fsm.state # "kInit" /\ peer.left # <<>>
    /\ LET seen == IF peer.transcript = <<>> THEN e.transcript ELSE peer.transcript
           type == Head(peer.left)
       IN  \E size \in Sizes, again \in BOOLEAN :
              LET m == Msg(type, PeerBody(type, seen), size)
              IN  /\ peer' = [peer EXCEPT !.transcript = Append(seen, m),
                                          !.left = IF again THEN @ ELSE Tail(@),
                                          !.heard = @ + 1]
                  /\ peer.heard < Len(FlightTo(e.fsm.role)) + 1
                  /\ stream' = stream \o Pieces(m)
    /\ UNCHANGED e

Feed(n) ==
    /\ n \in 1..Len(stream)
    /\ e.fsm.state # "kInit"
    /\ e' = on_bytes(e, SubSeq(stream, 1, n))
    /\ stream' = SubSeq(stream, n + 1, Len(stream))
    /\ UNCHANGED peer

ENext == Start \/ PeerSends \/ \E n \in 1..4 : Feed(n)

-------------------------------------------------------------------------------
\* Session keys exist only when the whole flight was taken in its order, each
\* message once, and belong to the key share of the hello that was taken last,
\* however the bytes were cut and whatever failed in between
\* (process_one_message, session_keys).
InOrder(x) ==
    /\ x.fsm.role = "kClient"
    /\ IsPrefix(<<"SERVER_HELLO", "CERTIFICATE", "CERT_VERIFY", "FINISHED">>, x.got)
KeysInOrder ==
    e.secret # <<>> =>
        InOrder(e) /\ e.secret[1].master.ikm = compute_shared("c", e.peer_pub)
===============================================================================
