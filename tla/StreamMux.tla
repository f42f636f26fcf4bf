------------------------------ MODULE StreamMux -------------------------------
(***************************************************************************)
(* Two StreamMultiplexer objects (stream_multiplexer.cpp), one per side of *)
(* a session, joined by the two ordered frame channels the record layer    *)
(* gives them. Each call holds the multiplexer's mutex, so each call is    *)
(* one action. Payload bytes are counted, not told apart; the stats_       *)
(* counters, which no call reads, are left out. The multiplexer builds no  *)
(* WINDOW or RESET frame itself: the layer above does (external).          *)
(* SendWindow announces the bytes read_inbound consumed, SendReset tells   *)
(* the peer of a local reset.                                              *)
(***************************************************************************)
EXTENDS Integers, Sequences

CONSTANTS MaxId,        \* SL_STREAM_ID_MAX
          InitialWindow,\* initial_window of both multiplexers
          MaxWindow,    \* SL_FC_MAX_WINDOW
          Bands,        \* priority bands the applications use, best first
          Lens,         \* payload lengths the applications send
          MaxOpens,     \* bound: streams each side opens
          MaxSends,     \* bound: successful send_data calls of each side
          Resets        \* the sides whose applications reset streams

Ends == {"client", "server"}

ASSUME MuxAssumption ==
    /\ MaxId \in Nat /\ InitialWindow \in Nat
    /\ MaxOpens \in [Ends -> Nat] /\ MaxSends \in [Ends -> Nat]
    /\ MaxWindow \in Nat /\ InitialWindow <= MaxWindow
    /\ Bands \subseteq 0..4 /\ Lens \subseteq Nat /\ Resets \subseteq Ends

Peer(e) == IF e = "client" THEN "server" ELSE "client"
Ids == 1..MaxId
kNormal == 2

\* kNone: the id is not in streams_.  kIdle is left in the call that makes
\* the record.
Phases == {"kNone", "kOpen", "kHalfClosedLocal", "kHalfClosedRemote", "kClosed"}

VARIABLES next_id, phase, priority, outbound, inbound, inbound_fin,
          send_credit, recv_window,     \* per stream
          sess_send, sess_recv,         \* session_flow_
          net,        \* net[e]: frames under way to e
          owed,       \* owed[e][i]: bytes read, not yet announced to the peer
          told,       \* told[e]: reset streams the peer was told about
          sent,       \* history: bytes send_data accepted
          taken,      \* history: bytes read_inbound returned
          fin_asked,  \* history: streams whose send_data accepted a FIN
          fin_out,    \* history: streams for which a FIN flag was emitted
          was_reset,  \* history: streams reset by either call
          sends       \* successful send_data calls, bounded by MaxSends

flow == <<send_credit, recv_window, sess_send, sess_recv>>
hist == <<sent, taken, fin_asked, fin_out, was_reset, sends>>
vars == <<next_id, phase, priority, outbound, inbound, inbound_fin, flow, net,
          owed, told, hist>>

DataFrame(i, n, fin) == [type |-> "DATA", id |-> i, len |-> n, fin |-> fin]
WindowFrame(i, n) == [type |-> "WINDOW", id |-> i, len |-> n, fin |-> FALSE]
ResetFrame(i) == [type |-> "RESET", id |-> i, len |-> 0, fin |-> FALSE]
-------------------------------------------------------------------------------
\* stream_state.cpp
can_send(p) == p \in {"kOpen", "kHalfClosedRemote"}
can_recv(p) == p \in {"kOpen", "kHalfClosedLocal"}

on_sent_fin(p) ==
    CASE p = "kOpen" -> "kHalfClosedLocal"
      [] p = "kHalfClosedRemote" -> "kClosed"
      [] OTHER -> p

on_recv_fin(p) ==
    CASE p = "kOpen" -> "kHalfClosedRemote"
      [] p = "kHalfClosedLocal" -> "kClosed"
      [] OTHER -> p

\* sl_stream_id.c; the variant forgets to skip the peer's parity.
first_id(e) == IF e = "client" THEN 1 ELSE 2
id_after_by_one(i) == i + 1
id_after(i) == i + 2
belongs_to_peer(i, e) == IF e = "client" THEN i % 2 = 0 ELSE i % 2 = 1

\* sl_flow_control.c: a grant beyond the hard cap is refused as a whole.
\* The variants credit one byte per call, and credit twice.
grant_one(window, bytes) == window + 1
grant_twice(window, bytes) == window + 2 * bytes
grant(window, bytes) ==
    IF window + bytes > MaxWindow THEN window ELSE window + bytes

\* f with the value of stream i of end e replaced
Put(f, e, i, v) == [f EXCEPT ![e] = [@ EXCEPT ![i] = v]]
-------------------------------------------------------------------------------
PerStream(v) == [e \in Ends |-> [i \in Ids |-> v]]

Init ==
    /\ next_id = [e \in Ends |-> first_id(e)]
    /\ phase = PerStream("kNone")
    /\ priority = PerStream(kNormal)
    /\ outbound = PerStream(<<>>)
    /\ inbound = PerStream(0)
    /\ inbound_fin = PerStream(FALSE)
    /\ send_credit = PerStream(InitialWindow)
    /\ recv_window = PerStream(InitialWindow)
    /\ sess_send = [e \in Ends |-> InitialWindow]
    /\ sess_recv = [e \in Ends |-> InitialWindow]
    /\ net = [e \in Ends |-> <<>>]
    /\ owed = PerStream(0)
    /\ told = [e \in Ends |-> {}]
    /\ sent = PerStream(0)
    /\ taken = PerStream(0)
    /\ fin_asked = [e \in Ends |-> {}]
    /\ fin_out = [e \in Ends |-> {}]
    /\ was_reset = [e \in Ends |-> {}]
    /\ sends = [e \in Ends |-> 0]

\* find_or_create opens a stream it does not know; the variant reopens a
\* closed one too.
find_or_reopen(p) == IF p \in {"kNone", "kClosed"} THEN "kOpen" ELSE p
find_or_create(p) == IF p = "kNone" THEN "kOpen" ELSE p

\* Returns id 0 and changes nothing once the ids are used up.
open_stream(e, band) ==
    LET i == next_id[e] IN
    /\ i <= MaxId /\ i < first_id(e) + 2 * MaxOpens[e]
    /\ next_id' = [next_id EXCEPT ![e] = id_after(i)]
    /\ phase' = Put(phase, e, i, find_or_create(phase[e][i]))
    /\ priority' = Put(priority, e, i, band)
    /\ UNCHANGED <<outbound, inbound, inbound_fin, flow, net, owed, told, hist>>

\* Both windows must cover the payload; the variant asks neither.
any_credit(e, i, len) == TRUE
has_credit(e, i, len) == len <= send_credit[e][i] /\ len <= sess_send[e]

\* A call that finds no credit on the stream or the session fails and
\* changes nothing.  A FIN on an empty queue leaves an empty marker chunk.
send_data(e, i, len, fin) ==
    LET queued == IF len > 0 THEN Append(outbound[e][i], len) ELSE outbound[e][i]
    IN
    /\ sends[e] < MaxSends[e]
    /\ can_send(phase[e][i])
    /\ has_credit(e, i, len)
    /\ send_credit' = Put(send_credit, e, i, send_credit[e][i] - len)
    /\ sess_send' = [sess_send EXCEPT ![e] = @ - len]
    /\ outbound' = Put(outbound, e, i,
                       IF fin /\ queued = <<>> THEN <<0>> ELSE queued)
    /\ phase' = IF fin THEN Put(phase, e, i, on_sent_fin(phase[e][i])) ELSE phase
    /\ sent' = Put(sent, e, i, sent[e][i] + len)
    /\ fin_asked' = [fin_asked EXCEPT ![e] = IF fin THEN @ \cup {i} ELSE @]
    /\ sends' = [sends EXCEPT ![e] = @ + 1]
    /\ UNCHANGED <<next_id, priority, inbound, inbound_fin, recv_window,
                   sess_recv, net, owed, told, taken, fin_out, was_reset>>

\* The streams pop_outbound may serve: those of the best band with a queued
\* chunk.  Within the band it takes the first in the order of the unordered
\* map, which the code does not fix.  The variant's band loop ends one early.
Ready(e) == {i \in Ids : outbound[e][i] # <<>>}
BestButLast(e) ==
    {i \in Ready(e) : priority[e][i] < 4 /\
                      \A j \in Ready(e) : priority[e][i] <= priority[e][j]}
Best(e) == {i \in Ready(e) : \A j \in Ready(e) : priority[e][i] <= priority[e][j]}

\* The FIN flag of the popped chunk; the variant sets it before the last one.
FinFlagEarly(e, i) == phase[e][i] = "kHalfClosedLocal"
FinFlag(e, i) ==
    Len(outbound[e][i]) = 1 /\ phase[e][i] = "kHalfClosedLocal"

pop_outbound(e) ==
    \E i \in Best(e) :
        /\ outbound' = Put(outbound, e, i, Tail(outbound[e][i]))
        /\ net' = [net EXCEPT ![Peer(e)] =
                       Append(@, DataFrame(i, Head(outbound[e][i]), FinFlag(e, i)))]
        /\ fin_out' = [fin_out EXCEPT ![e] =
                           IF FinFlag(e, i) THEN @ \cup {i} ELSE @]
        /\ UNCHANGED <<next_id, phase, priority, inbound, inbound_fin, flow,
                       owed, told, sent, taken, fin_asked, was_reset, sends>>
-------------------------------------------------------------------------------
\* on_frame, one alternative per frame type.  p is the stream's phase after
\* find_or_create.
OnData(e, f, p) ==
    LET i == f.id
        room == f.len <= recv_window[e][i]
        accepted == room /\ f.len <= sess_recv[e]
    IN
    /\ f.type = "DATA"
    /\ IF ~can_recv(p) \/ ~room
       THEN /\ phase' = Put(phase, e, i, p)
            /\ UNCHANGED <<recv_window, sess_recv, inbound, inbound_fin>>
       ELSE \* the stream window stays charged if the session window refuses
            /\ recv_window' = Put(recv_window, e, i, recv_window[e][i] - f.len)
            /\ sess_recv' = IF accepted THEN [sess_recv EXCEPT ![e] = @ - f.len]
                            ELSE sess_recv
            /\ inbound' = IF accepted THEN Put(inbound, e, i, inbound[e][i] + f.len)
                          ELSE inbound
            /\ inbound_fin' = IF accepted /\ f.fin THEN Put(inbound_fin, e, i, TRUE)
                              ELSE inbound_fin
            /\ phase' = Put(phase, e, i, IF accepted /\ f.fin THEN on_recv_fin(p) ELSE p)
    /\ UNCHANGED <<send_credit, was_reset, told>>

OnWindow(e, f, p) ==
    /\ f.type = "WINDOW"
    /\ phase' = Put(phase, e, f.id, p)
    /\ send_credit' = Put(send_credit, e, f.id, grant(send_credit[e][f.id], f.len))
    /\ UNCHANGED <<recv_window, sess_recv, inbound, inbound_fin, was_reset, told>>

OnReset(e, f, p) ==
    /\ f.type = "RESET"
    /\ phase' = Put(phase, e, f.id, "kClosed")
    /\ was_reset' = [was_reset EXCEPT ![e] = @ \cup {f.id}]
    /\ told' = [told EXCEPT ![e] = @ \cup {f.id}]
    /\ UNCHANGED <<send_credit, recv_window, sess_recv, inbound, inbound_fin>>

\* A frame on the control stream is ignored, one of an unknown stream of our
\* own parity is refused.
Ignored(e, f) ==
    f.id \notin {i \in Ids : phase[e][i] # "kNone" \/ belongs_to_peer(i, e)}

OnIgnored(e, f) ==
    /\ Ignored(e, f)
    /\ UNCHANGED <<phase, send_credit, recv_window, sess_recv, inbound,
                   inbound_fin, was_reset, told>>

on_frame(e) ==
    /\ net[e] # <<>>
    /\ LET f == Head(net[e])
           p == find_or_create(phase[e][f.id])
       IN  \/ OnIgnored(e, f)
           \/ ~Ignored(e, f) /\ OnData(e, f, p)
           \/ ~Ignored(e, f) /\ OnWindow(e, f, p)
           \/ ~Ignored(e, f) /\ OnReset(e, f, p)
    /\ net' = [net EXCEPT ![e] = Tail(@)]
    /\ UNCHANGED <<next_id, priority, outbound, sess_send, owed, sent, taken,
                   fin_asked, fin_out, sends>>
-------------------------------------------------------------------------------
\* Drains the buffer and gives the bytes back to both receive windows.  A
\* call that finds no byte changes nothing.
read_inbound(e, i) ==
    /\ phase[e][i] # "kNone"
    /\ inbound[e][i] > 0
    /\ inbound' = Put(inbound, e, i, 0)
    /\ recv_window' = Put(recv_window, e, i, grant(recv_window[e][i], inbound[e][i]))
    /\ sess_recv' = [sess_recv EXCEPT ![e] = grant(@, inbound[e][i])]
    /\ owed' = Put(owed, e, i, owed[e][i] + inbound[e][i])
    /\ taken' = Put(taken, e, i, taken[e][i] + inbound[e][i])
    /\ UNCHANGED <<next_id, phase, priority, outbound, inbound_fin, send_credit,
                   sess_send, net, told, sent, fin_asked, fin_out, was_reset, sends>>

reset_stream(e, i) ==
    /\ e \in Resets
    /\ phase[e][i] # "kNone"
    /\ phase' = Put(phase, e, i, "kClosed")
    /\ was_reset' = [was_reset EXCEPT ![e] = @ \cup {i}]
    /\ UNCHANGED <<next_id, priority, outbound, inbound, inbound_fin, flow, net,
                   owed, told, sent, taken, fin_asked, fin_out, sends>>

\* External: the layer above announces the bytes it consumed, for the stream
\* and, on the control stream, for the session ...
SendWindow(e, i) ==
    /\ owed[e][i] > 0
    /\ net' = [net EXCEPT ![Peer(e)] =
                   @ \o <<WindowFrame(i, owed[e][i]), WindowFrame(0, owed[e][i])>>]
    /\ owed' = Put(owed, e, i, 0)
    /\ UNCHANGED <<next_id, phase, priority, outbound, inbound, inbound_fin,
                   flow, told, hist>>

\* ... and the stream it reset.
SendReset(e, i) ==
    /\ i \in was_reset[e] \ told[e]
    /\ net' = [net EXCEPT ![Peer(e)] = Append(@, ResetFrame(i))]
    /\ told' = [told EXCEPT ![e] = @ \cup {i}]
    /\ UNCHANGED <<next_id, phase, priority, outbound, inbound, inbound_fin,
                   flow, owed, hist>>

Next ==
    \E e \in Ends :
        \/ \E band \in Bands : open_stream(e, band)
        \/ \E i \in Ids :
               \/ \E len \in Lens, fin \in BOOLEAN : send_data(e, i, len, fin)
               \/ read_inbound(e, i)
               \/ reset_stream(e, i)
               \/ SendWindow(e, i)
               \/ SendReset(e, i)
        \/ pop_outbound(e)
        \/ on_frame(e)

Spec == Init /\ [][Next]_vars

\* The transport keeps popping and delivering frames, the applications keep
\* reading and announcing what they read; nobody has to send or to reset.
Fairness ==
    \A e \in Ends :
        /\ WF_vars(pop_outbound(e))
        /\ WF_vars(on_frame(e))
        /\ \A i \in Ids : WF_vars(read_inbound(e, i)) /\ WF_vars(SendWindow(e, i))

FairSpec == Spec /\ Fairness
-------------------------------------------------------------------------------
\* The sums of the beginnings of a sequence of numbers, and of all of it.
Sums(s) ==
    LET upto[n \in 0..Len(s)] == IF n = 0 THEN 0 ELSE upto[n - 1] + s[n]
    IN  upto
Total(s) == Sums(s)[Len(s)]

QueuedBytes(e, i) == Total(outbound[e][i])

\* Bytes of type t for the given streams under way to e
Weight(f, ids, t) == IF f.type = t /\ f.id \in ids THEN f.len ELSE 0
UnderWay(frames, ids, t) == Total([n \in 1..Len(frames) |-> Weight(frames[n], ids, t)])
InFlight(e, i, t) == UnderWay(net[e], {i}, t)

TypeOK ==
    /\ next_id \in [Ends -> 1..MaxId + 2]
    /\ phase \in [Ends -> [Ids -> Phases]]
    /\ priority \in [Ends -> [Ids -> 0..4]]
    /\ inbound_fin \in [Ends -> [Ids -> BOOLEAN]]
    /\ \A e \in Ends :
           /\ sess_send[e] \in 0..InitialWindow
           /\ sess_recv[e] \in 0..InitialWindow
           /\ told[e] \subseteq was_reset[e]
           /\ \A i \in Ids :
                  /\ send_credit[e][i] \in 0..InitialWindow
                  /\ recv_window[e][i] \in 0..InitialWindow
                  /\ outbound[e][i] \in Seq(0..InitialWindow)
                  /\ inbound[e][i] \in 0..InitialWindow

\* Per-stream flow control agrees at both ends: until the receiver resets
\* the stream, its window equals the sender's credit plus every byte that is
\* queued, under way, or consumed and not yet credited back.
CreditConservation ==
    \A e \in Ends, i \in Ids :
        LET r == Peer(e) IN
        i \notin was_reset[r] =>
            recv_window[r][i] + inbound[r][i] = InitialWindow /\
            recv_window[r][i] = send_credit[e][i] + QueuedBytes(e, i)
                + InFlight(r, i, "DATA") + InFlight(e, i, "WINDOW") + owed[r][i]

\* charge_recv never refuses a DATA frame of a peer that runs the same code:
\* neither the stream window nor the session window is ever overrun, so the
\* partial charge on_frame leaves behind when only the session refuses is
\* never left.
NoFlowRefusal ==
    \A e \in Ends :
        (net[e] # <<>> /\ Head(net[e]).type = "DATA") =>
            LET f == Head(net[e]) IN
            can_recv(find_or_create(phase[e][f.id])) =>
                f.len <= recv_window[e][f.id] /\ f.len <= sess_recv[e]

\* inbound_fin means the end of the data: when a stream shows the peer's FIN,
\* every byte the peer's send_data accepted has arrived, and the peer asked
\* for the FIN.
FinMeansAll ==
    \A e \in Ends, i \in Ids :
        inbound_fin[Peer(e)][i] =>
            /\ i \in fin_asked[e]
            /\ taken[Peer(e)][i] + inbound[Peer(e)][i] = sent[e][i]

\* Ids never collide: the next id of a side is not in its streams_, and a
\* peer-initiated stream exists only if the peer opened it.
IdsNeverCollide ==
    \A e \in Ends :
        /\ next_id[e] <= MaxId => phase[e][next_id[e]] = "kNone"
        /\ \A i \in Ids : (phase[e][i] # "kNone" /\ belongs_to_peer(i, e)) =>
                              phase[Peer(e)][i] # "kNone"

\* A stream that is closed never comes back: no later frame or call reopens
\* it, and no phase goes backwards.
Rank(p) == CASE p = "kNone" -> 0 [] p = "kOpen" -> 1
             [] p \in {"kHalfClosedLocal", "kHalfClosedRemote"} -> 2
             [] p = "kClosed" -> 3
PhaseForward ==
    [][\A e \in Ends, i \in Ids :
           phase'[e][i] = phase[e][i] \/ Rank(phase'[e][i]) > Rank(phase[e][i])]_vars

\* What send_data accepted is eventually read by the peer's application,
\* unless one side resets the stream: no queued chunk is stranded, whatever the
\* band of its stream.  (Sends are bounded, so there comes a time when all of
\* it has been read.)
AllRead ==
    \A e \in Ends, i \in Ids :
        taken[Peer(e)][i] = sent[e][i] \/ i \in was_reset[e] \cup was_reset[Peer(e)]
Delivered == []<>AllRead

\* stream_multiplexer.cpp:66, "Push an empty marker so pop_outbound emits a
\* FIN frame": once a stream that was asked to finish has drained its queue,
\* the FIN flag has gone out.
FinEmitted ==
    \A e \in Ends : \A i \in fin_asked[e] \ was_reset[e] :
        outbound[e][i] = <<>> => i \in fin_out[e]
-------------------------------------------------------------------------------
\* The instance that is checked.
\* Each side opens one stream; the client sends twice, the server once.
OneOpenEach == [e \in Ends |-> 1]
TwoAndOne == [e \in Ends |-> IF e = "client" THEN 2 ELSE 1]

\* Windows, ids and FINs of the two ends agree: see StreamMux.
EndsAgree ==
    TypeOK /\ CreditConservation /\ NoFlowRefusal /\ IdsNeverCollide /\ FinMeansAll
===============================================================================
