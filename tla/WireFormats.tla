----------------------------- MODULE WireFormats ------------------------------
(***************************************************************************)
(* The wire formats of sl_rpc_msg.c, sl_stream_frame.c, sl_pubsub_msg.c,   *)
(* sl_beacon.c, sl_beacon_ack.c, sl_file_meta.c, sl_file_chunk.c,          *)
(* sl_handshake_msg.c, sl_alert.c, sl_alert_ext.c, sl_session_ticket.c,    *)
(* sl_server_name.c, framing.hpp, sl_version.c, sl_cipher.c,               *)
(* sl_extensions.c and sl_varint.c, byte by byte over B byte values.  A    *)
(* format is a sequence of fields with the widths of the code; limits are  *)
(* scaled.  Keys, digests and random values, which the code copies, are    *)
(* one byte wide.                                                          *)
(***************************************************************************)
EXTENDS Integers, Sequences, SequencesExt, FiniteSets, TLC

CONSTANTS B,          \* number of byte values, 256 in the code
          NameMax, BodyMax,   \* limits of names and topics, and of bodies
          TypeMax,    \* the last message type
          ListMax,    \* entries of a version, cipher or extension list
          H           \* values of a hexadecimal digit: B = H * H

Byte == 0..(B - 1)

\* Big-endian integers of n bytes; the variant reads the last byte first.
pack_u(v, n) == [i \in 1..n |-> (v \div B^(n - i)) % B]
unpack_u_little(s) == FoldLeft(LAMBDA v, b : v * B + b, 0, Reverse(s))
unpack_u(s) == FoldLeft(LAMBDA v, b : v * B + b, 0, s)

-------------------------------------------------------------------------------
\* Fields: a number, a constant that the reader checks, a zero that it ignores, the
\* length of some data and the data.
Field(kind, name, n, v) == [kind |-> kind, name |-> name, n |-> n, v |-> v]
Num(name, n) == Field("num", name, n, 0)
Is(v, n)     == Field("is", "", n, v)
Pad(n)       == Field("pad", "", n, 0)
Size(name, n) == Field("size", name, n, 0)
Data(name)   == Field("data", name, 0, 0)

RpcRequest == <<Is(1, 1), Pad(1), Num("request_id", 4), Size("method", 2), Data("method"),
                Size("body", 4), Data("body")>>
RpcResponse == <<Is(2, 1), Num("status", 1), Num("request_id", 4), Is(0, 2),
                 Size("body", 4), Data("body")>>
StreamFrame == <<Num("type", 1), Num("flags", 1), Is(0, 2), Num("stream_id", 4),
                 Size("body", 2), Data("body")>>
PubSubMsg == <<Num("type", 1), Num("flags", 1), Size("topic", 2), Size("body", 4),
               Data("topic"), Data("body")>>
Beacon == <<Num("client_id", 8), Num("sequence", 8), Num("timestamp_ms", 8),
            Num("interval_ms", 4), Num("payload_len", 2), Num("flags", 2)>>
BeaconAck == <<Num("client_id", 8), Num("sequence", 8), Num("server_time_ms", 8),
               Num("status", 2), Is(0, 2), Num("interval_ms", 4)>>
FileMeta == <<Num("total_size", 8), Num("chunk_size", 4), Num("total_chunks", 4),
              Num("mode", 4), Num("mtime_s", 4), Num("sha256", 1), Size("name", 2), Pad(24),
              Data("name")>>
FileChunk == <<Num("chunk_index", 4), Size("body", 4), Num("crc32c", 4), Num("flags", 1),
               Is(0, 3), Data("body")>>
HsMessage == <<Num("type", 1), Size("body", 3), Data("body")>>
HsHello == <<Num("random", 1), Num("ecdh_pub", 1), Num("cipher", 2)>>
Alert == <<Num("level", 1), Num("code", 1)>>
AlertExt == <<Num("level", 1), Num("code", 1), Num("diag", 2)>>
TicketBody == <<Num("issued_at_s", 4), Num("lifetime_s", 4), Num("resumption_secret", 1),
                Num("peer_identity_pub", 1)>>
ServerName == <<Num("name_type", 1), Size("host", 2), Data("host")>>
DataFrame == <<Size("body", 4), Num("type", 1), Num("flags", 1), Is(0, 2), Data("body")>>

Formats ==
    [rpc_request |-> RpcRequest, rpc_response |-> RpcResponse, stream_frame |-> StreamFrame,
     pubsub |-> PubSubMsg, beacon |-> Beacon, beacon_ack |-> BeaconAck,
     file_meta |-> FileMeta, file_chunk |-> FileChunk, hs_message |-> HsMessage,
     hs_hello |-> HsHello, alert |-> Alert, alert_ext |-> AlertExt,
     ticket |-> TicketBody, server_name |-> ServerName, frame |-> DataFrame]

\* The checks on both sides of a format.
sl_rpc_request_ok(m) == Len(m.method) \in 1..NameMax /\ Len(m.body) <= BodyMax
IntervalOK(i) == i = 0 \/ i \in B..(B^3)   \* 0 or 100 to 600000
sl_beacon_validate(m) ==
    m.sequence # 0 /\ m.payload_len <= BodyMax /\ m.flags < B /\ IntervalOK(m.interval_ms)
sl_beacon_ack_validate(m) ==
    m.sequence # 0 /\ m.status <= TypeMax /\ IntervalOK(m.interval_ms)
\* 1 and 2 stand for a separator and a dot.
sl_file_meta_validate(m) ==
    /\ m.chunk_size \in 2..BodyMax /\ Len(m.name) \in 1..NameMax
    /\ 1 \notin ToSet(m.name) /\ ~IsPrefix(<<2, 2>>, m.name)
    /\ m.total_chunks = ((m.total_size + m.chunk_size - 1) % B^8) \div m.chunk_size
\* 1 is the dot, 2 the hyphen: no empty label, none that starts with a hyphen.
sl_server_name_is_valid_host(h) ==
    /\ Len(h) \in 1..NameMax /\ h[1] # 1 /\ h[Len(h)] # 1
    /\ \A i \in 1..Len(h) : (i = 1 \/ h[i - 1] = 1) => h[i] \notin {1, 2}
ShortBody(m) == Len(m.body) <= BodyMax
Typed(m) == m.type \in 1..TypeMax
Leveled(m) == m.level \in {1, 2}

\* What a reader refuses, and what a writer does: writers of frames and messages
\* leave the type to the caller.
Reads(f, m) ==
    CASE f = "rpc_request"  -> sl_rpc_request_ok(m)
      [] f = "rpc_response" -> ShortBody(m)
      [] f = "stream_frame" -> ShortBody(m) /\ Typed(m)
      [] f = "pubsub"       -> ShortBody(m) /\ Typed(m) /\ Len(m.topic) <= NameMax
      [] f = "beacon"       -> sl_beacon_validate(m)
      [] f = "beacon_ack"   -> sl_beacon_ack_validate(m)
      [] f = "file_meta"    -> sl_file_meta_validate(m)
      [] f \in {"file_chunk", "hs_message"} -> ShortBody(m)
      [] f \in {"alert", "alert_ext"}       -> Leveled(m)
      [] f = "server_name"  -> sl_server_name_is_valid_host(m.host)
      [] f = "frame"        -> ShortBody(m) /\ Typed(m)
      [] OTHER -> TRUE
Writes(f, m) ==
    CASE f \in {"stream_frame"} -> ShortBody(m)
      [] f = "pubsub" -> ShortBody(m) /\ Len(m.topic) <= NameMax
      [] f \in {"file_chunk", "hs_message", "frame"} -> TRUE
      [] OTHER -> Reads(f, m)

pack(f, m) ==
    FoldLeft(LAMBDA out, x :
               out \o CASE x.kind = "num"  -> pack_u(m[x.name], x.n)
                        [] x.kind = "size" -> pack_u(Len(m[x.name]), x.n)
                        [] x.kind = "data" -> m[x.name]
                        [] x.kind = "is"   -> pack_u(x.v, x.n)
                        [] OTHER -> [i \in 1..x.n |-> 0],
             <<>>, Formats[f])

\* One field at the cursor, if it lies within the buffer.
TakeField(in, r, x) ==
    LET n == IF x.kind = "data" THEN r.size[x.name] ELSE x.n
        raw == SubSeq(in, r.off + 1, r.off + n)
        next == [r EXCEPT !.off = @ + n]
    IN  IF ~r.ok \/ r.off + n > Len(in) THEN [r EXCEPT !.ok = FALSE]
        ELSE CASE x.kind = "num"  -> [next EXCEPT !.m = @ @@ (x.name :> unpack_u(raw))]
               [] x.kind = "size" -> [next EXCEPT !.size = @ @@ (x.name :> unpack_u(raw))]
               [] x.kind = "data" -> [next EXCEPT !.m = @ @@ (x.name :> raw)]
               [] x.kind = "is"   -> [next EXCEPT !.ok = unpack_u(raw) = x.v]
               [] OTHER -> next
Refused == [ok |-> FALSE]
Exact == {"hs_hello"}   \* nothing may follow
unpack(f, in) ==
    LET r == FoldLeft(LAMBDA s, x : TakeField(in, s, x),
                      [ok |-> TRUE, off |-> 0, m |-> <<>>, size |-> <<>>], Formats[f])
    IN  IF r.ok /\ Reads(f, r.m) /\ (f \in Exact => r.off = Len(in)) THEN [ok |-> TRUE, m |-> r.m] ELSE Refused

-------------------------------------------------------------------------------
\* Lists of versions and cipher suites: no duplicates, at most ListMax entries.
list_add(l, v) == IF Len(l) >= ListMax \/ v \in ToSet(l) THEN l ELSE Append(l, v)
list_encode(l) == FoldLeft(LAMBDA out, v : out \o pack_u(v, 2), <<Len(l)>>, l)
list_decode(in) ==
    IF in = <<>> \/ in[1] > ListMax \/ Len(in) < 1 + 2 * in[1] THEN Refused
    ELSE [ok |-> TRUE,
          l |-> FoldLeft(LAMBDA l, i : list_add(l, unpack_u(SubSeq(in, 2 * i, 2 * i + 1))),
                         <<>>, [i \in 1..in[1] |-> i])]
\* The variant takes the first version both have.
version_choose_first(a, b) ==
    LET c == SelectSeq(a, LAMBDA v : v \in ToSet(b)) IN IF c = <<>> THEN 0 ELSE c[1]
version_choose(a, b) ==
    FoldLeft(LAMBDA best, v : IF v \in ToSet(b) /\ v > best THEN v ELSE best, 0, a)
cipher_is_supported(s) == s = 1
cipher_choose(server_pref, client_offered) ==
    LET c == SelectSeq(server_pref, LAMBDA s : s \in ToSet(client_offered)
                                               /\ cipher_is_supported(s))
    IN  IF c = <<>> THEN 0 ELSE c[1]

\* Extensions: type, length and body one after the other behind the whole length.
\* Those that are too long, or too many, are skipped.
ext_add(e, x) == IF Len(e) >= ListMax \/ Len(x.body) > BodyMax THEN e ELSE Append(e, x)
ext_inner(e) == FoldLeft(LAMBDA out, x : out \o pack_u(x.type, 2) \o pack_u(Len(x.body), 2)
                                            \o x.body, <<>>, e)
ext_encodes(e) == Len(ext_inner(e)) < B^2
ext_encode(e) == pack_u(Len(ext_inner(e)), 2) \o ext_inner(e)
ext_decode(in) ==
    LET end == 2 + unpack_u(SubSeq(in, 1, 2))
        size(off) == unpack_u(SubSeq(in, off + 3, off + 4))
        walk[off \in 2..(end + 4)] ==
            IF off + 4 > end THEN <<>>
            ELSE IF off + 4 + size(off) > end THEN <<[bad |-> TRUE]>>
            ELSE <<[bad |-> FALSE, type |-> unpack_u(SubSeq(in, off + 1, off + 2)),
                    body |-> SubSeq(in, off + 5, off + 4 + size(off))]>>
                 \o walk[off + 4 + size(off)]
    IN  IF Len(in) < 2 \/ end > Len(in) \/ \E x \in ToSet(walk[2]) : x.bad THEN Refused
        ELSE [ok |-> TRUE, e |-> FoldLeft(LAMBDA e, x : ext_add(e, [type |-> x.type,
                                                                     body |-> x.body]),
                                          <<>>, walk[2])]

-------------------------------------------------------------------------------
\* Variable-length integers: groups of VBits bits in a word of VWord bits, at most
\* VMax bytes; 7, 64 and 10 in the code.
VBits == 2
VWord == 5
VMax == 3
varint_encode(v) ==
    LET enc[w \in 0..(2^VWord - 1)] ==
            IF w < 2^VBits THEN <<w>>
            ELSE <<2^VBits + (w % 2^VBits)>> \o enc[w \div 2^VBits]
    IN  enc[v]
varint_decode(in) ==
    LET ends == {i \in 1..Len(in) : i <= VMax /\ in[i] < 2^VBits}
        n == CHOOSE i \in ends : \A j \in ends : i <= j
        group(i) == ((in[i] % 2^VBits) * 2^(VBits * (i - 1))) % 2^VWord
    IN  IF ends = {} THEN Refused
        ELSE [ok |-> TRUE, n |-> n,
              v |-> FoldLeft(LAMBDA sum, i : sum + group(i), 0, [i \in 1..n |-> i])]

-------------------------------------------------------------------------------
\* A trace context as text: version 00, trace id, span id and flags in lower-case
\* hexadecimal, of two, two and one bytes here.
Dash == H
hex(bytes) == FoldLeft(LAMBDA out, b : out \o <<b \div H, b % H>>, <<>>, bytes)
from_hex(s) == [i \in 1..(Len(s) \div 2) |-> s[2 * i - 1] * H + s[2 * i]]
is_zero(bytes) == \A i \in 1..Len(bytes) : bytes[i] = 0
FlagsMask == 1
trace_ctx_format(c) ==
    <<0, 0, Dash>> \o hex(c.trace_id) \o <<Dash>> \o hex(c.span_id) \o <<Dash>> \o hex(<<c.flags>>)
trace_ctx_parse(s) ==
    LET tid == SubSeq(s, 4, 7)  sid == SubSeq(s, 9, 12)  fl == SubSeq(s, 14, 15)
        c == [trace_id |-> from_hex(tid), span_id |-> from_hex(sid), flags |-> from_hex(fl)[1]]
    IN  IF /\ Len(s) = 15 /\ SubSeq(s, 1, 3) = <<0, 0, Dash>> /\ s[8] = Dash /\ s[13] = Dash
           /\ ToSet(tid \o sid \o fl) \subseteq 0..(H - 1)
           /\ c.flags <= FlagsMask /\ ~is_zero(c.trace_id) /\ ~is_zero(c.span_id)
        THEN [ok |-> TRUE, c |-> c] ELSE Refused
rpc_trace_header_pack(c) == <<1>> \o trace_ctx_format(c)
rpc_trace_header_unpack(in) == IF in[1] # 1 THEN Refused ELSE trace_ctx_parse(Tail(in))

-------------------------------------------------------------------------------
\* One thing to put on the wire: a message of some format, two lists, extensions, a
\* number, or a trace context.
VARIABLE item

Texts(n) == UNION {[1..k -> {0, 1, 2}] : k \in 0..n}
Untested == {"timestamp_ms", "server_time_ms", "mode", "mtime_s", "sha256"}
Contents(x) ==
    CASE x.kind = "data" -> Texts(IF x.name = "name" THEN NameMax + 1 ELSE 2)
      [] x.name = "client_id" -> {B^x.n - 1}
      [] x.name \in Untested -> {1}
      [] OTHER -> {0, 1, 2, B^x.n - 1}
Messages(f) ==
    FoldLeft(LAMBDA ms, x : IF x.kind \notin {"num", "data"} THEN ms
                            ELSE {m @@ (x.name :> v) : m \in ms, v \in Contents(x)},
             {<<>>}, Formats[f])

Exts == {[type |-> t, body |-> b] : t \in {1, 2}, b \in {<<>>, <<1, 2>>, <<1, 2, 3>>}}
Ids == {<<0, 0>>, <<0, B - 1>>, <<1, 2>>}
Nothing == [is |-> "nothing", at |-> ""]
WInit == \E f \in DOMAIN Formats \cup {"lists", "exts", "varint", "trace"} :
            item = [Nothing EXCEPT !.at = f]
WNext ==
    /\ item.is = "nothing"
    /\ \/ /\ item.at \in DOMAIN Formats
          /\ \E m \in Messages(item.at) : item' = [is |-> "message", f |-> item.at, m |-> m]
       \/ /\ item.at = "lists"
          /\ \E a, b \in Texts(ListMax + 1) : item' = [is |-> "lists", a |-> a, b |-> b]
       \/ /\ item.at = "exts"
          /\ \E e \in UNION {[1..k -> Exts] : k \in 0..(ListMax + 1)} :
                item' = [is |-> "exts", e |-> e]
       \/ /\ item.at = "varint"
          /\ \E v \in 0..(2^VWord - 1) : item' = [is |-> "varint", v |-> v]
       \/ /\ item.at = "trace"
          /\ \E t, s \in Ids, fl \in Byte :
                item' = [is |-> "trace", c |-> [trace_id |-> t, span_id |-> s, flags |-> fl]]

-------------------------------------------------------------------------------
\* The positions of a packed message that a reader ignores.
Ignored(f, m) ==
    LET upto(i) == Len(FoldLeft(LAMBDA out, x :
                          out \o IF x.kind = "data" THEN m[x.name] ELSE [k \in 1..x.n |-> 0],
                          <<>>, SubSeq(Formats[f], 1, i)))
    IN  UNION {(upto(i - 1) + 1)..upto(i) : i \in {j \in 1..Len(Formats[f]) : Formats[f][j].kind = "pad"}}

\* Every message that a writer lets through and a reader admits arrives as it was
\* packed, whatever follows it in the buffer (after a hello nothing may); a message cut short anywhere is
\* refused without a look behind its end; and one changed byte is refused or seen,
\* except in the bytes that the format ignores (the pack and unpack functions).
WireExact ==
    item.is = "message" /\ Writes(item.f, item.m) =>
        LET w == pack(item.f, item.m)
            same(in) == unpack(item.f, in) = [ok |-> TRUE, m |-> item.m]
        IN  /\ Reads(item.f, item.m) <=> same(w)
            /\ Reads(item.f, item.m) => (same(w \o <<1>>) <=> item.f \notin Exact)
            /\ \A k \in 0..(Len(w) - 1) : ~unpack(item.f, SubSeq(w, 1, k)).ok
            /\ \A i \in DOMAIN w \ Ignored(item.f, item.m) :
                  ~same([w EXCEPT ![i] = (@ + 1) % B])

\* Two ends that exchange their lists choose the same version whichever of them
\* chooses, the highest that both hold, and a cipher suite that both hold and the
\* code implements; extensions, numbers and trace contexts arrive as they were
\* written, and a zero id or an unknown flag never arrives
\* (sl_version_choose, sl_cipher_choose, sl_extensions_decode, sl_varint_decode_u64,
\* sl_trace_ctx_parse).
CodecsExact ==
    CASE item.is = "lists" ->
            LET a == FoldLeft(list_add, <<>>, item.a)  b == FoldLeft(list_add, <<>>, item.b)
                there == list_decode(list_encode(a) \o <<0>>)
                both == ToSet(a) \cap ToSet(b)
            IN  /\ there = [ok |-> TRUE, l |-> a]
                /\ version_choose(there.l, b) = version_choose(b, there.l)
                /\ \A v \in both : v <= version_choose(a, b)
                /\ version_choose(a, b) \in both \cup {0}
                /\ cipher_choose(a, b) = IF 1 \in both THEN 1 ELSE 0
      [] item.is = "exts" ->
            LET e == FoldLeft(ext_add, <<>>, item.e)
            IN  /\ ext_encodes(e)
                /\ ext_decode(ext_encode(e)) = [ok |-> TRUE, e |-> e]
                /\ ext_encodes(item.e) => ext_decode(ext_encode(item.e)) = [ok |-> TRUE, e |-> e]
      [] item.is = "varint" ->
            LET w == varint_encode(item.v)
            IN  /\ varint_decode(w \o <<0>>) = [ok |-> TRUE, n |-> Len(w), v |-> item.v]
                /\ \A k \in 0..(Len(w) - 1) : ~varint_decode(SubSeq(w, 1, k)).ok
      [] item.is = "trace" ->
            LET c == item.c
                known == ~is_zero(c.trace_id) /\ ~is_zero(c.span_id) /\ c.flags <= FlagsMask
            IN  rpc_trace_header_unpack(rpc_trace_header_pack(c)) =
                   IF known THEN [ok |-> TRUE, c |-> c] ELSE Refused
      [] OTHER -> TRUE
===============================================================================
