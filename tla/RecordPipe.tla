------------------------------ MODULE RecordPipe ------------------------------
(***************************************************************************)
(* Records on their way: sl_send_queue.c, the stream socket and one of the *)
(* two readers, sl_recv_buf.c and FrameParser of framing.hpp. A byte names *)
(* its record, its place in it, and the length the header announces, which *)
(* is what sl_record_peek_len or the frame header yield.                   *)
(***************************************************************************)
EXTENDS Integers, Sequences, SequencesExt, FiniteSets

MinOf(a, b) == IF a < b THEN a ELSE b

\* Two copies: up to the end of the array, and the rest from its start.
copy_in(arr, cap, at, data) ==
    LET first == MinOf(cap - at, Len(data))
    IN  [i \in 0..(cap - 1) |->
            IF i \in at..(at + first - 1) THEN data[i - at + 1]
            ELSE IF i < Len(data) - first THEN data[first + i + 1]
            ELSE arr[i]]
-------------------------------------------------------------------------------
CONSTANTS QCap, RCap,      \* capacities of the queue and of the receive buffer
          SockMax,         \* bytes that the socket holds
          HeaderLen, RecordMax, Lengths, MaxRecords

VARIABLES buf, qhead, qtail, qused,   \* sl_send_queue
          sock, reader, rbuf, alive,  \* alive: no error was returned to the caller
          accepted, taken             \* history: the records queued and read, as bytes
qvars == <<buf, qhead, qtail, qused>>
vars == <<buf, qhead, qtail, qused, sock, reader, rbuf, alive, accepted, taken>>

\* A record of the given length; one that announces more than RecordMax, or that
\* has the wrong version, type or reserved bytes, is malformed.
Bytes(i, len, ok) ==
    [k \in 1..len |-> [rec |-> i, pos |-> k, len |-> len, ok |-> ok]]

Init ==
    /\ buf = [i \in 0..(QCap - 1) |-> Bytes(0, 1, TRUE)[1]]
    /\ qhead = 0 /\ qtail = 0 /\ qused = 0
    /\ sock = <<>> /\ rbuf = <<>> /\ alive = TRUE
    /\ reader \in {"recv_buf", "frame_parser"}
    /\ accepted = <<>> /\ taken = <<>>

\* All of the record or nothing.
can_enqueue(len) == qused + len <= QCap
enqueue(len, ok) ==
    /\ alive /\ Len(accepted) < MaxRecords /\ can_enqueue(len)
    /\ LET data == Bytes(Len(accepted) + 1, len, ok)
       IN  /\ buf' = copy_in(buf, QCap, qtail, data)
           /\ accepted' = Append(accepted, data)
    /\ qtail' = (qtail + len) % QCap
    /\ qused' = qused + len
    /\ UNCHANGED <<qhead, sock, reader, rbuf, alive, taken>>

\* One round of the loop of flush: the kernel takes w of the bytes up to the end of
\* the array.  EAGAIN and EINTR change nothing.  The variant leaves the last cell.
chunk_short == MinOf(QCap - qhead - 1, qused)
chunk == MinOf(QCap - qhead, qused)
flush(w) ==
    /\ alive /\ w \in 1..chunk /\ Len(sock) + w <= SockMax
    /\ sock' = sock \o [k \in 1..w |-> buf[qhead + k - 1]]
    /\ qhead' = (qhead + w) % QCap
    /\ qused' = qused - w
    /\ UNCHANGED <<buf, qtail, reader, rbuf, alive, accepted, taken>>
\* A hard error of send leaves the rest in the queue.
flush_fails ==
    /\ alive /\ qused > 0
    /\ alive' = FALSE
    /\ UNCHANGED <<qvars, sock, reader, rbuf, accepted, taken>>

\* The caller reads what the buffer has room for; FrameParser has no limit.
Room == IF reader = "recv_buf" THEN RCap - Len(rbuf) ELSE SockMax
push(n) ==
    /\ alive /\ n \in 1..MinOf(Room, Len(sock))
    /\ rbuf' = rbuf \o SubSeq(sock, 1, n)
    /\ sock' = SubSeq(sock, n + 1, Len(sock))
    /\ UNCHANGED <<qvars, reader, alive, accepted, taken>>

\* take and next: wait for the header, judge it, wait for the rest.  A malformed one
\* stays in the buffer.  The variants have no limit, and slide one byte too few to the
\* front.
Announced == rbuf[1].len
Malformed_unlimited == ~rbuf[1].ok
Malformed == ~rbuf[1].ok \/ Announced > RecordMax
Whole == Len(rbuf) >= HeaderLen /\ ~Malformed /\ Len(rbuf) >= Announced
Leftover_early == SubSeq(rbuf, Announced, Len(rbuf))
Leftover == SubSeq(rbuf, Announced + 1, Len(rbuf))
take ==
    /\ alive /\ Len(rbuf) >= HeaderLen
    /\ \/ /\ Malformed
          /\ alive' = FALSE
          /\ UNCHANGED <<rbuf, taken>>
       \/ /\ Whole
          /\ taken' = Append(taken, SubSeq(rbuf, 1, Announced))
          /\ rbuf' = Leftover
          /\ UNCHANGED alive
    /\ UNCHANGED <<qvars, sock, reader, accepted>>

Flushes == \E w \in 1..QCap : flush(w)
Pushes == \E n \in 1..SockMax : push(n)
Next ==
    \/ \E len \in Lengths, ok \in BOOLEAN : enqueue(len, ok)
    \/ Flushes \/ flush_fails \/ Pushes \/ take
Spec == Init /\ [][Next]_vars

-------------------------------------------------------------------------------
\* What the reader takes is what was queued, record by record and byte by byte,
\* wherever the ring wrapped and however the socket cut the stream, and nothing of
\* a malformed record or behind it (sl_send_queue_flush, sl_recv_buf_take,
\* FrameParser::next).
TakenInOrder ==
    /\ IsPrefix(taken, accepted)
    /\ \A i \in 1..Len(taken) : taken[i][1].ok

\* A receive buffer of at least RecordMax never fills up with a record that cannot
\* be completed: when there is no room left, take returns something
\* (sl_recv_buf_push, sl_recv_buf_take).
NeverWedged == reader = "recv_buf" /\ Len(rbuf) = RCap => Malformed \/ Whole

\* Every queued record is taken, unless the connection failed (under fair flushing
\* and reading, which the event loop repeats while the socket is ready).
Arrives ==
    \A i \in 1..MaxRecords : Len(accepted) >= i ~> (Len(taken) >= i \/ ~alive)
===============================================================================
