-------------------------------- MODULE Beacon --------------------------------
(***************************************************************************)
(* beacon_client.cpp and beacon_server.cpp: one client identity, whose     *)
(* process may be started again, the TCP connections it opens one after    *)
(* the other, and a server that is called for whole frames and by a        *)
(* reaper.  A frame is [inc, seq, stamp]; its numbers are those of         *)
(* SL_BEACON and start at 1 in every process.  What does not open under    *)
(* the shared key only counts at the server and is left out.               *)
(***************************************************************************)
EXTENDS Integers, Sequences

CONSTANTS Window,        \* ReplayGuard's window
          Timeout, MaxSkew,
          Attempts,      \* 8 in reconnect_with_backoff
          MaxInc, MaxBeacons, MaxLinks, MaxTick

VARIABLES
    \* the client: process number, step of run(), fd_ (0 is none), seq_, attempt, running_
    inc, bpc, fd, seq, attempt, running, request_ack,
    \* connections: frames and pieces of acknowledgements under way, whether it still
    \* carries anything, whether the client has closed it, an ack came in two pieces
    links,
    \* the server's ClientState and the reaper's clock reading
    replay_seen, last_seen, alive, rpc, rnow,
    tick,
    \* history: frames accepted, a frame refused without reason, an ack counted that
    \* answers another beacon, a client buried alive
    taken, misjudged, false_ack, buried

client == <<inc, bpc, fd, seq, attempt, running, request_ack>>
server == <<replay_seen, last_seen, alive, taken, misjudged>>
reaper == <<rpc, rnow, buried>>
bvars == <<client, links, server, reaper, tick, false_ack>>

BInit ==
    /\ inc = 0 /\ bpc = "off" /\ fd = 0 /\ seq = 1 /\ attempt = 0 /\ running = FALSE
    /\ request_ack \in BOOLEAN /\ links = <<>>
    /\ replay_seen = {} /\ last_seen = 0 /\ alive = FALSE /\ rpc = "idle" /\ rnow = 0 /\ tick = 1
    /\ taken = {} /\ misjudged = FALSE /\ false_ack = FALSE /\ buried = FALSE

NewLink == [up |-> <<>>, down |-> <<>>, works |-> TRUE, closed |-> FALSE, split |-> FALSE]
Closed(ls) ==
    IF fd = 0 THEN ls
    ELSE [ls EXCEPT ![fd].closed = TRUE, ![fd].down = <<>>, ![fd].split = FALSE]
-------------------------------------------------------------------------------
\* main of beacon_cli.cpp: a process connects, and ends when it cannot.
start ==
    /\ bpc = "off" /\ inc < MaxInc /\ Len(links) < MaxLinks
    /\ inc' = inc + 1 /\ seq' = 1 /\ running' = FALSE
    /\ links' = Append(links, NewLink) /\ fd' = Len(links) + 1 /\ bpc' = "ready"
    /\ UNCHANGED <<attempt, request_ack, server, reaper, tick, false_ack>>

run ==
    /\ bpc = "ready" /\ bpc' = "loop" /\ running' = TRUE
    /\ UNCHANGED <<inc, fd, seq, attempt, request_ack, links, server, reaper, tick, false_ack>>

\* run() has returned; the destructor closes what is open.
leave ==
    /\ bpc' = "off" /\ links' = Closed(links) /\ fd' = 0 /\ attempt' = 0
    /\ UNCHANGED <<inc, seq, running, request_ack>>

loop ==
    /\ bpc = "loop"
    /\ \/ ~running /\ leave
       \/ /\ running /\ seq <= MaxBeacons
          /\ bpc' = IF fd = 0 THEN "backoff" ELSE "send"
          /\ attempt' = 0 /\ UNCHANGED <<inc, fd, seq, running, request_ack, links>>
    /\ UNCHANGED <<server, reaper, tick, false_ack>>

\* The delays before the attempts are not modelled.
reconnect_with_backoff ==
    /\ bpc = "backoff"
    /\ \/ (~running \/ attempt = Attempts) /\ leave
       \/ /\ running /\ attempt < Attempts
          /\ \/ attempt' = attempt + 1 /\ UNCHANGED <<bpc, fd, links>>
             \/ /\ Len(links) < MaxLinks /\ links' = Append(links, NewLink)
                /\ fd' = Len(links) + 1 /\ bpc' = "send" /\ attempt' = 0
          /\ UNCHANGED <<inc, seq, running, request_ack>>
    /\ UNCHANGED <<server, reaper, tick, false_ack>>

\* send_one has failed: run() closes the connection.  The variant goes on with it.
failed_kept == bpc' = "loop" /\ UNCHANGED <<fd, links>>
failed == bpc' = "loop" /\ links' = Closed(links) /\ fd' = 0

\* The number after a frame was written; the variant counts acknowledged beacons.
seq_after_ack == IF request_ack THEN seq ELSE seq + 1
seq_after == seq + 1

\* sl_beacon_seal under the number of the frame.
Frame == [inc |-> inc, seq |-> seq, stamp |-> tick]

\* A write that fails part of the way leaves half a frame, which never becomes whole.
\* One into a connection that no longer works may well succeed.
send_beacon_locked ==
    /\ bpc = "send"
    /\ \/ failed /\ UNCHANGED seq
       \/ /\ seq' = seq_after
          /\ bpc' = IF request_ack THEN "ack" ELSE "sleep"
          /\ links' = IF links[fd].works
                      THEN [links EXCEPT ![fd].up = Append(@, Frame)]
                      ELSE links
          /\ UNCHANGED fd
    /\ UNCHANGED <<inc, attempt, running, request_ack, server, reaper, tick, false_ack>>

\* A timeout, an end of file or an error; or whatever has arrived, unread.
wait_for_ack ==
    /\ bpc = "ack"
    /\ \/ failed /\ UNCHANGED false_ack
       \/ \E n \in 1..Len(links[fd].down) :
             /\ links' = [links EXCEPT ![fd].down = SubSeq(@, n + 1, Len(@))]
             /\ bpc' = "sleep" /\ UNCHANGED fd
             /\ false_ack' = \/ false_ack
                             \/ /\ ~links[fd].split
                                /\ \A i \in 1..n : links[fd].down[i] # seq - 1
    /\ UNCHANGED <<inc, seq, attempt, running, request_ack, server, reaper, tick>>

sleep ==
    /\ bpc = "sleep" /\ bpc' = "loop"
    /\ UNCHANGED <<inc, fd, seq, attempt, running, request_ack, links, server, reaper, tick, false_ack>>

\* stop(), from the signal handler.
stop ==
    /\ bpc # "off" /\ running /\ running' = FALSE
    /\ UNCHANGED <<inc, bpc, fd, seq, attempt, request_ack, links, server, reaper, tick, false_ack>>
-------------------------------------------------------------------------------
\* What ReplayGuard promises (AntiReplay).
replay_would_accept(s) == s \notin replay_seen /\ \A t \in replay_seen : t - s < Window

\* A frame is refused with reason when a frame of another process of the same client, or
\* one a whole window later, was accepted before.
Reason(m) == \E t \in taken : t.inc # m.inc \/ ~(t.seq - m.seq < Window)

\* The caller acknowledges every frame that asks for it, in one piece or two.
Answered(l, m) ==
    \/ links' = [links EXCEPT ![l].up = Tail(@),
                              ![l].down = IF request_ack /\ ~links[l].closed
                                          THEN Append(@, m.seq) ELSE @]
    \/ /\ request_ack /\ ~links[l].closed
       /\ links' = [links EXCEPT ![l].up = Tail(@), ![l].down = @ \o <<m.seq, m.seq>>,
                                 ![l].split = TRUE]

on_beacon(l) ==
    /\ links[l].up # <<>>
    /\ LET m == Head(links[l].up)
       IN  /\ Answered(l, m)
           /\ \/ /\ ~replay_would_accept(m.seq) /\ misjudged' = (misjudged \/ ~Reason(m))
                 /\ UNCHANGED <<replay_seen, last_seen, alive, taken>>
              \/ /\ replay_would_accept(m.seq) /\ tick - m.stamp > MaxSkew
                 /\ UNCHANGED server
              \/ /\ replay_would_accept(m.seq) /\ tick - m.stamp <= MaxSkew
                 /\ replay_seen' = replay_seen \cup {m.seq} /\ last_seen' = tick /\ alive' = TRUE
                 /\ taken' = taken \cup {[inc |-> m.inc, seq |-> m.seq]}
                 /\ UNCHANGED misjudged
    /\ UNCHANGED <<client, reaper, tick, false_ack>>

\* uint64_t: a client seen after the clock was read is far in the past.
Elapsed(from, to) == (to - from) % 2^8

Expired(last, t) == Elapsed(last, t) > Timeout

reap_clock ==
    /\ rpc = "idle" /\ rpc' = "lock" /\ rnow' = tick
    /\ UNCHANGED <<client, links, server, buried, tick, false_ack>>

reap_stale ==
    /\ rpc = "lock" /\ rpc' = "idle" /\ rnow' = 0
    /\ alive' = (alive /\ ~Expired(last_seen, rnow))
    /\ buried' = (buried \/ (alive /\ ~alive' /\ tick - last_seen <= Timeout))
    /\ UNCHANGED <<client, links, replay_seen, last_seen, taken, misjudged, tick, false_ack>>

\* The network drops a connection and all it carries.
break_link(l) ==
    /\ links[l].works /\ (links[l].up # <<>> \/ ~links[l].closed)
    /\ links' = [links EXCEPT ![l].works = FALSE, ![l].up = <<>>, ![l].down = <<>>]
    /\ UNCHANGED <<client, server, reaper, tick, false_ack>>

pass_time ==
    /\ tick < MaxTick /\ tick' = tick + 1
    /\ UNCHANGED <<client, links, server, reaper, false_ack>>

step == run \/ loop \/ reconnect_with_backoff \/ send_beacon_locked \/ wait_for_ack \/ sleep

BNext ==
    \/ start \/ step \/ stop \/ reap_clock \/ reap_stale \/ pass_time
    \/ \E l \in DOMAIN links : on_beacon(l) \/ break_link(l)

BSpec == BInit /\ [][BNext]_bvars
-------------------------------------------------------------------------------
\* Whatever connections break, are left or deliver late, a frame that arrives whole is
\* refused as a replay only when another process of the same client, or a frame a whole
\* window later, was there before: a retry never reuses the number of a frame that may
\* still arrive (beacon_client.cpp 124-136, beacon_server.cpp 37-64).
BeaconsFresh == ~misjudged

\* An acknowledgement is counted for a beacon the server has not answered only on a
\* connection on which one arrived in two pieces: a late one dies with the connection
\* that is closed when the wait for it ends (beacon_client.cpp 139-149, 200-204).
AckHonest == ~false_ack

\* beacon_server.hpp 57-58: "mark any whose last_seen exceeded the liveness timeout as
\* not alive".  The reaper marks nobody else.
ReapsOnlyStale == ~buried
===============================================================================
