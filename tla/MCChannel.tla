------------------------------- MODULE MCChannel ------------------------------
(***************************************************************************)
(* The parts of a secure connection, each checked by itself in one run:    *)
(* mode says whether the handshake engine, the two message state machines, *)
(* the record layer, the session table, the replay guard or the beacons    *)
(* move; the others stay in their initial state.                           *)
(***************************************************************************)
EXTENDS Handshake, ReplayGuard, Beacon, SecureChannel, Sessions

VARIABLE mode

records == <<secret, keys, out_seq, in_seq, epochs, conn, chan, sent, opened, used,
             reused, crossed, unopened>>
table == <<sessions, next_id, now, wall, tickets, touched, resumed, advice>>
guard == <<bitmap, words, highest, accepted, rejected_replay, rejected_too_old, seen>>
MCvars == <<mode, evars, fvars, records, table, guard, bvars>>

MCInit ==
    /\ mode \in {"handshake", "flow", "records", "sessions", "guard", "beacon"}
    /\ EInit /\ FInit /\ CInit /\ SInit /\ Init /\ BInit
    /\ mode # "handshake" => e = NewEngine("kClient", None)
    /\ mode # "beacon" => request_ack

MCNext ==
    \/ mode = "handshake" /\ ENext /\ UNCHANGED <<mode, fvars, records, table, guard, bvars>>
    \/ mode = "flow" /\ FNext /\ UNCHANGED <<mode, evars, records, table, guard, bvars>>
    \/ mode = "records" /\ CNext /\ UNCHANGED <<mode, evars, fvars, table, guard, bvars>>
    \/ mode = "sessions" /\ SNext /\ UNCHANGED <<mode, evars, fvars, records, guard, bvars>>
    \/ mode = "guard" /\ Next /\ UNCHANGED <<mode, evars, fvars, records, table, bvars>>
    \/ mode = "beacon" /\ BNext /\ UNCHANGED <<mode, evars, fvars, records, table, guard>>

MCSpec == MCInit /\ [][MCNext]_MCvars

\* The handshake: see Handshake.
HandshakeSound ==
    /\ mode = "handshake" => KeysInOrder
    /\ mode = "flow" => FailsOnlyEarly

\* The record layer, the session table, the replay guard and the beacons are stated in
\* SecureChannel, Sessions, ReplayGuard and Beacon.
===============================================================================
