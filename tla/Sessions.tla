------------------------------- MODULE Sessions -------------------------------
(***************************************************************************)
(* session_manager.cpp and sl_session_ticket.c: the table of sessions, the *)
(* advice to change keys, and tickets that resume a session without the    *)
(* table.  Every call holds mu_ and is one step.  Sessions age by the      *)
(* steady clock, tickets by the wall clock, which an operator may set      *)
(* back; a ticket is what was sealed and the key that sealed it.           *)
(***************************************************************************)
EXTENDS Integers, FiniteSets, Functions

CONSTANTS Peers, TicketKeys,
          RekeyBytes, RekeySeconds, TicketLifetime, IdleTimeout,    \* the config
          MaxSessions, MaxTime, MaxBytes, MaxTickets

ASSUME SessionConfig ==
    RekeyBytes \in Nat /\ RekeySeconds \in Nat /\ TicketLifetime \in Nat /\ IdleTimeout \in Nat

VARIABLES sessions, next_id, now, wall, tickets,
          touched,    \* history: when each session last had traffic
          resumed,    \* history: the ticket honoured last, and when
          advice      \* the last answer of record_traffic, with its session
svars == <<sessions, next_id, now, wall, tickets, touched, resumed, advice>>

NoAdvice == [id |-> 0, rekey |-> FALSE]
SInit ==
    /\ sessions = <<>> /\ next_id = 1
    /\ now = 0 /\ wall = 1
    /\ tickets = {} /\ resumed = <<>> /\ touched = <<>> /\ advice = NoAdvice

\* emplace of a key that is not there.
Emplaced(f, id, v) == [x \in DOMAIN f \cup {id} |-> IF x = id THEN v ELSE f[x]]

register_session(peer) ==
    /\ next_id <= MaxSessions
    /\ sessions' = Emplaced(sessions, next_id, [peer |-> peer, opened |-> now, last |-> now,
                                                bytes |-> 0, since_rekey |-> 0])
    /\ next_id' = next_id + 1
    /\ touched' = Emplaced(touched, next_id, now)
    /\ UNCHANGED <<now, wall, tickets, resumed, advice>>

\* The totals are those of the whole session: note_rekey_local and
\* note_rekey_peer only count.  since_rekey is history.
Advised(s) == s.bytes >= RekeyBytes \/ s.last - s.opened >= RekeySeconds

\* The variant does not renew the time of the last activity.
Active_stale(s, n) == [s EXCEPT !.bytes = @ + n, !.since_rekey = @ + n]
Active(s, n) == [s EXCEPT !.bytes = @ + n, !.since_rekey = @ + n, !.last = now]
record_traffic(id, n) ==
    IF id \notin DOMAIN sessions
    THEN advice' = NoAdvice /\ UNCHANGED <<sessions, next_id, now, wall, tickets, touched, resumed>>
    ELSE /\ sessions[id].bytes + n <= MaxBytes
         /\ sessions' = [sessions EXCEPT ![id] = Active(@, n)]
         /\ advice' = [id |-> id, rekey |-> Advised(sessions'[id])]
         /\ touched' = [touched EXCEPT ![id] = now]
         /\ UNCHANGED <<next_id, now, wall, tickets, resumed>>

note_rekey(id) ==
    /\ id \in DOMAIN sessions
    /\ sessions' = [sessions EXCEPT ![id].since_rekey = 0]
    /\ UNCHANGED <<next_id, now, wall, tickets, touched, resumed, advice>>

\* The random IV makes every ticket another one; it opens under the key that sealed it.
ticket_seal(stk, iv, body) == [stk |-> stk, iv |-> iv, body |-> body]
ticket_open(stk, t) == t.stk = stk

issue_ticket(id, stk) ==
    /\ id \in DOMAIN sessions /\ Cardinality(tickets) < MaxTickets
    /\ tickets' = tickets \cup
           {ticket_seal(stk, Cardinality(tickets),
                        [issued_at |-> wall, lifetime |-> TicketLifetime, id |-> id,
                         peer |-> sessions[id].peer])}
    /\ UNCHANGED <<sessions, next_id, now, wall, touched, resumed, advice>>

\* The variant trusts a ticket from the future.
ticket_is_fresh_skewed(b) == b.lifetime # 0 /\ wall - b.issued_at < b.lifetime
ticket_is_fresh(b) ==
    b.lifetime # 0 /\ wall >= b.issued_at /\ wall - b.issued_at < b.lifetime

consume_ticket(stk, t) ==
    /\ ticket_open(stk, t) /\ ticket_is_fresh(t.body)
    /\ resumed' = <<wall, t>>
    /\ UNCHANGED <<sessions, next_id, now, wall, tickets, touched, advice>>

close_session(id) ==
    /\ id \in DOMAIN sessions
    /\ sessions' = Restrict(sessions, DOMAIN sessions \ {id})
    /\ UNCHANGED <<next_id, now, wall, tickets, touched, resumed, advice>>

Idle(s) == now - s.last >= IdleTimeout
sweep ==
    /\ \E id \in DOMAIN sessions : Idle(sessions[id])
    /\ sessions' = Restrict(sessions, {id \in DOMAIN sessions : ~Idle(sessions[id])})
    /\ UNCHANGED <<next_id, now, wall, tickets, touched, resumed, advice>>

Tick ==
    /\ now < MaxTime
    /\ now' = now + 1 /\ wall' = wall + 1
    /\ UNCHANGED <<sessions, next_id, tickets, touched, resumed, advice>>
SetBack ==
    /\ wall > 0
    /\ wall' = wall - 1
    /\ UNCHANGED <<sessions, next_id, now, tickets, touched, resumed, advice>>

SNext ==
    \/ \E peer \in Peers : register_session(peer)
    \/ \E id \in 1..MaxSessions :
          \/ \E n \in 1..2 : record_traffic(id, n)
          \/ note_rekey(id) \/ close_session(id)
          \/ \E stk \in TicketKeys : issue_ticket(id, stk)
    \/ \E stk \in TicketKeys, t \in tickets : consume_ticket(stk, t)
    \/ sweep \/ Tick \/ SetBack

SSpec == SInit /\ [][SNext]_svars
-------------------------------------------------------------------------------
\* A sweep never takes a session that had traffic within the idle timeout: a
\* session that a step removes was without traffic that long or is closed by its
\* id, alone (record_traffic, sweep, close_session).
ActiveKept ==
    [][LET taken == DOMAIN sessions \ DOMAIN sessions'
       IN  \A id \in taken : now - touched[id] >= IdleTimeout \/ taken = {id}]_svars

\* Advice to change keys is never missing once a session has carried enough since
\* its last change (record_traffic, note_rekey_local, note_rekey_peer).
RekeyAdvised ==
    \A id \in DOMAIN sessions :
        advice.id = id /\ sessions[id].since_rekey >= RekeyBytes => advice.rekey

\* A peer that resumes with a ticket was registered under that id, and its ticket
\* is at most its lifetime old by the clock of the call, also after the clock was
\* set back (issue_ticket, consume_ticket).
TicketHonest ==
    resumed # <<>> =>
        /\ resumed[1] - resumed[2].body.issued_at \in 0..(TicketLifetime - 1)
        /\ resumed[2].body.id < next_id /\ resumed[2] \in tickets

\* Tickets and advice together: both clocks are respected.
SessionsHonest == TicketHonest /\ RekeyAdvised
===============================================================================
