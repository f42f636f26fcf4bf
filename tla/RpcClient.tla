------------------------------ MODULE RpcClient -------------------------------
(***************************************************************************)
(* rpc_client.cpp: calls of several threads, the threads that feed in      *)
(* responses, sweep expired calls and cancel, over a wire that may lose,   *)
(* delay, reorder and repeat messages.  A step is one critical section of  *)
(* mu_ or one access outside it: the send, and each set_value on a promise *)
(* that was moved out of pending_.                                         *)
(*                                                                         *)
(* Each caller makes one call.  "from" in messages and outcomes is         *)
(* history: the caller whose request the message answers.  The unmatched   *)
(* counter, which nothing reads, is left out.                              *)
(***************************************************************************)
EXTENDS Integers, FiniteSets

CONSTANTS Callers,
          MaxId,       \* UINT32_MAX, the last usable request id
          MethodOf,    \* the method each caller calls
          NoOne        \* "from" of what answers no caller

ASSUME IdAssumption == MaxId \in Nat \ {0}
ASSUME CallerAssumption == IsFiniteSet(Callers) /\ NoOne \notin Callers

Statuses == {"OK", "BAD_REQUEST", "NOT_FOUND", "INTERNAL", "UNAVAILABLE",
             "TIMED_OUT", "NONE"}

VARIABLES next, exhausted,   \* ids_
          pending,           \* pending_: records [id, caller, timed]
          moved,             \* promises taken out of pending_, not yet set
          pc,                \* where each call() is
          id,                \* the id of each call, 0 before it has one
          expired,           \* ids whose deadline has passed
          sets,              \* set_value calls on each caller's promise
          outcome,           \* what each future yields
          started, matched, timeouts, cancellations, send_failures,  \* stats_
          requests, responses     \* the wire

counters == <<started, matched, timeouts, cancellations, send_failures>>
client == <<next, exhausted, pending, moved, pc, id, expired, sets, outcome,
            counters>>
vars == <<client, requests, responses>>

Ids == 1..MaxId
Methods == {MethodOf[c] : c \in Callers}
Find(i) == {p \in pending : p.id = i}
Move(p, s, f) == [caller |-> p.caller, status |-> s, from |-> f]
-------------------------------------------------------------------------------
\* The ids below next were used by earlier calls, which are over.
Init ==
    /\ next \in Ids /\ exhausted = FALSE
    /\ pending = {} /\ moved = {}
    /\ pc = [c \in Callers |-> "idle"]
    /\ id = [c \in Callers |-> 0]
    /\ expired = {}
    /\ sets = [c \in Callers |-> 0]
    /\ outcome = [c \in Callers |-> [status |-> "NONE", from |-> NoOne]]
    /\ started = 0 /\ matched = 0 /\ timeouts = 0
    /\ cancellations = 0 /\ send_failures = 0
    /\ requests = {} /\ responses = {}

set_value(c, s, f) ==
    /\ sets' = [sets EXCEPT ![c] = @ + 1]
    /\ outcome' = [outcome EXCEPT ![c] = [status |-> s, from |-> f]]

\* sl_rpc_id_next: UINT32_MAX is handed out once.  The variants run past it,
\* and forget the exhausted flag.
id_beyond(i) == i + 1
id_after(i) == IF i = MaxId THEN i ELSE i + 1
never_exhausts(i) == FALSE
exhausts(i) == i = MaxId

\* call() with a bad method name or body, or with no id left, answers at
\* once.
Refuse(c) ==
    /\ pc[c] = "idle"
    /\ pc' = [pc EXCEPT ![c] = "done"]
    /\ \/ set_value(c, "BAD_REQUEST", NoOne)
       \/ exhausted /\ set_value(c, "UNAVAILABLE", NoOne)
    /\ UNCHANGED <<next, exhausted, pending, moved, id, expired, counters,
                   requests, responses>>

\* call(): id, emplace and count under the lock.  timed is timeout_ms > 0.
\* An emplace that finds the id in use would drop the promise.
Register(c, timed) ==
    /\ pc[c] = "idle"
    /\ ~exhausted
    /\ id' = [id EXCEPT ![c] = next]
    /\ next' = id_after(next)
    /\ exhausted' = exhausts(next)
    /\ pending' = IF Find(next) = {}
                  THEN pending \cup {[id |-> next, caller |-> c, timed |-> timed]}
                  ELSE pending
    /\ started' = started + 1
    /\ pc' = [pc EXCEPT ![c] = "send"]
    /\ UNCHANGED <<moved, expired, sets, outcome, matched, timeouts,
                   cancellations, send_failures, requests, responses>>

\* send_fn, outside the lock.  It may report a failure although the request
\* went out.
Send(c) ==
    LET q == [id |-> id[c], from |-> c, method |-> MethodOf[c]] IN
    /\ pc[c] = "send"
    /\ \/ /\ pc' = [pc EXCEPT ![c] = "done"]
          /\ requests' = requests \cup {q}
       \/ /\ pc' = [pc EXCEPT ![c] = "unsent"]
          /\ requests' \in {requests, requests \cup {q}}
    /\ UNCHANGED <<next, exhausted, pending, moved, id, expired, sets, outcome,
                   counters, responses>>

\* The failed send resolves the call, unless somebody else was faster.  The
\* variant does not look whether the call is still pending.
SendFailedBlindly(c) ==
    /\ pc[c] = "unsent"
    /\ pc' = [pc EXCEPT ![c] = "done"]
    /\ set_value(c, "UNAVAILABLE", NoOne)
    /\ pending' = pending \ Find(id[c])
    /\ send_failures' = send_failures + 1
    /\ UNCHANGED <<next, exhausted, moved, id, expired, started, matched,
                   timeouts, cancellations, requests, responses>>

SendFailed(c) ==
    /\ pc[c] = "unsent"
    /\ pc' = [pc EXCEPT ![c] = "done"]
    /\ \/ /\ Find(id[c]) = {}
          /\ UNCHANGED <<pending, sets, outcome, send_failures>>
       \/ \E p \in Find(id[c]) :
              /\ set_value(p.caller, "UNAVAILABLE", NoOne)
              /\ pending' = pending \ {p}
              /\ send_failures' = send_failures + 1
    /\ UNCHANGED <<next, exhausted, moved, id, expired, started, matched,
                   timeouts, cancellations, requests, responses>>
-------------------------------------------------------------------------------
\* A response that finds its call takes the promise; any other is counted
\* and dropped.  The wire may hold on to a copy.
on_response(r) ==
    /\ responses' \in {responses, responses \ {r}}
    /\ \/ /\ Find(r.id) = {}
          /\ UNCHANGED <<pending, moved, matched>>
       \/ \E p \in Find(r.id) :
              /\ pending' = pending \ {p}
              /\ moved' = moved \cup {Move(p, r.status, r.from)}
              /\ matched' = matched + 1
    /\ UNCHANGED <<next, exhausted, pc, id, expired, sets, outcome, started,
                   timeouts, cancellations, send_failures, requests>>

\* The calls sweep_timeouts takes; the variant has the deadline test
\* inverted, so that it takes those without a deadline.
Untimed == {p \in pending : ~p.timed}
Overdue == {p \in pending : p.timed /\ p.id \in expired}

sweep_timeouts ==
    /\ Overdue # {}
    /\ pending' = pending \ Overdue
    /\ moved' = moved \cup {Move(p, "TIMED_OUT", NoOne) : p \in Overdue}
    /\ timeouts' = timeouts + Cardinality(Overdue)
    /\ UNCHANGED <<next, exhausted, pc, id, expired, sets, outcome, started,
                   matched, cancellations, send_failures, requests, responses>>

\* Also what the destructor does.  The variant counts after the clear.
cancel_all_late ==
    /\ pending # {}
    /\ pending' = {}
    /\ moved' = moved \cup {Move(p, "UNAVAILABLE", NoOne) : p \in pending}
    /\ UNCHANGED <<next, exhausted, pc, id, expired, sets, outcome, started,
                   matched, timeouts, cancellations, send_failures, requests,
                   responses>>

cancel_all ==
    /\ pending # {}
    /\ pending' = {}
    /\ moved' = moved \cup {Move(p, "UNAVAILABLE", NoOne) : p \in pending}
    /\ cancellations' = cancellations + Cardinality(pending)
    /\ UNCHANGED <<next, exhausted, pc, id, expired, sets, outcome, started,
                   matched, timeouts, send_failures, requests, responses>>

\* The tail of on_response, sweep_timeouts and cancel_all, after the lock.
Fulfil(m) ==
    /\ moved' = moved \ {m}
    /\ set_value(m.caller, m.status, m.from)
    /\ UNCHANGED <<next, exhausted, pending, pc, id, expired, counters,
                   requests, responses>>

\* The clock passes the deadline of a call.
Expire(i) ==
    /\ i \notin expired /\ \E p \in pending : p.id = i /\ p.timed
    /\ expired' = expired \cup {i}
    /\ UNCHANGED <<next, exhausted, pending, moved, pc, id, sets, outcome,
                   counters, requests, responses>>

\* External: the peer and the wire.  Requests vanish, responses vanish, and
\* responses appear: to calls that were sent, or to bytes nobody sent.
Replies ==
    {[id |-> id[c], from |-> c, status |-> s] :
        c \in {d \in Callers : pc[d] \in {"unsent", "done"} /\ id[d] # 0},
        s \in Statuses}
    \cup {[id |-> 0, from |-> NoOne, status |-> "BAD_REQUEST"]}

Environment ==
    /\ requests' \subseteq requests
    /\ responses' \subseteq responses \cup Replies
    /\ UNCHANGED client

ClientNext ==
    \/ \E c \in Callers : \/ Refuse(c)
                          \/ \E timed \in BOOLEAN : Register(c, timed)
                          \/ Send(c)
                          \/ SendFailed(c)
    \/ \E r \in responses : on_response(r)
    \/ sweep_timeouts
    \/ cancel_all
    \/ \E m \in moved : Fulfil(m)
    \/ \E i \in Ids : Expire(i)

Next == ClientNext \/ Environment

Spec == Init /\ [][Next]_vars
-------------------------------------------------------------------------------
TypeOK ==
    /\ next \in Ids /\ exhausted \in BOOLEAN
    /\ pending \subseteq [id : Ids, caller : Callers, timed : BOOLEAN]
    /\ moved \subseteq [caller : Callers, status : Statuses,
                        from : Callers \cup {NoOne}]
    /\ pc \in [Callers -> {"idle", "send", "unsent", "done"}]
    /\ id \in [Callers -> 0..MaxId]
    /\ expired \subseteq Ids
    /\ sets \in [Callers -> Nat]
    /\ outcome \in [Callers -> [status : Statuses, from : Callers \cup {NoOne}]]
    /\ started \in Nat /\ matched \in Nat /\ timeouts \in Nat
    /\ cancellations \in Nat /\ send_failures \in Nat
    /\ requests \subseteq [id : Ids, from : Callers, method : Methods]
    /\ responses \subseteq [id : 0..MaxId, from : Callers \cup {NoOne},
                            status : Statuses]

InPending(c) == \E p \in pending : p.caller = c
InMoved(c) == \E m \in moved : m.caller = c

\* An id is used by one call only, and everything that carries an id, in
\* pending_ or on the wire, belongs to the call it was handed to.
Used(i) == i < next \/ (exhausted /\ i = next)
IdsOwned ==
    /\ exhausted => next = MaxId
    /\ \A c \in Callers : /\ id[c] # 0 => Used(id[c]) /\ pc[c] # "idle"
                          /\ pc[c] \in {"send", "unsent"} => id[c] # 0
    /\ \A c, d \in Callers : id[c] # 0 /\ id[c] = id[d] => c = d
    /\ \A p \in pending : id[p.caller] = p.id
    /\ \A q \in requests : id[q.from] = q.id
    /\ \A r \in responses : r.id # 0 => r.from \in Callers /\ id[r.from] = r.id

\* A promise is in exactly one place from the moment call() starts: in
\* pending_, moved out by one of on_response, sweep_timeouts and cancel_all,
\* or set, once.  set_value is never called twice (it would throw) and no
\* future is abandoned.
PromiseOnePlace ==
    /\ \A c \in Callers :
           /\ sets[c] <= 1
           /\ InPending(c) => ~InMoved(c) /\ sets[c] = 0
           /\ InMoved(c) => sets[c] = 0
           /\ pc[c] # "idle" <=> InPending(c) \/ InMoved(c) \/ sets[c] = 1
    /\ \A p, q \in pending : p.caller = q.caller => p = q
    /\ \A m, n \in moved : m.caller = n.caller => m = n

\* A response resolves the call it answers and no other, however late it
\* comes and whatever happened to that call meanwhile.
ReplyMatchesCall ==
    /\ \A c \in Callers : outcome[c].from \in {c, NoOne}
    /\ \A m \in moved : m.from \in {m.caller, NoOne}

\* The counters account for every call: each started call is still pending
\* or was counted once, as matched, timed out, cancelled or failed to send.
StatsBalance ==
    started = Cardinality(pending) + matched + timeouts + cancellations
              + send_failures
===============================================================================
