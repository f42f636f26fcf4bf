---------------------------- MODULE RpcDispatcher -----------------------------
(***************************************************************************)
(* rpc_dispatcher.cpp: several threads run handle() while methods are      *)
(* registered and unregistered.  A step is one critical section of mu_;    *)
(* the handler runs between two of them, on a copy taken under the lock.   *)
(* A request or response is a record [id, from, ...]; "from" is history.   *)
(***************************************************************************)
EXTENDS Integers, FiniteSets

CONSTANTS Methods,     \* method names
          Callers, NoOne,
          MaxChanges   \* bound: changes of the method table

VARIABLES methods,      \* methods_
          running,      \* handlers under way: records [req, threw]
          total, ok, errors, not_found, threw,      \* stats_
          requests, responses,
          changes,
          result        \* history: what handle() did for each caller

stats == <<total, ok, errors, not_found, threw>>
server == <<methods, running, stats, changes, result>>
vars == <<server, requests, responses>>

\* The variant forgets to copy the request's id.
Anonymous(q, s) == [id |-> 0, from |-> q.from, status |-> s]
Response(q, s) == [id |-> q.id, from |-> q.from, status |-> s]
-------------------------------------------------------------------------------
Init ==
    /\ methods \in SUBSET Methods /\ running = {}
    /\ total = 0 /\ ok = 0 /\ errors = 0 /\ not_found = 0 /\ threw = 0
    /\ changes = 0
    /\ result = [c \in Callers |-> "none"]

register_method(m) ==
    /\ changes < MaxChanges
    /\ methods' = methods \cup {m}
    /\ changes' = changes + 1
    /\ UNCHANGED <<running, stats, result, requests, responses>>

unregister_method(m) ==
    /\ changes < MaxChanges
    /\ methods' = methods \ {m}
    /\ changes' = changes + 1
    /\ UNCHANGED <<running, stats, result, requests, responses>>

\* handle() of bytes that do not decode, here in place of a request, answers
\* request 0.
HandleMalformed(q) ==
    /\ requests' = requests \ {q}
    /\ total' = total + 1
    /\ errors' = errors + 1
    /\ responses' = responses \cup
                       {[id |-> 0, from |-> NoOne, status |-> "BAD_REQUEST"]}
    /\ UNCHANGED <<methods, running, ok, not_found, threw, changes, result>>

\* handle(), first critical section.
Unknown(q) ==
    /\ q \in requests /\ q.method \notin methods
    /\ requests' = requests \ {q}
    /\ total' = total + 1
    /\ not_found' = not_found + 1
    /\ errors' = errors + 1
    /\ responses' = responses \cup {Response(q, "NOT_FOUND")}
    /\ result' = [result EXCEPT ![q.from] = "NOT_FOUND"]
    /\ UNCHANGED <<methods, running, ok, threw, changes>>

Lookup(q) ==
    /\ q \in requests /\ q.method \in methods
    /\ requests' = requests \ {q}
    /\ total' = total + 1
    /\ running' = running \cup {[req |-> q, threw |-> FALSE]}
    /\ UNCHANGED <<methods, ok, errors, not_found, threw, changes,
                   result, responses>>

\* The handler throws.
Throw(h) ==
    /\ ~h.threw
    /\ running' = (running \ {h}) \cup {[h EXCEPT !.threw = TRUE]}
    /\ threw' = threw + 1
    /\ errors' = errors + 1
    /\ result' = [result EXCEPT ![h.req.from] = "INTERNAL"]
    /\ UNCHANGED <<methods, total, ok, not_found, changes, requests, responses>>

\* The status handle() ends with: the handler's, or INTERNAL and no body after
\* a throw.  The variant leaves the default status of RpcResponse in place.
DefaultAfterThrow(h, s, big) == h.threw => s = "OK" /\ ~big
Ends(h, s, big) == h.threw => s = "INTERNAL" /\ ~big

count(s) ==
    /\ ok' = IF s = "OK" THEN ok + 1 ELSE ok
    /\ errors' = IF s = "OK" THEN errors ELSE errors + 1

\* handle(), last critical section and make_response, which gives nothing
\* for a body beyond the limit.
Finish(h, s, big) ==
    /\ Ends(h, s, big)
    /\ running' = running \ {h}
    /\ count(s)
    /\ responses' = IF big THEN responses ELSE responses \cup {Response(h.req, s)}
    /\ result' = IF h.threw THEN result
                  ELSE [result EXCEPT ![h.req.from] = IF big THEN "TOO_BIG" ELSE s]
    /\ UNCHANGED <<methods, total, not_found, threw, changes, requests>>

DispatchNext ==
    \/ \E m \in Methods : register_method(m) \/ unregister_method(m)
    \/ \E q \in requests : Lookup(q) \/ Unknown(q)
    \/ \E h \in running :
           \/ Throw(h)
           \/ \E s \in {"OK", "INTERNAL"}, big \in BOOLEAN : Finish(h, s, big)
===============================================================================
