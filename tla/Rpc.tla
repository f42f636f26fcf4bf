--------------------------------- MODULE Rpc ----------------------------------
(***************************************************************************)
(* An RpcClient and an RpcDispatcher joined by a wire that may lose, delay *)
(* and repeat messages: the requests the client sends are the ones the     *)
(* dispatcher handles, and its responses are the ones on_response gets.    *)
(***************************************************************************)
EXTENDS RpcClient

CONSTANT MaxChanges     \* bound of RpcDispatcher

VARIABLES methods, running, total, ok, errors, not_found, threw,
          changes, result,
          lost      \* history: calls without a timeout that lost a message

D == INSTANCE RpcDispatcher

server == <<methods, running, total, ok, errors, not_found, threw, changes,
            result>>
rpcVars == <<client, server, requests, responses, lost>>

RpcInit == Init /\ D!Init /\ lost = {}

Patient(c) == \E p \in pending : p.caller = c /\ ~p.timed
Lose(c) == lost' = IF Patient(c) THEN lost \cup {c} ELSE lost
LoseRequest(q) ==
    /\ requests' = requests \ {q} /\ Lose(q.from)
    /\ UNCHANGED <<client, server, responses>>
LoseResponse(r) ==
    /\ responses' = responses \ {r} /\ Lose(r.from)
    /\ UNCHANGED <<client, server, requests>>

Garble(q) == D!HandleMalformed(q) /\ Lose(q.from) /\ UNCHANGED client

RpcNext ==
    \/ ClientNext /\ UNCHANGED <<server, lost>>
    \/ D!DispatchNext /\ UNCHANGED <<client, lost>>
    \/ \E q \in requests : LoseRequest(q) \/ Garble(q)
    \/ \E r \in responses : LoseResponse(r)

\* Threads inside call(), on_response() and handle() keep running, handlers
\* return, somebody sweeps and time passes.  Nobody has to cancel.
ByClient(A) == A /\ UNCHANGED <<server, lost>>
ByServer(A) == A /\ UNCHANGED <<client, lost>>

RpcSpec ==
    /\ RpcInit /\ [][RpcNext]_rpcVars
    /\ \A c \in Callers :
           /\ WF_rpcVars(ByClient(Send(c)))
           /\ WF_rpcVars(ByClient(SendFailed(c)))
           /\ WF_rpcVars(ByClient(\E r \in responses :
                             r.from = c /\ Find(r.id) # {} /\ on_response(r)))
    /\ WF_rpcVars(ByClient(\E m \in moved : Fulfil(m)))
    /\ \A i \in Ids : WF_rpcVars(ByClient(Expire(i)))
    /\ WF_rpcVars(ByClient(sweep_timeouts))
    /\ WF_rpcVars(ByServer(\E q \in requests : D!Lookup(q) \/ D!Unknown(q)))
    /\ WF_rpcVars(ByServer(\E h \in running, s \in {"OK", "INTERNAL"} :
                               D!Finish(h, s, FALSE)))
-------------------------------------------------------------------------------
\* What a future yields is what the dispatcher did for that very call: OK
\* only if its handler returned OK, NOT_FOUND only if no handler ran,
\* INTERNAL only if it failed; sharing ids or mixing responses of concurrent
\* handlers would break it.
OutcomeTruthful ==
    \A c \in Callers :
        outcome[c].status \in {"OK", "NOT_FOUND", "INTERNAL"}
            => outcome[c].status = result[c]

\* Every call is resolved in the end.  One without a timeout may hang if the
\* wire lost a message of it, or if its reply exceeded SL_RPC_BODY_MAX, for
\* which handle() returns no bytes.
Hangs(c) == Patient(c) /\ (c \in lost \/ result[c] = "TOO_BIG")
CallsResolve ==
    []<>(\A c \in Callers : pc[c] = "idle" \/ sets[c] = 1 \/ Hangs(c))

\* What dispatcher and wire do is within what RpcClient assumes of its
\* environment, so its theorems hold here too.
ImplementsClient == Spec
-------------------------------------------------------------------------------
\* The instance that is checked.
OneMethod == [c \in Callers |-> "m"]

\* Every reply is that of its own call, and the counters add up: see RpcClient and Rpc.
RepliesRight == TypeOK /\ ReplyMatchesCall /\ StatsBalance /\ OutcomeTruthful
===============================================================================
