-------------------------------- MODULE PubSub --------------------------------
(***************************************************************************)
(* pubsub_client.cpp: per peer one application thread that subscribes,     *)
(* unsubscribes and publishes, and one receiving thread that pumps inbound *)
(* messages.  A call first sends, then takes mu_ to update handlers_.  The *)
(* counters other than handler_misses are left out.  The clients are       *)
(* joined with the broker by the sessions: each session reads its client's *)
(* messages in order and passes the deliveries the broker returns to their *)
(* subscribers, in no particular order across sessions.                    *)
(***************************************************************************)
EXTENDS TopicNames

CONSTANTS Peers, Topics, Filters, MayPublish, MaySubscribe,
          MaxPublishes, MaxCalls    \* bounds: peer -> publishes, other calls

VARIABLES handlers,     \* peer -> filters with a handler
          ccall,        \* peer -> the call that has sent and not yet locked mu_
          invoking,     \* peer -> handlers still to call: {<<filter, delivery>>}
          missed,       \* history of handler_misses: the deliveries
          left,         \* history: <<filter, peer>> once unsubscribed
          calls,        \* peer -> number of calls so far
          published,    \* peer -> number of publishes so far
          subs, retained, stats, bcall, handed, overlap, inserted,
          requests, deliveries

B == INSTANCE PubSubBroker

client == <<handlers, ccall, invoking, missed, left, calls, published>>
broker == <<subs, retained, stats, bcall, handed, overlap, inserted>>
vars == <<client, broker, requests, deliveries>>

Idle == [op |-> "idle", filter |-> <<>>]
Closed == [op |-> "closed", filter |-> <<>>]

ClientInit ==
    /\ handlers = [p \in Peers |-> {}]
    /\ ccall = [p \in Peers |-> Idle]
    /\ invoking = [p \in Peers |-> {}]
    /\ missed = {} /\ left = {}
    /\ calls = [p \in Peers |-> 0] /\ published = [p \in Peers |-> 0]

Sent(p, m) == requests' = [requests EXCEPT ![p] = Append(@, m)]
Count(p) == calls[p] < MaxCalls[p] /\ calls' = [calls EXCEPT ![p] = @ + 1]

\* subscribe and unsubscribe send first.  A send that fails, or a filter that
\* is not valid, changes nothing but a counter.
Send(p, type, f) ==
    /\ ccall[p] = Idle /\ Count(p)
    /\ type = "subscribe" => is_valid_filter(f)
    /\ Sent(p, [type |-> type, filter |-> f])
    /\ ccall' = [ccall EXCEPT ![p] = [op |-> type, filter |-> f]]
    /\ UNCHANGED <<handlers, invoking, missed, left, published, deliveries>>

Register(p) ==
    /\ ccall[p].op = "subscribe"
    /\ handlers' = [handlers EXCEPT ![p] = @ \cup {ccall[p].filter}]
    /\ ccall' = [ccall EXCEPT ![p] = Idle]
    /\ UNCHANGED <<invoking, missed, left, calls, published, requests, deliveries>>

\* The variant keeps the handler.
Kept(filters, f) == filters
Erased(filters, f) == filters \ {f}

Unregister(p) ==
    /\ ccall[p].op = "unsubscribe"
    /\ handlers' = [handlers EXCEPT ![p] = Erased(@, ccall[p].filter)]
    /\ left' = left \cup {<<ccall[p].filter, p>>}
    /\ ccall' = [ccall EXCEPT ![p] = Idle]
    /\ UNCHANGED <<invoking, missed, calls, published, requests, deliveries>>

publish(p, topic, retain) ==
    /\ ccall[p] = Idle /\ is_valid_publish(topic)
    /\ published[p] < MaxPublishes[p]
    /\ published' = [published EXCEPT ![p] = @ + 1]
    /\ Sent(p, [type |-> "publish", topic |-> topic, retain |-> retain,
                payload |-> <<p, published[p] + 1>>])
    /\ UNCHANGED <<handlers, ccall, invoking, missed, left, calls, deliveries>>

\* The connection goes; nothing is received any more.
Close(p) ==
    /\ ccall[p] = Idle /\ Count(p)
    /\ ccall' = [ccall EXCEPT ![p] = Closed]
    /\ Sent(p, [type |-> "close"])
    /\ UNCHANGED <<handlers, invoking, missed, left, published, deliveries>>

\* on_message: choose the handlers under mu_ ...
\* The variant looks for a handler of the topic's own name.
ToInvokeExactly(p, topic) == {f \in handlers[p] : f = topic}
ToInvoke(p, topic) == {f \in handlers[p] : sl_topic_matches(topic, f)}

on_message(p, d) ==
    /\ d \in deliveries /\ d.subscriber = p
    /\ ccall[p] # Closed /\ invoking[p] = {}
    /\ LET to == ToInvoke(p, d.topic)
       IN  /\ invoking' = [invoking EXCEPT ![p] = {<<f, d>> : f \in to}]
           /\ missed' = IF to = {} THEN missed \cup {d} ELSE missed
    /\ deliveries' = deliveries \ {d}
    /\ UNCHANGED <<handlers, ccall, left, calls, published, requests>>

\* ... and call them without it; one that throws only counts.
Invoke(p, h) ==
    /\ h \in invoking[p]
    /\ invoking' = [invoking EXCEPT ![p] = @ \ {h}]
    /\ UNCHANGED <<handlers, ccall, missed, left, calls, published, requests, deliveries>>

ClientStep(p) ==
    \/ \E f \in Filters, type \in {"subscribe", "unsubscribe"} : Send(p, type, f)
    \/ Register(p) \/ Unregister(p) \/ Close(p)
    \/ \E t \in Topics, retain \in BOOLEAN : publish(p, t, retain)
    \/ \E d \in deliveries : on_message(p, d)
    \/ \E h \in invoking[p] : Invoke(p, h)

ClientNext == \E p \in Peers : ClientStep(p)
-------------------------------------------------------------------------------
Init == ClientInit /\ B!Init

Next ==
    \/ ClientNext /\ UNCHANGED broker
    \/ B!BrokerNext /\ UNCHANGED client

Spec == Init /\ [][Next]_vars
-------------------------------------------------------------------------------
Pending(p) == {f \in Filters : ccall[p] = [op |-> "subscribe", filter |-> f]}

RetainedReaches == B!RetainedReaches
CountersAgree == B!CountersAgree

\* The messages p has still to be handled by the broker leave p without f.
Leaves(p, f) ==
    \E i \in 1..Len(requests[p]) :
        requests[p][i] \in {[type |-> "unsubscribe", filter |-> f], [type |-> "close"]}

\* Broker and client agree on who is subscribed, with messages and calls on
\* their way: a handler without subscription waits for its subscribe message
\* to be handled or was denied, and a subscription without handler waits for
\* the client's lock or for its unsubscribe message.
SidesAgree ==
    \A p \in Peers, f \in Filters :
        /\ f \in handlers[p] => \/ <<f, p>> \in subs
                                \/ <<p, f>> \notin MaySubscribe
                                \/ [type |-> "subscribe", filter |-> f]
                                       \in {requests[p][i] : i \in 1..Len(requests[p])}
                                \/ ccall[p] \in {[op |-> "unsubscribe", filter |-> f],
                                                 Closed}
        /\ <<f, p>> \in subs =>
               \/ f \in handlers[p] \/ f \in Pending(p)
               \/ Leaves(p, f)

\* A message finds no handler only while a subscribe has sent and not yet
\* registered its handler, after an unsubscribe, or at a topic that ends where
\* the '#' of a filter begins.
MissExplained ==
    [][\A d \in missed' \ missed : \E f \in Filters :
           /\ Covers(f, d.topic)
           /\ \/ ~sl_topic_matches(d.topic, f)
              \/ <<f, d.subscriber>> \in left
              \/ f \in Pending(d.subscriber)]_vars
===============================================================================
