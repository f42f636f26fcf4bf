----------------------------- MODULE PubSubBroker -----------------------------
(***************************************************************************)
(* pubsub_broker.cpp, called by one session thread per peer.  A peer is    *)
(* its own SubscriberId and fingerprint.  The trie (its own lock) is the   *)
(* set of subscriptions that TopicIndex says it is; the retained messages  *)
(* and the counters are under mu_, so publish and subscribe are two steps  *)
(* each and other calls come in between.  A payload is its publisher and   *)
(* number.                                                                 *)
(***************************************************************************)
EXTENDS TopicNames
LOCAL INSTANCE FiniteSetsExt

CONSTANTS Peers, Topics, Filters,
          MayPublish, MaySubscribe    \* what the ACL allows: <<peer, name>>

VARIABLES subs,        \* trie_: {<<filter, peer>>}
          retained,    \* topic -> payload, Nothing if none
          stats,
          bcall,       \* the broker call each session is in
          handed,      \* history: every delivery returned
          overlap,     \* history: <<filter, peer, payload>>, see RetainedReaches
          inserted,    \* history: how often a subscription was new
          requests,    \* peer -> messages from its client
          deliveries   \* deliveries on their way

broker == <<subs, retained, stats, bcall, handed, overlap, inserted>>

None == [op |-> "none"]
Nothing == <<>>

Init ==
    /\ subs = {}
    /\ retained = [t \in Topics |-> Nothing]
    /\ stats = [publishes_total |-> 0, publishes_denied |-> 0,
                publishes_no_match |-> 0, subscribes_total |-> 0,
                subscribes_denied |-> 0, unsubscribes_total |-> 0,
                deliveries_queued |-> 0, retained_replays |-> 0]
    /\ bcall = [p \in Peers |-> None]
    /\ handed = {} /\ overlap = {} /\ inserted = 0
    /\ requests = [p \in Peers |-> <<>>]
    /\ deliveries = {}

\* The session hands the next message of the wire to the broker.
NextRequest(p, type) ==
    /\ bcall[p] = None /\ requests[p] # <<>> /\ Head(requests[p]).type = type
    /\ requests' = [requests EXCEPT ![p] = Tail(@)]
Goto(p, call) == bcall' = [bcall EXCEPT ![p] = call]

\* PubSubDelivery; the number tells two replays of one message apart.
Delivery(p, topic, payload, replay) ==
    [subscriber |-> p, topic |-> topic, payload |-> payload, retained |-> replay]
Return(made) == handed' = handed \cup made /\ deliveries' = deliveries \cup made
-------------------------------------------------------------------------------
permitted(p, m) ==
    is_valid_publish(m.topic) /\ <<p, m.topic>> \in MayPublish

PublishDenied(p) ==
    /\ NextRequest(p, "publish") /\ ~permitted(p, Head(requests[p]))
    /\ stats' = [stats EXCEPT !.publishes_total = @ + 1, !.publishes_denied = @ + 1]
    /\ UNCHANGED <<subs, retained, bcall, handed, overlap, inserted, deliveries>>

\* publish: look the topic up in the trie ...
Found(topic) == {p \in Peers : \E e \in subs : e[2] = p /\ Covers(e[1], topic)}

PublishMatch(p) ==
    /\ NextRequest(p, "publish") /\ permitted(p, Head(requests[p]))
    /\ LET m == Head(requests[p])
       IN  Goto(p, [op |-> "publish", topic |-> m.topic, payload |-> m.payload,
                    retain |-> m.retain, found |-> Found(m.topic)])
    /\ UNCHANGED <<subs, retained, stats, handed, overlap, inserted, deliveries>>

\* ... then, under mu_, retain the message and make the deliveries.
PublishStore(p) ==
    /\ bcall[p].op = "publish"
    /\ LET c == bcall[p]
       IN  /\ retained' = IF c.retain THEN [retained EXCEPT ![c.topic] = c.payload]
                                      ELSE retained
           /\ Return({Delivery(q, c.topic, c.payload, 0) : q \in c.found})
           /\ stats' = [stats EXCEPT
                  !.publishes_total = @ + 1,
                  !.publishes_no_match = @ + IF c.found = {} THEN 1 ELSE 0,
                  !.deliveries_queued = @ + Cardinality(c.found)]
    /\ Goto(p, None)
    /\ UNCHANGED <<subs, overlap, inserted, requests>>
-------------------------------------------------------------------------------
may_subscribe(p, m) ==
    is_valid_filter(m.filter) /\ <<p, m.filter>> \in MaySubscribe

SubscribeDenied(p) ==
    /\ NextRequest(p, "subscribe") /\ ~may_subscribe(p, Head(requests[p]))
    /\ stats' = [stats EXCEPT !.subscribes_total = @ + 1, !.subscribes_denied = @ + 1]
    /\ UNCHANGED <<subs, retained, bcall, handed, overlap, inserted, deliveries>>

InFlight == {bcall[p].payload : p \in {q \in Peers : bcall[q].op = "publish"}}

\* subscribe: enter the filter into the trie ...
SubscribeInsert(p) ==
    /\ NextRequest(p, "subscribe") /\ may_subscribe(p, Head(requests[p]))
    /\ LET f == Head(requests[p]).filter
       IN  /\ Goto(p, [op |-> "subscribe", filter |-> f])
           /\ subs' = subs \cup {<<f, p>>}
           /\ inserted' = inserted + IF <<f, p>> \in subs THEN 0 ELSE 1
           /\ overlap' = overlap \cup {<<f, p, n>> : n \in InFlight}
    /\ UNCHANGED <<retained, stats, handed, deliveries>>

\* ... then, under mu_, replay what is retained.  The variant replays the
\* topic of the filter's own name only.
ReplayedExactly(filter) == {t \in Topics : retained[t] # Nothing /\ t = filter}
Replayed(filter) ==
    {t \in Topics : retained[t] # Nothing /\ sl_topic_matches(t, filter)}

SubscribeReplay(p) ==
    /\ bcall[p].op = "subscribe"
    /\ LET topics == Replayed(bcall[p].filter)
           nth == stats.subscribes_total + 1
       IN  /\ Return({Delivery(p, t, retained[t], nth) : t \in topics})
           /\ stats' = [stats EXCEPT
                  !.subscribes_total = nth,
                  !.retained_replays = @ + Cardinality(topics)]
    /\ Goto(p, None)
    /\ UNCHANGED <<subs, retained, overlap, inserted, requests>>
-------------------------------------------------------------------------------
\* unsubscribe removes from the trie, and counts under mu_ what it removed.
Remove(p, gone) ==
    /\ subs' = subs \ gone
    /\ IF gone \cap subs = {} THEN UNCHANGED bcall
       ELSE Goto(p, [op |-> "count", n |-> Cardinality(gone \cap subs)])
    /\ UNCHANGED <<retained, stats, handed, overlap, inserted, deliveries>>

unsubscribe(p) ==
    /\ NextRequest(p, "unsubscribe")
    /\ Remove(p, {<<Head(requests[p]).filter, p>>})

\* The session of p ends; what its client sent is not read any more.
drop_subscriber(p) ==
    /\ NextRequest(p, "close")
    /\ Remove(p, {e \in subs : e[2] = p})

\* The variant counts a call, not the subscriptions removed.
CountsOne(c) == 1
Counts(c) == c.n

CountRemoved(p) ==
    /\ bcall[p].op = "count"
    /\ stats' = [stats EXCEPT !.unsubscribes_total = @ + Counts(bcall[p])]
    /\ Goto(p, None)
    /\ UNCHANGED <<subs, retained, handed, overlap, inserted, requests, deliveries>>

SessionStep(p) ==
    \/ PublishDenied(p) \/ PublishMatch(p) \/ PublishStore(p)
    \/ SubscribeDenied(p) \/ SubscribeInsert(p) \/ SubscribeReplay(p)
    \/ unsubscribe(p) \/ drop_subscriber(p) \/ CountRemoved(p)

BrokerNext == \E p \in Peers : SessionStep(p)
-------------------------------------------------------------------------------
Handed(p, n) == \E d \in handed : d.subscriber = p /\ d.payload = n
Settled(p) == bcall[p] = None
Missing(e, t) ==
    /\ Settled(e[2])
    /\ retained[t] # Nothing /\ sl_topic_matches(t, e[1])
    /\ ~Handed(e[2], retained[t])

\* A retained message reaches every subscriber of its topic, live or replayed,
\* however publishes and subscribes interleave, unless the whole subscribe
\* ran inside the publish, between its two locks.
RetainedReaches ==
    \A e \in subs, t \in Topics :
        Missing(e, t) => <<e[1], e[2], retained[t]>> \in overlap

\* The counters under mu_ agree with the trie under its own lock: what was
\* inserted and is gone has been counted, or is about to be, exactly once;
\* and every delivery made was counted.
CountersAgree ==
    /\ inserted = Cardinality(subs) + stats.unsubscribes_total
           + MapThenSumSet(LAMBDA p : bcall[p].n, {p \in Peers : bcall[p].op = "count"})
    /\ stats.deliveries_queued + stats.retained_replays = Cardinality(handed)
===============================================================================
