------------------------------- MODULE MCPubSub -------------------------------
(***************************************************************************)
(* Topics, two questions in one run: mode says whether the subscription    *)
(* trie moves, or the clients with the broker; the other stays in its      *)
(* initial state.  For the trie: filters with every shape of wildcard over *)
(* two segment names, topics of up to two segments, and names to           *)
(* unsubscribe that are no valid filter.  For the broker: one topic below  *)
(* a name that is a topic too, an exact filter, wildcard filters, and a    *)
(* peer that may neither publish the one nor subscribe to the other.       *)
(***************************************************************************)
EXTENDS TopicTrie

CONSTANTS Peers, DefaultAllow

VARIABLES mode, handlers, ccall, invoking, missed, left, calls, published,
          subs, retained, stats, bcall, handed, overlap, inserted, requests, deliveries

service == <<handlers, ccall, invoking, missed, left, calls, published,
             subs, retained, stats, bcall, handed, overlap, inserted, requests, deliveries>>

MCFilters == {<<"a">>, <<"#">>, <<"a", "b">>, <<"+", "b">>, <<"a", "#">>, <<"+", "#">>}
MCNames == MCFilters \cup {<<"">>, <<"a", "#", "b">>, <<"b", "+">>}
MCTopics == {<<"a">>, <<"b">>, <<"a", "b">>, <<"b", "b">>}

Published == {<<"a">>, <<"a", "b">>}
Wanted == {<<"a", "+">>, <<"a", "#">>, <<"b">>}
Acl ==
    LET fresh == NoRules(Peers, DefaultAllow)
        senders == deny(allow(fresh, "p2", "kPublish", <<"a">>), "p2", "kPublish", <<"a", "#">>)
    IN  deny(senders, "p2", "kSubscribe", <<"b">>)
MayPublish == {pt \in Peers \X Published : check(Acl, pt[1], "kPublish", pt[2])}
MaySubscribe == {pf \in Peers \X Wanted : check(Acl, pf[1], "kSubscribe", pf[2])}
Bound(b1, b2) == [p \in Peers |-> IF p = "p1" THEN b1 ELSE b2]

PS == INSTANCE PubSub WITH Topics <- Published, Filters <- Wanted,
                           MaxPublishes <- Bound(1, 1), MaxCalls <- Bound(0, 3)

MCInit == mode \in {"trie", "broker"} /\ Init /\ PS!Init

MCNext ==
    \/ mode = "trie" /\ Next /\ UNCHANGED <<mode, service>>
    \/ mode = "broker" /\ PS!Next /\ UNCHANGED <<mode, vars>>

MCSpec == MCInit /\ [][MCNext]_<<mode, vars, service>>

\* The trie implements the set of subscriptions: see TopicTrie.
TrieIndexed ==
    Index!IndexInit /\ [][mode = "trie" => Index!IndexNext \/ UNCHANGED <<Held, ret>>]_vars

\* The broker, its clients and the two ways to match: see PubSub, PubSubBroker and TopicTrie.
RetainedReaches == mode = "broker" => PS!RetainedReaches
ViewsAgree == IF mode = "broker" THEN PS!CountersAgree /\ PS!SidesAgree ELSE MatchersAgree
MissExplained == PS!MissExplained
===============================================================================
