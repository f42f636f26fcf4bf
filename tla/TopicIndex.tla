------------------------------ MODULE TopicIndex ------------------------------
(***************************************************************************)
(* What topic_trie.hpp promises: a set of subscriptions that grows and     *)
(* shrinks, and lookups that return every subscriber whose filter covers   *)
(* the topic.  ret is what the last call returned, by the kind of result.  *)
(***************************************************************************)
EXTENDS TopicNames

CONSTANTS Filters,    \* the filters subscribed to
          Names,      \* the names unsubscribed from, valid or not
          Topics, Subscribers

VARIABLES subs, ret

IndexInit == subs = {} /\ ret = [inserted |-> FALSE]

Subscribed(filter, s) ==
    /\ ret' = [inserted |-> <<filter, s>> \notin subs]
    /\ subs' = subs \cup {<<filter, s>>}

\* Everything after a '#' is ignored.
UpToHash(name) ==
    LET stops == {i \in 1..Len(name) : name[i] = "#"}
    IN  IF stops = {} THEN name
        ELSE SubSeq(name, 1, CHOOSE i \in stops : \A j \in stops : i <= j)

Unsubscribed(name, s) ==
    /\ ret' = [removed |-> <<UpToHash(name), s>> \in subs]
    /\ subs' = subs \ {<<UpToHash(name), s>>}

UnsubscribedAll(s) ==
    LET gone == {e \in subs : e[2] = s}
    IN  ret' = [cleaned |-> Cardinality(gone)] /\ subs' = subs \ gone

Matched(topic) ==
    /\ ret' = [matched |-> {s \in Subscribers :
                                \E e \in subs : e[2] = s /\ Covers(e[1], topic)}]
    /\ UNCHANGED subs

Counted == ret' = [count |-> Cardinality(subs)] /\ UNCHANGED subs

IndexNext ==
    \/ \E s \in Subscribers :
           \/ \E f \in Filters : Subscribed(f, s)
           \/ \E n \in Names : Unsubscribed(n, s)
           \/ UnsubscribedAll(s)
    \/ \E t \in Topics : Matched(t)
    \/ Counted

IndexSpec == IndexInit /\ [][IndexNext]_<<subs, ret>>
===============================================================================
