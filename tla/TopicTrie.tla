------------------------------- MODULE TopicTrie ------------------------------
(***************************************************************************)
(* topic_trie.cpp: a trie of segments.  A node is its path from the root,  *)
(* "+" being the plus branch; nodes are created on the way to a filter and *)
(* never removed.  All operations hold mu_ from beginning to end.          *)
(***************************************************************************)
EXTENDS TopicNames

CONSTANTS Filters, Names, Topics, Subscribers

ASSUME FilterAssumption == \A f \in Filters : is_valid_filter(f)

VARIABLES exact_subs, hash_subs,    \* node -> subscribers
          total_subs, ret

vars == <<exact_subs, hash_subs, total_subs, ret>>
nodes == DOMAIN exact_subs

Init ==
    /\ exact_subs = [n \in {<<>>} |-> {}]
    /\ hash_subs = [n \in {<<>>} |-> {}]
    /\ total_subs = 0
    /\ ret = [inserted |-> FALSE]

Hashes(name) == {i \in 1..Len(name) : name[i] = "#"}

\* Where the walk along a name ends: at the first '#' or at the last segment.
Target(name) ==
    IF Hashes(name) = {} THEN name
    ELSE SubSeq(name, 1, (CHOOSE i \in Hashes(name) : \A j \in Hashes(name) : i <= j) - 1)

Prefixes(path) == {SubSeq(path, 1, i) : i \in 0..Len(path)}
Grown(table, path) ==
    [n \in DOMAIN table \cup Prefixes(path) |->
        IF n \in DOMAIN table THEN table[n] ELSE {}]

\* The variant counts a repeated subscription again.
Recounted(before) == 1
Counts(before) == IF before THEN 0 ELSE 1

subscribe(filter, s) ==
    LET path == Target(filter)
        exact == Grown(exact_subs, path)
        hash == Grown(hash_subs, path)
        before == s \in (IF Hashes(filter) = {} THEN exact ELSE hash)[path]
    IN  /\ IF Hashes(filter) = {}
           THEN /\ exact_subs' = [exact EXCEPT ![path] = @ \cup {s}]
                /\ hash_subs' = hash
           ELSE /\ hash_subs' = [hash EXCEPT ![path] = @ \cup {s}]
                /\ exact_subs' = exact
        /\ total_subs' = total_subs + Counts(before)
        /\ ret' = [inserted |-> ~before]

\* A branch that is missing on the way means there is nothing to remove.
unsubscribe(name, s) ==
    LET path == Target(name)
        table == IF Hashes(name) = {} THEN exact_subs ELSE hash_subs
        removed == path \in nodes /\ s \in table[path]
    IN  /\ ret' = [removed |-> removed]
        /\ IF ~removed THEN UNCHANGED <<exact_subs, hash_subs, total_subs>>
           ELSE /\ total_subs' = total_subs - 1
                /\ IF Hashes(name) = {}
                   THEN /\ exact_subs' = [exact_subs EXCEPT ![path] = @ \ {s}]
                        /\ UNCHANGED hash_subs
                   ELSE /\ hash_subs' = [hash_subs EXCEPT ![path] = @ \ {s}]
                        /\ UNCHANGED exact_subs

unsubscribe_all(s) ==
    LET removed == Cardinality({n \in nodes : s \in exact_subs[n]})
                 + Cardinality({n \in nodes : s \in hash_subs[n]})
    IN  /\ exact_subs' = [n \in nodes |-> exact_subs[n] \ {s}]
        /\ hash_subs' = [n \in nodes |-> hash_subs[n] \ {s}]
        /\ total_subs' = total_subs - removed
        /\ ret' = [cleaned |-> removed]

\* The variant looks at '#' only on the way, not at the last node.
RECURSIVE match_above(_, _, _)
match_above(node, topic, depth) ==
    IF depth = Len(topic) THEN exact_subs[node]
    ELSE hash_subs[node] \cup
         UNION {match_above(child, topic, depth + 1) :
                    child \in {Append(node, topic[depth + 1]), Append(node, "+")} \cap nodes}

\* match_into descends the child named by the next segment and the '+' branch.
RECURSIVE match_into(_, _, _)
match_into(node, topic, depth) ==
    hash_subs[node] \cup
    IF depth = Len(topic) THEN exact_subs[node]
    ELSE UNION {match_into(child, topic, depth + 1) :
                    child \in {Append(node, topic[depth + 1]), Append(node, "+")} \cap nodes}

match(topic) ==
    /\ ret' = [matched |-> match_into(<<>>, topic, 0)]
    /\ UNCHANGED <<exact_subs, hash_subs, total_subs>>

subscription_count ==
    /\ ret' = [count |-> total_subs]
    /\ UNCHANGED <<exact_subs, hash_subs, total_subs>>

Next ==
    \/ \E s \in Subscribers :
           \/ \E f \in Filters : subscribe(f, s)
           \/ \E n \in Names : unsubscribe(n, s)
           \/ unsubscribe_all(s)
    \/ \E t \in Topics : match(t)
    \/ subscription_count

Spec == Init /\ [][Next]_vars
-------------------------------------------------------------------------------
\* The subscriptions a trie holds.
Held == {<<n, s>> \in nodes \X Subscribers : s \in exact_subs[n]} \cup
        {<<Append(n, "#"), s>> : <<n, s>> \in {e \in nodes \X Subscribers :
                                                  e[2] \in hash_subs[e[1]]}}

Index == INSTANCE TopicIndex WITH subs <- Held

\* Every operation of the trie returns what topic_trie.hpp promises: a lookup
\* walks to exactly the subscribers whose filters cover the topic, and the
\* results of subscribe, unsubscribe and the count agree with the
\* subscriptions held, after any sequence of calls.
IndexSpec == Index!IndexSpec

EndsAtHash(topic, filter) ==
    filter[Len(filter)] = "#"
    /\ sl_topic_matches(topic, SubSeq(filter, 1, Len(filter) - 1))

\* The broker's two ways to match agree: a subscriber gets a live message of a
\* topic (trie) exactly when it would get the same message retained
\* (sl_topic_matches), except at a topic that ends where its '#' begins.
MatchersAgree ==
    \A t \in Topics, s \in Subscribers :
        s \in match_into(<<>>, t, 0) <=>
            \E e \in Held : /\ e[2] = s
                            /\ sl_topic_matches(t, e[1]) \/ EndsAtHash(t, e[1])
===============================================================================
