------------------------------ MODULE TopicNames ------------------------------
(***************************************************************************)
(* sl_topic.c over segments instead of characters. A topic or filter is a  *)
(* sequence of segments; "" is the empty segment between two slashes, "+"  *)
(* and "#" are the wildcards, any other segment is well formed.            *)
(***************************************************************************)
EXTENDS Integers, Sequences, FiniteSets
LOCAL INSTANCE SequencesExt

CONSTANT MaxSegments    \* SL_TOPIC_MAX_SEGMENTS

\* Neither empty nor too long; a name that starts or ends with '/' starts or
\* ends with an empty segment.
common_structure_ok(name) ==
    Len(name) \in 1..MaxSegments /\ name[1] # "" /\ name[Len(name)] # ""

is_valid_publish(topic) ==
    /\ common_structure_ok(topic)
    /\ \A i \in 1..Len(topic) : topic[i] \notin {"", "+", "#"}

is_valid_filter(filter) ==
    /\ common_structure_ok(filter)
    /\ \A i \in 1..Len(filter) :
           filter[i] # "" /\ (filter[i] = "#" => i = Len(filter))

\* sl_topic_matches walks both names in step until one of them ends.
sl_topic_matches(topic, filter) ==
    LET from[i \in 1..Len(topic) + 1] ==
            IF i > Len(topic) \/ i > Len(filter)
            THEN i > Len(topic) /\ i > Len(filter)
            ELSE \/ filter[i] = "#"
                 \/ filter[i] \in {"+", topic[i]} /\ from[i + 1]
    IN  is_valid_publish(topic) /\ is_valid_filter(filter) /\ from[1]

\* sl_topic.h: '+' matches exactly one segment, a final '#' zero or more.
Covers(filter, topic) ==
    LET fixed == SelectSeq(filter, LAMBDA seg : seg # "#")
    IN  /\ IF Len(fixed) = Len(filter) THEN Len(topic) = Len(filter)
                                       ELSE Len(topic) >= Len(fixed)
        /\ \A i \in 1..Len(fixed) : filter[i] \in {"+", topic[i]}
-------------------------------------------------------------------------------
(***************************************************************************)
(* topic_acl.cpp: the rules of each identity, in the order in which they   *)
(* were added, and the answer to a publish or subscribe.  The rules are    *)
(* given before the broker starts.                                         *)
(***************************************************************************)
\* Nobody has rules; acl.rules[fp][op] are those of one identity for one operation.
NoRules(fps, default_allow) ==
    [default_allow |-> default_allow,
     rules |-> [fp \in fps |-> [op \in {"kPublish", "kSubscribe"} |-> <<>>]]]

allow(acl, fp, op, filter) ==
    [acl EXCEPT !.rules[fp][op] = Append(@, [filter |-> filter, allow |-> TRUE])]
deny(acl, fp, op, filter) ==
    [acl EXCEPT !.rules[fp][op] = Append(@, [filter |-> filter, allow |-> FALSE])]

\* The first rule whose filter matches.  A name with wildcards is no topic and matches
\* no rule.
eval(acl, rules, name) ==
    LET first == SelectInSeq(rules, LAMBDA r : sl_topic_matches(name, r.filter))
    IN  IF first = 0 THEN acl.default_allow ELSE rules[first].allow

check(acl, fp, op, name) == eval(acl, acl.rules[fp][op], name)
===============================================================================
