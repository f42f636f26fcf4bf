-------------------------------- MODULE KvStore -------------------------------
(***************************************************************************)
(* sl_kvstore.c (and its facade state_store.cpp): an append-only log and   *)
(* an index of it in memory, through crashes, failing writes and reopens.  *)
(* A record that was cut short is torn in its "head" (header or key) or in *)
(* its "tail" (value or CRC).                                              *)
(***************************************************************************)
EXTENDS Integers, Sequences, FiniteSets

CONSTANTS Keys, Values, None,
          BigKeys,      \* keys longer than the 4096 bytes replay can read
          MaxRecords    \* bound on the log

ASSUME KeyAssumption == BigKeys \subseteq Keys /\ None \notin Values

VARIABLES log,       \* the file
          synced,    \* how many of its records a crash cannot take
          index,     \* key -> entry
          isopen

kvvars == <<log, synced, index, isopen>>

Record(k, v, torn) == [key |-> k, value |-> v, torn |-> torn]  \* None: tombstone

\* file_offset points at the record's start or at its value.
Absent == [value |-> None, at |-> "record", tomb |-> TRUE]
Entry(v, at) == [value |-> v, at |-> at, tomb |-> FALSE]
Garbage == [value |-> None, at |-> "value", tomb |-> FALSE]
Empty == [k \in Keys |-> Absent]

KvInit == log = <<>> /\ synced = 0 /\ index = Empty /\ isopen = FALSE
-------------------------------------------------------------------------------
\* The variant lets a tombstone stay in force.
TombSticks(e, v) == [Entry(v, "value") EXCEPT !.tomb = e.tomb /\ e # Absent]
Upsert(e, v) == Entry(v, "value")

\* What replaying one record does to the index.
Replay(idx, r) ==
    [idx EXCEPT ![r.key] = IF r.value = None THEN [@ EXCEPT !.tomb = TRUE]
                                             ELSE Upsert(@, r.value)]

\* Replay goes on to the first record it cannot read.
Stops(i) == log[i].torn # "no" \/ log[i].key \in BigKeys
Readable == {i \in 1..Len(log) : \A j \in 1..i : ~Stops(j)}
Torn(i) == i \in 1..Len(log) /\ log[i].torn = "tail" /\ log[i].key \notin BigKeys

\* The index after the first n records.
ReplayedTo[n \in 0..Len(log)] == IF n = 0 THEN Empty ELSE Replay(ReplayedTo[n - 1], log[n])

Replayed ==
    LET good == Cardinality(Readable)
    IN  ReplayedTo[IF Torn(good + 1) THEN good + 1 ELSE good]

\* Nothing tells replay that a record was torn: if others follow, it takes
\* their bytes for the rest of it, and then for records.
Misread == \E i \in 1..Len(log) - 1 : log[i].torn # "no" /\ \A j \in 1..i - 1 : ~Stops(j)
Misled(e) == {e, Garbage, [e EXCEPT !.tomb = TRUE]}

open ==
    /\ ~isopen /\ isopen' = TRUE
    /\ \/ index' = Replayed
       \/ /\ Misread
          /\ index' \in [Keys -> UNION {Misled(Replayed[k]) : k \in Keys}]
          /\ \A k \in Keys : index'[k] \in Misled(Replayed[k])
    /\ UNCHANGED <<log, synced>>

close ==
    /\ isopen /\ isopen' = FALSE
    /\ index' = Empty
    /\ UNCHANGED <<log, synced>>
-------------------------------------------------------------------------------
Room == isopen /\ Len(log) < MaxRecords

\* The variant keeps the offset of an entry that exists.
IndexedOnce(e, v) == IF e.tomb THEN Entry(v, "record") ELSE e
Indexed(e, v) == Entry(v, "record")

put(k, v) ==
    /\ Room
    /\ log' = Append(log, Record(k, v, "no"))
    /\ index' = [index EXCEPT ![k] = Indexed(@, v)]
    /\ UNCHANGED <<synced, isopen>>

delete(k) ==
    /\ Room
    /\ log' = Append(log, Record(k, None, "no"))
    /\ index' = [index EXCEPT ![k].tomb = TRUE]
    /\ UNCHANGED <<synced, isopen>>

\* write_record fails half-way; put or delete returns -1.
WriteFails(k, v, torn) ==
    /\ Room
    /\ log' = Append(log, Record(k, v, torn))
    /\ UNCHANGED <<synced, index, isopen>>

sync ==
    /\ isopen /\ synced' = Len(log)
    /\ UNCHANGED <<log, index, isopen>>

\* The process or the machine stops: of what was not synced a prefix is left,
\* which may end inside a record.
Crash ==
    /\ isopen /\ isopen' = FALSE
    /\ index' = Empty
    /\ \E n \in synced..Len(log) :
           \/ log' = SubSeq(log, 1, n)
           \/ /\ n < Len(log)
              /\ \E torn \in {"head", "tail"} :
                     log' = Append(SubSeq(log, 1, n), [log[n + 1] EXCEPT !.torn = torn])
    /\ synced' = Len(log')

has(k) == ~index[k].tomb

\* get seeks from file_offset past a header it expects there; at a value it
\* finds none.
get(k) == IF index[k].at = "record" THEN index[k].value ELSE None

KvNext ==
    \/ open \/ close \/ sync \/ Crash
    \/ \E k \in Keys :
           \/ delete(k)
           \/ \E v \in Values : put(k, v)
           \/ \E v \in Values \cup {None}, torn \in {"head", "tail"} : WriteFails(k, v, torn)

KvSpec == KvInit /\ [][KvNext]_kvvars
-------------------------------------------------------------------------------
\* The value the whole records of the log give a key.
Writes(k) == {i \in 1..Len(log) : log[i].key = k /\ log[i].torn = "no"}
Current(k) == IF Writes(k) = {} THEN None
              ELSE log[CHOOSE i \in Writes(k) : \A j \in Writes(k) : j <= i].value

Intact == \A i \in 1..Len(log) : ~Stops(i)

\* While no record is torn and no key is too long, the index has a key exactly
\* when the newest record of the key says so, through any sequence of puts,
\* deletes, crashes and reopens.
HasCurrent ==
    isopen /\ Intact => \A k \in Keys : has(k) <=> Current(k) # None

\* A get returns the newest value of every key put since the store was opened,
\* whatever the state of the rest of the file.
GetFresh ==
    \A k \in Keys : isopen /\ has(k) /\ index[k].at = "record" => get(k) = Current(k)

\* Both: the index agrees with an intact log, and what was put in this session is
\* read back (sl_kvstore.c 137-310).
IndexCurrent == HasCurrent /\ GetFresh

\* sl_kvstore.h:39-40: get, "On success writes the value".
GetCurrent ==
    isopen /\ Intact => \A k \in Keys : has(k) => get(k) = Current(k)
===============================================================================
