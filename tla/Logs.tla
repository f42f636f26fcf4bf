--------------------------------- MODULE Logs ---------------------------------
(***************************************************************************)
(* The two append-only logs, sl_audit_log.c and sl_event_log.c, through    *)
(* crashes, failing writes and reopens.                                    *)
(***************************************************************************)
EXTENDS Integers, SequencesExt, FiniteSetsExt

(***************************************************************************)
(* sl_audit_log.c through crashes, failing writes and reopens.  The file   *)
(* is a sequence of cells of 16 bytes: an entry is a header, a payload of  *)
(* no or one cell, and a hash of two.  A header that was cut is a Stub of  *)
(* fewer bytes.  A hash is the term of what it covers, so no two meet by   *)
(* accident.                                                               *)
(***************************************************************************)
CONSTANTS MaxCells, MaxEntries    \* bounds: cells of the file, entries begun

VARIABLES file, isup,    \* fp
          prev,          \* prev_hash
          entries,
          \* history: the lengths at which the file ended with a whole chain, and
          \* whether prev_hash left the file behind when a flush failed
          ends, astray

avars == <<file, isup, prev, entries, ends, astray>>

Stub == [kind |-> "stub"]
Zero == <<>>
Header(id, plen) == [kind |-> "header", id |-> id, plen |-> plen]
Payload(id, plen) == [i \in 1..plen |-> [kind |-> "payload", id |-> id]]
Sha256(before, head, load) ==
    [half \in 1..2 |-> [kind |-> "hash", half |-> half, before |-> before, head |-> head, load |-> load]]

AInit ==
    /\ file = <<>> /\ isup = FALSE /\ prev = Zero /\ entries = 0
    /\ ends = {0} /\ astray = FALSE
-------------------------------------------------------------------------------
\* The last 32 bytes of the file, whatever they are.  The variant starts a new chain.
Recovered_never == Zero
Recovered ==
    IF Len(SelectSeq(file, LAMBDA c : c # Stub)) >= 2
    THEN SubSeq(file, Len(file) - 1, Len(file)) ELSE Zero

audit_open ==
    /\ ~isup /\ isup' = TRUE /\ prev' = Recovered /\ astray' = FALSE
    /\ UNCHANGED <<file, entries, ends>>

audit_close ==
    /\ isup /\ isup' = FALSE /\ prev' = Zero /\ astray' = FALSE
    /\ UNCHANGED <<file, entries, ends>>

Begins(plen) == isup /\ entries < MaxEntries /\ Len(file) + 3 + plen <= MaxCells

Entry(plen) ==
    LET head == Header(entries + 1, plen)
        load == Payload(entries + 1, plen)
    IN  <<head>> \o load \o Sha256(prev, head, load)

\* What a write that stops early leaves of an entry.
Pieces(cells) == {<<Stub>>} \cup {SubSeq(cells, 1, n) : n \in 0..Len(cells) - 1}

audit_append(plen) ==
    /\ Begins(plen) /\ entries' = entries + 1
    /\ file' = file \o Entry(plen) /\ prev' = SubSeq(file', Len(file') - 1, Len(file'))
    /\ ends' = IF Len(file) \in ends /\ ~astray THEN ends \cup {Len(file')} ELSE ends
    /\ UNCHANGED <<isup, astray>>

\* A fwrite fails and append returns -1.
audit_append_fails(plen) ==
    /\ Begins(plen) /\ entries' = entries + 1
    /\ \E piece \in Pieces(Entry(plen)) : file' = file \o piece
    /\ UNCHANGED <<isup, prev, ends, astray>>

\* The flush fails: nobody looks, and append returns 0.
audit_append_unflushed(plen) ==
    /\ Begins(plen) /\ entries' = entries + 1
    /\ \E piece \in Pieces(Entry(plen)) : file' = file \o piece
    /\ prev' = Sha256(prev, Header(entries + 1, plen), Payload(entries + 1, plen))
    /\ astray' = TRUE
    /\ UNCHANGED <<isup, ends>>

\* Nothing is synced: a crash leaves any beginning of the file.
audit_crash ==
    /\ isup' = FALSE /\ file # <<>> /\ prev' = Zero /\ astray' = FALSE
    /\ \E n \in 0..Len(file) :
           \/ file' = SubSeq(file, 1, n)
           \/ n < Len(file) /\ file[n + 1].kind = "header" /\ file' = Append(SubSeq(file, 1, n), Stub)
    /\ ends' = {n \in ends : n <= Len(file')}
    /\ UNCHANGED entries

\* sl_audit_log_verify from a cell on: the hash before it is the stored one that was
\* found right.  A cell that is no header gives no length and hash that fit.
verify ==
    LET before(i) == IF i = 1 THEN Zero ELSE SubSeq(file, i - 2, i - 1)
        ok[i \in 1..Len(file) + 1] ==
            \/ i = Len(file) + 1
            \/ i = Len(file) /\ file[i] = Stub
            \/ /\ file[i].kind = "header" /\ i + file[i].plen + 2 <= Len(file)
               /\ LET hash == i + file[i].plen + 1
                  IN  /\ SubSeq(file, hash, hash + 1) =
                             Sha256(before(i), file[i], SubSeq(file, i + 1, hash - 1))
                      /\ ok[hash + 2]
    IN  ok[1]

ANext ==
    \/ audit_open \/ audit_close \/ audit_crash
    \/ \E plen \in 0..1 : audit_append(plen) \/ audit_append_fails(plen) \/ audit_append_unflushed(plen)
-------------------------------------------------------------------------------
\* verify accepts exactly the files in which every entry is whole and follows the one it
\* was chained to, but for a cut header at the very end: a log that was closed, or lost
\* whole entries in a crash, goes on with a chain that verifies; one that broke inside an
\* entry never verifies again once it is appended to (sl_audit_log.c 37-47, 57-126).
AuditSound ==
    verify <=> \/ Len(file) \in ends
               \/ file # <<>> /\ Last(file) = Stub /\ Len(file) - 1 \in ends
-------------------------------------------------------------------------------
(***************************************************************************)
(* sl_event_log.c through crashes, failing writes and reopens.  A record   *)
(* is its number and how much of it is there: all, up to some point of its *)
(* payload or CRC ("tail"), or not even its four varints ("head").         *)
(***************************************************************************)
CONSTANT MaxRecs    \* bound on the records of the file

VARIABLES recs, evup,    \* the file, fp
          next_seq

lvars == <<recs, evup, next_seq>>

Rec(n, torn) == [seq |-> n, torn |-> torn]

LInit == recs = <<>> /\ evup = FALSE /\ next_seq = 1

\* The records before the first that is not whole.
Sound == SelectInSeq(Append(recs, Rec(0, "end")), LAMBDA r : r.torn # "no") - 1

\* What iterate shows its visitor before that; the CRC is not compared.
iterate == [i \in 1..Sound |-> recs[i].seq]
-------------------------------------------------------------------------------
\* The walk takes a record whose varints are there and leaps over what should follow.
Walked == {recs[i].seq : i \in {j \in 1..Len(recs) : j <= Sound \/ (j = Sound + 1 /\ recs[j].torn = "tail")}}

\* If more follows a broken record, its bytes are taken for records.
Misread == Sound + 1 < Len(recs)

\* The variant numbers from 1 in every session.
Numbered_anew(seqs) == 1
Numbered(seqs) == Max(seqs \cup {0}) + 1

event_open ==
    /\ ~evup /\ evup' = TRUE
    /\ \/ next_seq' = Numbered(Walked)
       \/ Misread /\ next_seq' \in Numbered(Walked)..MaxRecs + 2
    /\ UNCHANGED recs

event_close == evup /\ evup' = FALSE /\ next_seq' = 1 /\ UNCHANGED recs

event_append ==
    /\ evup /\ Len(recs) < MaxRecs
    /\ recs' = Append(recs, Rec(next_seq, "no")) /\ next_seq' = next_seq + 1
    /\ UNCHANGED evup

\* A fwrite fails (-1), or the CRC or the flush does, which nobody notices.
event_append_breaks ==
    /\ evup /\ Len(recs) < MaxRecs /\ next_seq <= MaxRecs
    /\ \/ UNCHANGED recs
       \/ \E torn \in {"head", "tail"} : recs' = Append(recs, Rec(next_seq, torn))
    /\ next_seq' \in {next_seq, next_seq + 1}
    /\ UNCHANGED evup

event_crash ==
    /\ evup' = FALSE /\ recs # <<>> /\ next_seq' = 1
    /\ \E n \in 0..Len(recs) - 1 :
           \/ recs' = SubSeq(recs, 1, n)
           \/ \E torn \in {"head", "tail"} :
                 /\ recs[n + 1].torn = "no"
                 /\ recs' = Append(SubSeq(recs, 1, n), Rec(recs[n + 1].seq, torn))

LNext == event_open \/ event_close \/ event_append \/ event_append_breaks \/ event_crash
-------------------------------------------------------------------------------
\* Over any number of sessions, crashes and failed writes, the numbers iterate shows
\* before the first broken record only rise, and the next record gets a new one
\* (sl_event_log.c 46-64, 83-102, 118-147).
EventsNumbered ==
    /\ \A i, j \in 1..Sound : i < j => iterate[i] < iterate[j]
    /\ evup => \A i \in 1..Sound : iterate[i] < next_seq
===============================================================================
