----------------------------- MODULE ReplayGuard ------------------------------
(***************************************************************************)
(* replay_guard.hpp: the sliding-window replay filter that one connection  *)
(* (or one client of the beacon server) owns. bitmap is the set of the bit *)
(* positions of bitmap_ that are 1; position p stands for highest_ - p.    *)
(* words is the array of machine words that bitmap_ is in the code, which  *)
(* every step changes as the code does.                                    *)
(***************************************************************************)
EXTENDS Integers, FiniteSets

CONSTANTS kWindow,    \* WindowSize, a power of two
          WordBits,   \* bits of one word, 64 in the code
          MaxSeq,     \* largest sequence number (UINT64_MAX)
          MaxCalls    \* bound: calls counted between two resets

ASSUME WindowAssumption == kWindow \in Nat \ {0}
ASSUME WordAssumption == WordBits \in Nat \ {0} /\ kWindow % WordBits = 0
ASSUME SeqAssumption == MaxSeq \in Nat
ASSUME CallsAssumption == MaxCalls \in Nat

VARIABLES bitmap, words, highest, accepted, rejected_replay, rejected_too_old,
          seen        \* history: the numbers accepted since the last reset

vars == <<bitmap, words, highest, accepted, rejected_replay, rejected_too_old, seen>>

Positions == 0..kWindow - 1
-------------------------------------------------------------------------------
\* Position of a number in the bitmap; the mask is % kWindow because kWindow
\* is a power of two.
index_of(seq, high) ==
    (IF high >= seq THEN high - seq ELSE kWindow - 1) % kWindow

test_bit(bm, seq, high) == index_of(seq, high) \in bm

\* The variant forgets to record the number.
set_bit_lost(bm, seq, high) == bm
set_bit(bm, seq, high) == bm \cup {index_of(seq, high)}

\* advance_to clears everything, or moves every bit up by the distance and
\* drops what leaves the window.  The variants rotate, and do not drop.
advance_to_rotating(bm, shift) == {(p + shift) % kWindow : p \in bm}
advance_to_unclipped(bm, shift) == {p + shift : p \in bm}
advance_to(bm, shift) ==
    IF shift >= kWindow THEN {} ELSE {p \in Positions : p - shift \in bm}

\* The number has left the window; the variant drops the check.
too_old_never(seq) == FALSE
too_old(seq) == highest - seq >= kWindow

would_accept(seq) ==
    /\ seq # 0
    /\ seq <= highest => /\ ~too_old(seq)
                         /\ ~test_bit(bitmap, seq, highest)
-------------------------------------------------------------------------------
\* bitmap_ in machine words; a word is the set of its bits that are 1.
Words == 0..(kWindow \div WordBits) - 1
Bits == 0..WordBits - 1
NoBits == [i \in Words |-> {}]

set_word_bit(w, idx) == [w EXCEPT ![idx \div WordBits] = @ \cup {idx % WordBits}]

\* advance_to is a word shift followed by a bit shift, both in place.  The loops run
\* from the highest word down and read only words that they have not written yet, so
\* each one is a simultaneous update.
shift_words(w, n) ==
    [i \in Words |-> IF i - n >= 0 THEN w[i - n] ELSE {}]

\* The variant runs the loop upwards and so reads words already shifted.
shift_bits_upwards(w, n) ==
    LET Out[i \in Words] ==
        {b \in Bits : b - n \in w[i]} \cup
        (IF i > 0 THEN {b \in Bits : b + WordBits - n \in Out[i - 1]} ELSE {})
    IN  Out
shift_bits(w, n) ==
    [i \in Words |->
        {b \in Bits : b - n \in w[i]} \cup
        (IF i > 0 THEN {b \in Bits : b + WordBits - n \in w[i - 1]} ELSE {})]

advance_words(w, shift) ==
    LET word_shift == shift \div WordBits
        bit_shift  == shift % WordBits
        w1 == IF word_shift > 0 THEN shift_words(w, word_shift) ELSE w
    IN  IF shift >= kWindow THEN NoBits
        ELSE IF bit_shift > 0 THEN shift_bits(w1, bit_shift) ELSE w1
-------------------------------------------------------------------------------
Init ==
    /\ bitmap = {} /\ words = NoBits
    /\ highest = 0
    /\ accepted = 0
    /\ rejected_replay = 0
    /\ rejected_too_old = 0
    /\ seen = {}

CallsLeft == accepted + rejected_replay + rejected_too_old < MaxCalls

Accept(seq) ==
    /\ accepted' = accepted + 1
    /\ seen' = seen \cup {seq}
    /\ UNCHANGED <<rejected_replay, rejected_too_old>>

\* check_and_update, one disjunct per return statement (the return for
\* number 0 changes nothing).
AcceptAbove(seq) ==
    /\ seq > highest
    /\ highest' = seq
    /\ bitmap' = set_bit(advance_to(bitmap, seq - highest), seq, seq)
    /\ words' = set_word_bit(advance_words(words, seq - highest), index_of(seq, seq))
    /\ Accept(seq)

RejectTooOld(seq) ==
    /\ seq <= highest
    /\ too_old(seq)
    /\ rejected_too_old' = rejected_too_old + 1
    /\ UNCHANGED <<bitmap, words, highest, accepted, rejected_replay, seen>>

RejectReplay(seq) ==
    /\ seq <= highest
    /\ ~too_old(seq)
    /\ test_bit(bitmap, seq, highest)
    /\ rejected_replay' = rejected_replay + 1
    /\ UNCHANGED <<bitmap, words, highest, accepted, rejected_too_old, seen>>

AcceptWithin(seq) ==
    /\ seq <= highest
    /\ ~too_old(seq)
    /\ ~test_bit(bitmap, seq, highest)
    /\ bitmap' = set_bit(bitmap, seq, highest)
    /\ words' = set_word_bit(words, index_of(seq, highest))
    /\ UNCHANGED highest
    /\ Accept(seq)

check_and_update(seq) ==
    /\ seq # 0
    /\ CallsLeft
    /\ \/ AcceptAbove(seq)
       \/ RejectTooOld(seq)
       \/ RejectReplay(seq)
       \/ AcceptWithin(seq)

reset ==
    /\ bitmap' = {} /\ words' = NoBits
    /\ highest' = 0
    /\ accepted' = 0
    /\ rejected_replay' = 0
    /\ rejected_too_old' = 0
    /\ seen' = {}

Next == reset \/ \E seq \in 0..MaxSeq : check_and_update(seq)

Spec == Init /\ [][Next]_vars
-------------------------------------------------------------------------------
TypeOK ==
    /\ bitmap \subseteq Positions
    /\ words \in [Words -> SUBSET Bits]
    /\ highest \in 0..MaxSeq
    /\ accepted \in 0..MaxCalls
    /\ rejected_replay \in 0..MaxCalls
    /\ rejected_too_old \in 0..MaxCalls
    /\ seen \subseteq 1..MaxSeq

\* The bitmap is exactly the window's part of the history: after any
\* sequence of advances, in-window inserts and resets, position p is set
\* iff number highest_ - p was accepted.  advance_to must neither lose a
\* bit that is still inside the window nor leave a stale one behind.
WindowExact == \A p \in Positions : p \in bitmap <=> highest - p \in seen

\* highest_ is the largest accepted number (0 before the first one).
HighestIsMax ==
    /\ \A s \in seen : s <= highest
    /\ highest \in seen \cup {0}

\* Every acceptance was of a new number: check_and_update never accepts the
\* same sequence number twice between two resets, whatever the order of the
\* calls, so the counter equals the number of distinct accepted numbers.
AcceptedOnce == accepted = Cardinality(seen)

\* would_accept answers exactly the reference question: the number is not
\* the reserved 0, was not accepted before, and the window still covers it.
WouldAcceptExact ==
    \A s \in 0..MaxSeq :
        would_accept(s) <=> s # 0 /\ s \notin seen /\ highest - s < kWindow

\* The guard implements the promise of AntiReplay.
AR == INSTANCE AntiReplay
ImplementsAntiReplay == AR!Spec
\* The words are the bitmap after any sequence of calls: the word and bit shifts of
\* advance_to together move each bit by the whole distance, across word boundaries, and
\* drop exactly what leaves the window.
Mirrors(w, bm) ==
    \A p \in Positions : p \in bm <=> p % WordBits \in w[p \div WordBits]
WordsExact == Mirrors(words, bitmap)

\* The guard at both levels: the bitmap mirrors the history, the words mirror the bitmap,
\* no number is accepted twice, and would_accept answers the reference question.
GuardExact == TypeOK /\ WindowExact /\ WordsExact /\ AcceptedOnce /\ WouldAcceptExact
===============================================================================
