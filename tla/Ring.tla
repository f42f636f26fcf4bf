--------------------------------- MODULE Ring ---------------------------------
(***************************************************************************)
(* The byte ring of sl_ring.c: head is the write index, tail the read      *)
(* index. Bytes carry their number, so that a misplaced one shows.         *)
(***************************************************************************)
EXTENDS Integers, Sequences

MinOf(a, b) == IF a < b THEN a ELSE b

\* Two copies: up to the end of the array, and the rest from its start.
copy_in(arr, cap, at, data) ==
    LET first == MinOf(cap - at, Len(data))
    IN  [i \in 0..(cap - 1) |->
            IF i \in at..(at + first - 1) THEN data[i - at + 1]
            ELSE IF i < Len(data) - first THEN data[first + i + 1]
            ELSE arr[i]]
copy_out(arr, cap, at, n) ==
    LET first == MinOf(cap - at, n)
    IN  [k \in 1..n |-> IF k <= first THEN arr[at + k - 1] ELSE arr[k - first - 1]]
-------------------------------------------------------------------------------
CONSTANTS Cap, MaxByte   \* capacity; bytes ever pushed
ASSUME RingAssumption == Cap \in Nat \ {0} /\ MaxByte \in Nat

VARIABLES buf, head, tail, used,
          next,    \* history: the number of the next byte
          out      \* history: the bytes handed out by the last pop or peek
rvars == <<buf, head, tail, used, next, out>>

RInit ==
    /\ buf = [i \in 0..(Cap - 1) |-> 0]
    /\ head = 0 /\ tail = 0 /\ used = 0
    /\ next = 1 /\ out = <<>>

free_space == Cap - used
Fresh(len) == [k \in 1..len |-> next + k - 1]

\* The variant moves the index without wrapping at the capacity.
advance_late(i, n) == (i + n) % (Cap + 1)
advance(i, n) == (i + n) % Cap

\* As many of the len bytes as fit.
push(len) ==
    LET n == MinOf(len, free_space)
    IN  /\ next + n <= MaxByte + 1
        /\ buf' = copy_in(buf, Cap, head, Fresh(n))
        /\ head' = advance(head, n)
        /\ used' = used + n
        /\ next' = next + n
        /\ UNCHANGED <<tail, out>>

peek(len) ==
    /\ out' = copy_out(buf, Cap, tail, MinOf(len, used))
    /\ UNCHANGED <<buf, head, tail, used, next>>
discard(len) ==
    LET n == MinOf(len, used)
    IN  /\ tail' = advance(tail, n)
        /\ used' = used - n
        /\ UNCHANGED <<buf, head, next, out>>
pop(len) ==
    LET n == MinOf(len, used)
    IN  /\ out' = copy_out(buf, Cap, tail, n)
        /\ tail' = advance(tail, n)
        /\ used' = used - n
        /\ UNCHANGED <<buf, head, next>>
reset ==
    /\ head' = 0 /\ tail' = 0 /\ used' = 0
    /\ UNCHANGED <<buf, next, out>>

RNext ==
    \/ \E len \in 1..(Cap + 1) : push(len) \/ peek(len) \/ discard(len) \/ pop(len)
    \/ reset
RSpec == RInit /\ [][RNext]_rvars

-------------------------------------------------------------------------------
\* The ring holds the last used bytes that were pushed, oldest first from tail, and
\* head follows the newest one, however pushes, pops and discards of any length
\* wrapped around (sl_ring_push, sl_ring_pop, sl_ring_discard).
Holds ==
    /\ used \in 0..Cap /\ head = (tail + used) % Cap
    /\ \A k \in 0..(used - 1) : buf[(tail + k) % Cap] = next - used + k

\* What pop and peek hand out are the oldest bytes held, in order and without a gap
\* (sl_ring_pop, sl_ring_peek).
Fifo ==
    out' # out => \E n \in 0..used : out' = [k \in 1..n |-> next - used + k - 1]
===============================================================================
