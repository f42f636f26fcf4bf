----------------------------- MODULE BeaconProofs -----------------------------
(***************************************************************************)
(* For every capacity, the ring of sl_ring.c holds the newest bytes in order *)
(* and hands them out in order.  No number of a beacon is used for two     *)
(* frames of one process, so the server refuses no frame without reason,   *)
(* whatever the connections do; and a frame the client counts as           *)
(* acknowledged is one the server took.                                    *)
(***************************************************************************)
EXTENDS Ring, Beacon, TLAPS

\* Indices below twice the capacity wrap by one subtraction at most.
LEMMA ModSmall == ASSUME NEW c \in Nat \ {0}, NEW x \in 0..(c - 1) PROVE x % c = x
BY SMT
LEMMA ModOnce == ASSUME NEW c \in Nat \ {0}, NEW x \in c..(2 * c - 1) PROVE x % c = x - c
BY SMT

\* Where the k-th byte from tail lies.
Slot(k) == IF tail + k < Cap THEN tail + k ELSE tail + k - Cap

RingTyped ==
    /\ buf \in [0..(Cap - 1) -> Nat]
    /\ head \in 0..(Cap - 1) /\ tail \in 0..(Cap - 1) /\ used \in 0..Cap
    /\ next \in Nat \ {0} /\ used < next

\* The inductive form: types, and Holds without the modulus.
RingInv ==
    /\ RingTyped
    /\ head = Slot(used)
    /\ \A k \in 0..(used - 1) : buf[Slot(k)] = next - used + k

\* advance by at most the capacity is one conditional subtraction.
LEMMA AdvanceIs ==
    ASSUME NEW i \in 0..(Cap - 1), NEW n \in 0..Cap
    PROVE  advance(i, n) = IF i + n < Cap THEN i + n ELSE i + n - Cap
<1>1. CASE i + n < Cap
  BY <1>1, RingAssumption, ModSmall DEF advance
<1>2. CASE i + n >= Cap
  <2>1. i + n \in Cap..(2 * Cap - 1)  BY <1>2, RingAssumption
  <2>2. (i + n) % Cap = i + n - Cap  BY <2>1, RingAssumption, ModOnce
  <2> QED BY <2>2, <1>2, RingAssumption DEF advance
<1> QED BY <1>1, <1>2, RingAssumption

\* The modulus in Holds is the conditional subtraction in Slot.
LEMMA SlotIs ==
    ASSUME tail \in 0..(Cap - 1), NEW k \in 0..Cap
    PROVE  (tail + k) % Cap = Slot(k)
BY AdvanceIs DEF advance, Slot

LEMMA InvHolds == RingInv => Holds
<1> SUFFICES ASSUME RingInv PROVE Holds  OBVIOUS
<1>1. \A k \in 0..Cap : (tail + k) % Cap = Slot(k)  BY SlotIs DEF RingInv, RingTyped
<1>2. head = (tail + used) % Cap  BY <1>1 DEF RingInv, RingTyped
<1>3. ASSUME NEW k \in 0..(used - 1) PROVE buf[(tail + k) % Cap] = next - used + k
  <2>1. k \in 0..Cap  BY RingAssumption DEF RingInv, RingTyped
  <2>2. buf[Slot(k)] = next - used + k  BY DEF RingInv
  <2> QED BY <1>1, <2>1, <2>2
<1> QED BY <1>2, <1>3 DEF RingInv, RingTyped, Holds

\* n bytes leave at the tail: discard and pop.
LEMMA Leave ==
    ASSUME RingInv, NEW n \in 0..used, tail' = advance(tail, n), used' = used - n,
           UNCHANGED <<buf, head, next>>
    PROVE  RingInv'
<1>1. tail' = IF tail + n < Cap THEN tail + n ELSE tail + n - Cap
  BY AdvanceIs, RingAssumption DEF RingInv, RingTyped
<1>2. RingTyped'  BY <1>1, RingAssumption DEF RingInv, RingTyped
<1>3. head' = (Slot(used))'  BY <1>1, RingAssumption DEF RingInv, RingTyped, Slot
<1>4. ASSUME NEW k \in 0..(used' - 1) PROVE buf'[(Slot(k))'] = next' - used' + k
  <2>1. (Slot(k))' = Slot(n + k)  BY <1>1, RingAssumption DEF RingInv, RingTyped, Slot
  <2>2. n + k \in 0..(used - 1)  BY RingAssumption DEF RingInv, RingTyped
  <2>3. buf[Slot(n + k)] = next - used + (n + k)  BY <2>2 DEF RingInv
  <2> QED BY <2>1, <2>3, RingAssumption DEF RingInv, RingTyped
<1> QED BY <1>2, <1>3, <1>4 DEF RingInv

\* n bytes arrive at the head.
LEMMA Arrive ==
    ASSUME RingInv, NEW n \in 0..(Cap - used), buf' = copy_in(buf, Cap, head, Fresh(n)),
           head' = advance(head, n), used' = used + n, next' = next + n, UNCHANGED tail
    PROVE  RingInv'
<1>1. head' = IF head + n < Cap THEN head + n ELSE head + n - Cap
  BY AdvanceIs, RingAssumption, SMTT(60) DEF RingInv, RingTyped
<1>2. Len(Fresh(n)) = n /\ \A j \in 1..n : Fresh(n)[j] = next + j - 1
  BY RingAssumption DEF Fresh, RingInv, RingTyped
<1> DEFINE first == IF Cap - head < n THEN Cap - head ELSE n
<1>a. /\ head \in 0..(Cap - 1) /\ used \in 0..Cap /\ next \in Nat \ {0}
      /\ n \in Nat /\ first \in 0..n /\ head + first <= Cap /\ n - first <= Cap
      /\ buf \in [0..(Cap - 1) -> Nat]
  BY RingAssumption, SMTT(60) DEF RingInv, RingTyped
<1>3. buf' = [i \in 0..(Cap - 1) |->
                 IF i \in head..(head + first - 1) THEN Fresh(n)[i - head + 1]
                 ELSE IF i < n - first THEN Fresh(n)[first + i + 1]
                 ELSE buf[i]]
  BY <1>2 DEF copy_in, MinOf
<1>4. \A i \in 0..(Cap - 1) :
         buf'[i] = IF i \in head..(head + first - 1) THEN next + (i - head)
                   ELSE IF i < n - first THEN next + first + i
                   ELSE buf[i]
  <2> SUFFICES ASSUME NEW i \in 0..(Cap - 1)
               PROVE  buf'[i] = IF i \in head..(head + first - 1) THEN next + (i - head)
                                ELSE IF i < n - first THEN next + first + i
                                ELSE buf[i]
    OBVIOUS
  <2> HIDE DEF first
  <2>1. CASE i \in head..(head + first - 1)
    <3>1. i - head + 1 \in 1..n  BY <2>1, <1>a, RingAssumption
    <3>2. Fresh(n)[i - head + 1] = next + (i - head + 1) - 1  BY <3>1, <1>2
    <3>3. buf'[i] = Fresh(n)[i - head + 1]  BY <2>1, <1>3
    <3> QED BY <2>1, <3>2, <3>3, <1>a, RingAssumption
  <2>2. CASE i \notin head..(head + first - 1) /\ i < n - first
    <3>1. first + i + 1 \in 1..n  BY <2>2, <1>a, RingAssumption
    <3>2. Fresh(n)[first + i + 1] = next + (first + i + 1) - 1  BY <3>1, <1>2
    <3>3. buf'[i] = Fresh(n)[first + i + 1]  BY <2>2, <1>3
    <3> QED BY <2>2, <3>2, <3>3, <1>a, RingAssumption
  <2>3. CASE i \notin head..(head + first - 1) /\ ~(i < n - first)
    BY <2>3, <1>3
  <2> QED BY <2>1, <2>2, <2>3
<1>5. RingTyped'
  <2> HIDE DEF first
  <2>1. buf' \in [0..(Cap - 1) -> Nat]
    <3>1. ASSUME NEW i \in 0..(Cap - 1) PROVE buf'[i] \in Nat
      BY <1>4, <1>a, RingAssumption, SMTT(60)
    <3> QED BY <3>1, <1>3
  <2>2. head' \in 0..(Cap - 1)  BY <1>1, <1>a, RingAssumption
  <2>3. used' \in 0..Cap /\ next' \in Nat \ {0} /\ used' < next' /\ tail' \in 0..(Cap - 1)
    BY RingAssumption DEF RingInv, RingTyped
  <2> QED BY <2>1, <2>2, <2>3 DEF RingTyped
<1>6. head' = (Slot(used))'  BY <1>1, RingAssumption DEF RingInv, RingTyped, Slot
<1>7. ASSUME NEW k \in 0..(used' - 1) PROVE buf'[(Slot(k))'] = next' - used' + k
  <2>1. (Slot(k))' = Slot(k) /\ Slot(k) \in 0..(Cap - 1)
    BY RingAssumption DEF RingInv, RingTyped, Slot
  <2>2. CASE k < used
    <3>1. buf[Slot(k)] = next - used + k  BY <2>2, RingAssumption DEF RingInv, RingTyped
    <3>2. Slot(k) \notin head..(head + first - 1) /\ ~(Slot(k) < n - first)
      BY <2>2, RingAssumption DEF RingInv, RingTyped, Slot
    <3> QED BY <2>1, <3>1, <3>2, <1>4, RingAssumption, SMTT(60) DEF RingInv, RingTyped
  <2>3. CASE k >= used /\ k - used < first
    <3>1. Slot(k) \in head..(head + first - 1) /\ Slot(k) - head = k - used
      BY <2>3, RingAssumption DEF RingInv, RingTyped, Slot
    <3> HIDE DEF first
    <3>2. buf'[Slot(k)] = next + (k - used)  BY <2>1, <3>1, <1>4
    <3> QED BY <2>1, <3>2, <1>a, RingAssumption
  <2>4. CASE k >= used /\ k - used >= first
    <3>1. /\ Slot(k) \notin head..(head + first - 1)
          /\ Slot(k) < n - first /\ Slot(k) = k - used - first
      BY <2>4, RingAssumption DEF RingInv, RingTyped, Slot
    <3> HIDE DEF first
    <3>2. buf'[Slot(k)] = next + first + (k - used - first)  BY <2>1, <3>1, <1>4
    <3> QED BY <2>1, <3>2, <1>a, RingAssumption
  <2> QED BY <2>2, <2>3, <2>4, RingAssumption, SMTT(60) DEF RingInv, RingTyped
<1> QED BY <1>5, <1>6, <1>7 DEF RingInv

LEMMA InvInit == RInit => RingInv
BY RingAssumption DEF RInit, RingInv, RingTyped, Slot

LEMMA InvNext == RingInv /\ [RNext]_rvars => RingInv'
<1> SUFFICES ASSUME RingInv, [RNext]_rvars PROVE RingInv'  OBVIOUS
<1>1. ASSUME NEW len \in 1..(Cap + 1), push(len) PROVE RingInv'
  <2>1. MinOf(len, free_space) \in 0..(Cap - used)
    BY <1>1, RingAssumption DEF MinOf, free_space, RingInv, RingTyped
  <2> QED BY <1>1, <2>1, Arrive DEF push
<1>2. ASSUME NEW len \in 1..(Cap + 1), discard(len) \/ pop(len) PROVE RingInv'
  <2>1. MinOf(len, used) \in 0..used
    BY <1>2, RingAssumption DEF MinOf, RingInv, RingTyped
  <2> QED BY <1>2, <2>1, Leave DEF discard, pop
<1>3. ASSUME NEW len \in 1..(Cap + 1), peek(len) PROVE RingInv'
  BY <1>3 DEF peek, RingInv, RingTyped, Slot
<1>4. CASE reset  BY <1>4, RingAssumption DEF reset, RingInv, RingTyped, Slot
<1>5. CASE UNCHANGED rvars  BY <1>5 DEF rvars, RingInv, RingTyped, Slot
<1> QED BY <1>1, <1>2, <1>3, <1>4, <1>5 DEF RNext

\* Whatever the capacity and the lengths pushed, popped, peeked and discarded, the
\* ring holds the newest bytes in order from tail (sl_ring.c).
THEOREM RingHolds == RSpec => []Holds
<1>1. RSpec => []RingInv  BY InvInit, InvNext, PTL DEF RSpec
<1> QED BY <1>1, InvHolds, PTL

\* copy_out from the tail yields the oldest bytes.
LEMMA OldestOut ==
    ASSUME RingInv, NEW n \in 0..used
    PROVE  copy_out(buf, Cap, tail, n) = [k \in 1..n |-> next - used + k - 1]
<1> DEFINE first == IF Cap - tail < n THEN Cap - tail ELSE n
<1>1. copy_out(buf, Cap, tail, n) =
        [k \in 1..n |-> IF k <= first THEN buf[tail + k - 1] ELSE buf[k - first - 1]]
  BY DEF copy_out, MinOf
<1>2. ASSUME NEW k \in 1..n
      PROVE  (IF k <= first THEN buf[tail + k - 1] ELSE buf[k - first - 1])
               = next - used + k - 1
  <2>1. buf[Slot(k - 1)] = next - used + (k - 1)
    BY RingAssumption DEF RingInv, RingTyped
  <2>2. Slot(k - 1) = IF k <= first THEN tail + k - 1 ELSE k - first - 1
    BY RingAssumption DEF RingInv, RingTyped, Slot
  <2> QED BY <2>1, <2>2, RingAssumption, ZenonT(60) DEF RingInv, RingTyped
<1> HIDE DEF first
<1> QED BY <1>1, <1>2

\* What pop and peek hand out are the oldest bytes held, in order and without a gap
\* (sl_ring_pop, sl_ring_peek).
THEOREM RingFifo == RSpec => [][Fifo]_rvars
<1>1. ASSUME RingInv, [RNext]_rvars PROVE [Fifo]_rvars
  <2>1. ASSUME NEW len \in 1..(Cap + 1), peek(len) \/ pop(len) PROVE Fifo
    <3>1. MinOf(len, used) \in 0..used
      BY <1>1, RingAssumption DEF MinOf, RingInv, RingTyped
    <3>2. out' = [k \in 1..MinOf(len, used) |-> next - used + k - 1]
      BY <2>1, <3>1, <1>1, OldestOut DEF peek, pop
    <3> QED BY <3>1, <3>2 DEF Fifo
  <2> QED BY <1>1, <2>1 DEF RNext, push, discard, reset, Fifo
<1>2. RSpec => []RingInv  BY InvInit, InvNext, PTL DEF RSpec
<1> QED BY <1>1, <1>2, PTL DEF RSpec

-------------------------------------------------------------------------------
Frames == [inc : Nat, seq : Nat, stamp : Nat]
Links == [up : Seq(Frames), down : Seq(Nat),
          works : BOOLEAN, closed : BOOLEAN, split : BOOLEAN]

Typed ==
    /\ inc \in Nat /\ seq \in Nat /\ tick \in Nat /\ fd \in Nat
    /\ links \in Seq(Links)
    /\ taken \subseteq [inc : Nat, seq : Nat]

Same(f, g) == f.inc = g.inc /\ f.seq = g.seq

\* The process that runs has not yet reached the number of f.
Old(f) == f.inc <= inc /\ (f.inc = inc => f.seq < seq)

\* Every frame under way has a number of its own, on whichever connection it is, and was
\* not accepted before.
Unique ==
    /\ \A s \in replay_seen : \E t \in taken : t.seq = s
    /\ \A t \in taken : Old(t)
    /\ \A l \in DOMAIN links : \A i \in DOMAIN links[l].up :
          /\ Old(links[l].up[i])
          /\ \A t \in taken : ~Same(t, links[l].up[i])
          /\ \A k \in DOMAIN links : \A j \in DOMAIN links[k].up :
                Same(links[l].up[i], links[k].up[j]) => l = k /\ i = j

IInv == Typed /\ Unique /\ ~misjudged

\* ms holds no frame that ls does not hold in the same place.
NoMore(ls, ms) ==
    \A k \in DOMAIN ms :
        ms[k].up = <<>> \/ (k \in DOMAIN ls /\ ms[k].up = ls[k].up)

\* What the actions change of a connection.
LEMMA UpUpdate ==
    ASSUME NEW r \in Links, NEW u \in Seq(Frames)
    PROVE  [r EXCEPT !.up = u] \in Links /\ [r EXCEPT !.up = u].up = u
BY ZenonT(60) DEF Links

LEMMA DownUpdate ==
    ASSUME NEW r \in Links, NEW d \in Seq(Nat)
    PROVE  [r EXCEPT !.down = d] \in Links /\ [r EXCEPT !.down = d].up = r.up
BY ZenonT(60) DEF Links

LEMMA FlagUpdate ==
    ASSUME NEW r \in Links
    PROVE  /\ [r EXCEPT !.works = FALSE] \in Links /\ [r EXCEPT !.works = FALSE].up = r.up
           /\ [r EXCEPT !.closed = TRUE] \in Links /\ [r EXCEPT !.closed = TRUE].up = r.up
           /\ [r EXCEPT !.split = TRUE] \in Links /\ [r EXCEPT !.split = TRUE].up = r.up
           /\ [r EXCEPT !.split = FALSE] \in Links /\ [r EXCEPT !.split = FALSE].up = r.up
BY ZenonT(60) DEF Links

LEMMA FrameTyped ==
    ASSUME Typed, NEW l \in DOMAIN links
    PROVE  /\ links[l] \in Links /\ links[l].up \in Seq(Frames)
           /\ \A i \in DOMAIN links[l].up :
                 links[l].up[i] \in Frames
                 /\ links[l].up[i].inc \in Nat /\ links[l].up[i].seq \in Nat
<1>1. links[l] \in Links
  BY DEF Typed
<1>2. links[l].up \in Seq(Frames)
  BY <1>1 DEF Links
<1>3. \A i \in DOMAIN links[l].up : links[l].up[i] \in Frames
  BY <1>2
<1> QED BY <1>1, <1>2, <1>3, ZenonT(60) DEF Frames

LEMMA InitIInv == BInit => IInv
BY DEF BInit, IInv, Typed, Unique

\* A step that puts no frame on a connection and lets the server accept none.
LEMMA Quiet ==
    ASSUME IInv, Typed', NoMore(links, links'), UNCHANGED <<replay_seen, taken, misjudged>>,
           (inc' = inc /\ seq' >= seq) \/ inc' > inc
    PROVE  IInv'
<1>1. \A f : f.inc \in Nat /\ f.seq \in Nat /\ Old(f) =>
          f.inc <= inc' /\ (f.inc = inc' => f.seq < seq')
  BY SMTT(60) DEF IInv, Typed, Old
<1>2. \A l \in DOMAIN links' : \A i \in DOMAIN links'[l].up :
         /\ l \in DOMAIN links /\ i \in DOMAIN links[l].up
         /\ links'[l].up[i] = links[l].up[i]
         /\ links[l].up[i].inc \in Nat /\ links[l].up[i].seq \in Nat
  <2> SUFFICES ASSUME NEW l \in DOMAIN links', NEW i \in DOMAIN links'[l].up
               PROVE  /\ l \in DOMAIN links /\ i \in DOMAIN links[l].up
                      /\ links'[l].up[i] = links[l].up[i]
                      /\ links[l].up[i].inc \in Nat /\ links[l].up[i].seq \in Nat
    OBVIOUS
  <2>1. l \in DOMAIN links /\ links'[l].up = links[l].up
    BY DEF NoMore
  <2> QED BY <2>1, FrameTyped DEF IInv
<1>3. \A t \in taken : t.inc \in Nat /\ t.seq \in Nat
  BY DEF IInv, Typed
<1>4. (\A t \in taken : Old(t))'
  BY <1>1, <1>3 DEF IInv, Unique, Old
<1>5. \A l \in DOMAIN links' : \A i \in DOMAIN links'[l].up : Old(links[l].up[i])
  BY <1>2 DEF IInv, Unique
<1>6. (\A l \in DOMAIN links : \A i \in DOMAIN links[l].up : Old(links[l].up[i]))'
  BY <1>1, <1>2, <1>5 DEF Old
<1>7. Unique'
  BY <1>2, <1>4, <1>6, SMTT(60) DEF IInv, Unique, Same
<1> QED BY <1>7 DEF IInv

\* Closed empties no queue of frames.
LEMMA ClosedQuiet ==
    ASSUME Typed
    PROVE  Closed(links) \in Seq(Links) /\ NoMore(links, Closed(links))
<1>1. CASE fd = 0
  BY <1>1 DEF Closed, NoMore, Typed
<1>2. CASE fd # 0
  <2> DEFINE ms == Closed(links)
  <2>1. ms = [links EXCEPT ![fd].closed = TRUE, ![fd].down = <<>>, ![fd].split = FALSE]
    BY <1>2 DEF Closed
  <2>2. DOMAIN ms = DOMAIN links /\ Len(links) \in Nat /\ DOMAIN links = 1..Len(links)
    BY <2>1 DEF Typed
  <2>3. \A k \in DOMAIN links : ms[k] \in Links /\ ms[k].up = links[k].up
    <3> TAKE k \in DOMAIN links
    <3>1. CASE k = fd
      <4>1. ms[k] = [links[k] EXCEPT !.closed = TRUE, !.down = <<>>, !.split = FALSE]
        BY <2>1, <3>1
      <4>2. links[k] \in Links
        BY FrameTyped
      <4> DEFINE a == [links[k] EXCEPT !.closed = TRUE]
                 b == [a EXCEPT !.down = <<>>]
      <4>3. a \in Links /\ a.up = links[k].up
        BY <4>2, FlagUpdate, ZenonT(60)
      <4>4. ms[k] = [b EXCEPT !.split = FALSE]
        BY <4>1
      <4> HIDE DEF a
      <4>5. b \in Links /\ b.up = a.up
        BY <4>3, DownUpdate, <<>> \in Seq(Nat), ZenonT(60)
      <4> HIDE DEF b
      <4> QED BY <4>3, <4>4, <4>5, FlagUpdate, ZenonT(60)
    <3>2. CASE k # fd
      BY <2>1, <3>2, FrameTyped
    <3> QED BY <3>1, <3>2
  <2>4. ms \in [1..Len(links) -> Links]
    BY <2>1, <2>2, <2>3, ZenonT(60)
  <2>5. ms \in Seq(Links)
    BY <2>2, <2>4
  <2> HIDE DEF ms
  <2>6. NoMore(links, ms)
    BY <2>2, <2>3 DEF NoMore
  <2> QED BY <2>5, <2>6 DEF ms
<1> QED BY <1>1, <1>2

LEMMA NewLinkQuiet ==
    ASSUME Typed
    PROVE  Append(links, NewLink) \in Seq(Links) /\ NoMore(links, Append(links, NewLink))
<1>1. NewLink \in Links /\ NewLink.up = <<>>
  BY DEF NewLink, Links
<1> QED BY <1>1 DEF NoMore, Typed

\* One action each: a quiet step changes no frame under way and accepts none.
LEMMA FailedQuiet ==
    ASSUME IInv, failed PROVE links' \in Seq(Links) /\ NoMore(links, links') /\ fd' \in Nat
BY ClosedQuiet DEF failed, IInv

LEMMA LeaveQuiet ==
    ASSUME IInv, leave PROVE links' \in Seq(Links) /\ NoMore(links, links') /\ fd' \in Nat
BY ClosedQuiet DEF leave, IInv

LEMMA SameQuiet == NoMore(links, links)
BY DEF NoMore

LEMMA StartIInv == ASSUME IInv, start PROVE IInv'
<1>1. Typed' /\ NoMore(links, links')
  BY NewLinkQuiet DEF start, IInv, Typed, server
<1> QED BY <1>1, Quiet DEF start, server, IInv, Typed

LEMMA RunIInv == ASSUME IInv, run PROVE IInv'
<1>1. Typed' /\ NoMore(links, links')
  BY SameQuiet DEF run, IInv, Typed, server
<1> QED BY <1>1, Quiet DEF run, server, IInv, Typed

LEMMA LoopIInv == ASSUME IInv, loop PROVE IInv'
<1>1. links' \in Seq(Links) /\ NoMore(links, links') /\ fd' \in Nat
  BY SameQuiet, LeaveQuiet DEF loop, IInv, Typed
<1>2. UNCHANGED <<inc, seq, tick, taken, replay_seen, misjudged>>
  BY DEF loop, leave, server
<1>3. Typed'
  BY <1>1, <1>2 DEF IInv, Typed
<1> QED BY <1>1, <1>2, <1>3, Quiet DEF IInv, Typed

LEMMA BackoffIInv == ASSUME IInv, reconnect_with_backoff PROVE IInv'
<1>1. links' \in Seq(Links) /\ NoMore(links, links') /\ fd' \in Nat
  <2>1. CASE leave
    BY <2>1, LeaveQuiet
  <2>2. CASE UNCHANGED <<bpc, fd, links>>
    BY <2>2, SameQuiet DEF IInv, Typed
  <2>3. CASE links' = Append(links, NewLink) /\ fd' = Len(links) + 1
    <3>1. fd' \in Nat
      BY <2>3 DEF IInv, Typed
    <3> QED BY <2>3, <3>1, NewLinkQuiet DEF IInv
  <2> QED BY <2>1, <2>2, <2>3 DEF reconnect_with_backoff
<1>2. UNCHANGED <<inc, seq, tick, taken, replay_seen, misjudged>>
  BY DEF reconnect_with_backoff, leave, server
<1>3. Typed'
  BY <1>1, <1>2 DEF IInv, Typed
<1> QED BY <1>1, <1>2, <1>3, Quiet DEF IInv, Typed

\* The steps that touch no connection.
LEMMA StillIInv ==
    ASSUME IInv, sleep \/ stop \/ reap_clock \/ reap_stale \/ pass_time
    PROVE  IInv'
<1>1. UNCHANGED <<inc, seq, fd, links, taken, replay_seen, misjudged>> /\ tick' \in Nat
  BY DEF sleep, stop, reap_clock, reap_stale, pass_time, client, server, IInv, Typed
<1>2. Typed' /\ NoMore(links, links')
  BY <1>1, SameQuiet DEF IInv, Typed
<1> QED BY <1>1, <1>2, Quiet DEF IInv, Typed

\* A connection whose queue of frames is u afterwards, and no other changes.
LEMMA Replaced ==
    ASSUME Typed, NEW l \in DOMAIN links, NEW ms, DOMAIN ms = DOMAIN links,
           ms = [k \in DOMAIN links |-> ms[k]],
           ms[l] \in Links, \A k \in DOMAIN links \ {l} : ms[k] = links[k]
    PROVE  ms \in Seq(Links)
<1>1. Len(links) \in Nat /\ DOMAIN links = 1..Len(links)
  BY DEF Typed
<1>2. \A k \in DOMAIN links : ms[k] \in Links
  BY FrameTyped
<1>3. ms \in [1..Len(links) -> Links]
  BY <1>1, <1>2
<1> QED BY <1>1, <1>3

LEMMA WaitIInv == ASSUME IInv, wait_for_ack PROVE IInv'
<1>1. links' \in Seq(Links) /\ NoMore(links, links') /\ fd' \in Nat
  <2>1. CASE failed
    BY <2>1, FailedQuiet
  <2>2. ASSUME NEW n \in 1..Len(links[fd].down), UNCHANGED fd,
               links' = [links EXCEPT ![fd].down = SubSeq(@, n + 1, Len(@))]
        PROVE  links' \in Seq(Links) /\ NoMore(links, links')
    <3>1. CASE fd \notin DOMAIN links
      <4>1. links' = links
        BY <2>2, <3>1 DEF IInv, Typed
      <4> QED BY <4>1, SameQuiet DEF IInv, Typed
    <3>2. CASE fd \in DOMAIN links
      <4> DEFINE d == links[fd].down
      <4>1. links[fd] \in Links /\ d \in Seq(Nat)
        BY <3>2, FrameTyped DEF IInv, Links
      <4>2. SubSeq(d, n + 1, Len(d)) \in Seq(Nat)
        <5> HIDE DEF d
        <5> QED BY <2>2, <4>1, SMTT(60)
      <4>3. links'[fd] = [links[fd] EXCEPT !.down = SubSeq(d, n + 1, Len(d))]
        BY <2>2, <3>2
      <4>4. links'[fd] \in Links /\ links'[fd].up = links[fd].up
        <5> HIDE DEF d
        <5> QED BY <4>1, <4>2, <4>3, DownUpdate, ZenonT(60)
      <4>5. /\ DOMAIN links' = DOMAIN links /\ links' = [k \in DOMAIN links |-> links'[k]]
            /\ \A k \in DOMAIN links \ {fd} : links'[k] = links[k]
        BY <2>2, ZenonT(60)
      <4>6. links' \in Seq(Links)
        BY <3>2, <4>4, <4>5, Replaced DEF IInv
      <4> QED BY <4>4, <4>5, <4>6 DEF NoMore
    <3> QED BY <3>1, <3>2
  <2> QED BY <2>1, <2>2, ZenonT(60) DEF wait_for_ack, IInv, Typed
<1>2. UNCHANGED <<inc, seq, tick, taken, replay_seen, misjudged>>
  BY DEF wait_for_ack, server
<1>3. Typed'
  BY <1>1, <1>2 DEF IInv, Typed
<1> QED BY <1>1, <1>2, <1>3, Quiet DEF IInv, Typed

LEMMA BreakIInv == ASSUME IInv, NEW l \in DOMAIN links, break_link(l) PROVE IInv'
<1> DEFINE a == [links[l] EXCEPT !.works = FALSE]
           b == [a EXCEPT !.up = <<>>]
<1>1. links' = [links EXCEPT ![l].works = FALSE, ![l].up = <<>>, ![l].down = <<>>]
  BY DEF break_link
<1>2. links'[l] = [b EXCEPT !.down = <<>>]
  BY <1>1
<1>3. a \in Links
  BY FrameTyped, FlagUpdate, ZenonT(60) DEF IInv
<1> HIDE DEF a
<1>4. b \in Links /\ b.up = <<>>
  BY <1>3, UpUpdate, <<>> \in Seq(Frames), ZenonT(60)
<1> HIDE DEF b
<1>5. links'[l] \in Links /\ links'[l].up = <<>>
  BY <1>2, <1>4, DownUpdate, <<>> \in Seq(Nat), ZenonT(60)
<1>6. /\ DOMAIN links' = DOMAIN links /\ links' = [k \in DOMAIN links |-> links'[k]]
      /\ \A k \in DOMAIN links \ {l} : links'[k] = links[k]
  BY <1>1, ZenonT(60)
<1>7. links' \in Seq(Links)
  BY <1>5, <1>6, Replaced DEF IInv
<1>8. NoMore(links, links')
  BY <1>5, <1>6 DEF NoMore
<1>9. UNCHANGED <<inc, seq, fd, tick, taken, replay_seen, misjudged>>
  BY DEF break_link, client, server
<1>10. Typed'
  BY <1>7, <1>9 DEF IInv, Typed
<1> QED BY <1>8, <1>9, <1>10, Quiet DEF IInv, Typed

\* A frame that goes out has the number seq, which no frame under way and none that was
\* accepted has; whether it goes out or is lost, the next one has seq + 1.
LEMMA SendIInv == ASSUME IInv, send_beacon_locked PROVE IInv'
<1>1. UNCHANGED <<inc, tick, taken, replay_seen, misjudged>>
  BY DEF send_beacon_locked, server
<1>2. CASE failed /\ UNCHANGED seq
  <2>1. Typed'
    BY <1>1, <1>2, FailedQuiet DEF IInv, Typed
  <2> QED BY <1>1, <1>2, <2>1, FailedQuiet, Quiet DEF IInv, Typed
<1>3. CASE seq' = seq + 1 /\ UNCHANGED <<fd, links>>
  <2>1. Typed'
    BY <1>1, <1>3 DEF IInv, Typed
  <2> QED BY <1>1, <1>3, <2>1, SameQuiet, Quiet DEF IInv, Typed
<1>4. CASE /\ seq' = seq + 1 /\ UNCHANGED fd /\ fd \in DOMAIN links
           /\ links' = [links EXCEPT ![fd].up = Append(@, Frame)]
  <2> DEFINE u == links[fd].up
  <2>1. Frame \in Frames /\ Frame.inc = inc /\ Frame.seq = seq
    BY DEF Frame, Frames, IInv, Typed
  <2>2. links[fd] \in Links /\ u \in Seq(Frames)
    BY <1>4, FrameTyped DEF IInv
  <2>3. links'[fd] = [links[fd] EXCEPT !.up = Append(u, Frame)]
    BY <1>4
  <2> HIDE DEF u
  <2>4. Append(u, Frame) \in Seq(Frames)
    BY <2>1, <2>2
  <2>5. links'[fd] \in Links /\ links'[fd].up = Append(u, Frame)
    BY <2>2, <2>3, <2>4, UpUpdate, ZenonT(60)
  <2>6. /\ DOMAIN links' = DOMAIN links /\ links' = [k \in DOMAIN links |-> links'[k]]
        /\ \A k \in DOMAIN links \ {fd} : links'[k] = links[k]
    BY <1>4, ZenonT(60)
  <2>7. Typed'
    <3>1. links' \in Seq(Links)
      BY <1>4, <2>5, <2>6, Replaced, ZenonT(60) DEF IInv
    <3> QED BY <1>1, <1>4, <3>1 DEF IInv, Typed
  <2>8. \A l \in DOMAIN links' : \A i \in DOMAIN links'[l].up :
           \/ i \in DOMAIN links[l].up /\ links'[l].up[i] = links[l].up[i]
           \/ l = fd /\ i = Len(u) + 1 /\ links'[l].up[i] = Frame
    BY <2>2, <2>5, <2>6, SMTT(60) DEF u
  <2>9. \A l \in DOMAIN links : \A i \in DOMAIN links[l].up :
           /\ links[l].up[i].inc \in Nat /\ links[l].up[i].seq \in Nat
           /\ ~Same(links[l].up[i], Frame) /\ ~Same(Frame, links[l].up[i])
    <3> TAKE l \in DOMAIN links
    <3> TAKE i \in DOMAIN links[l].up
    <3>1. links[l].up[i].inc \in Nat /\ links[l].up[i].seq \in Nat
      BY FrameTyped DEF IInv
    <3>2. Old(links[l].up[i])
      BY DEF IInv, Unique
    <3> QED BY <2>1, <3>1, <3>2 DEF Old, Same, IInv, Typed
  <2>10. \A t \in taken : t.inc \in Nat /\ t.seq \in Nat /\ Old(t) /\ ~Same(t, Frame)
    <3> TAKE t \in taken
    <3>1. t.inc \in Nat /\ t.seq \in Nat /\ Old(t)
      BY DEF IInv, Typed, Unique
    <3> QED BY <2>1, <3>1 DEF Old, Same, IInv, Typed
  <2>11. (\A t \in taken : Old(t))'
    BY <1>1, <1>4, <2>10 DEF Old, IInv, Typed
  <2>12. (\A l \in DOMAIN links : \A i \in DOMAIN links[l].up : Old(links[l].up[i]))'
    <3>1. \A l \in DOMAIN links : \A i \in DOMAIN links[l].up : Old(links[l].up[i])
      BY DEF IInv, Unique
    <3>2. \A f : f.inc \in Nat /\ f.seq \in Nat /\ (Old(f) \/ Same(f, Frame)) =>
              f.inc <= inc' /\ (f.inc = inc' => f.seq < seq')
      BY <1>1, <1>4, <2>1 DEF Old, Same, IInv, Typed
    <3>3. \A l \in DOMAIN links' : \A i \in DOMAIN links'[l].up :
             LET f == links'[l].up[i]
             IN  f.inc \in Nat /\ f.seq \in Nat /\ (Old(f) \/ Same(f, Frame))
      BY <2>1, <2>6, <2>8, <2>9, <3>1 DEF Same, Frames
    <3> QED BY <3>2, <3>3 DEF Old
  <2>13. (\A l \in DOMAIN links : \A i \in DOMAIN links[l].up : \A t \in taken :
             ~Same(t, links[l].up[i]))'
    BY <1>1, <2>6, <2>8, <2>10, SMTT(60) DEF IInv, Unique, Same
  <2>14. (\A l \in DOMAIN links : \A i \in DOMAIN links[l].up :
            \A k \in DOMAIN links : \A j \in DOMAIN links[k].up :
                Same(links[l].up[i], links[k].up[j]) => l = k /\ i = j)'
    BY <2>6, <2>8, <2>9, SMTT(60) DEF IInv, Unique, Same
  <2>15. Unique'
    BY <1>1, <2>11, <2>12, <2>13, <2>14 DEF IInv, Unique
  <2> QED BY <1>1, <2>7, <2>15 DEF IInv
<1> QED
  <2>1. \/ failed /\ UNCHANGED seq
        \/ /\ seq' = seq + 1 /\ UNCHANGED fd
           /\ UNCHANGED links \/ links' = [links EXCEPT ![fd].up = Append(@, Frame)]
    BY DEF send_beacon_locked, seq_after
  <2>2. links' = [links EXCEPT ![fd].up = Append(@, Frame)] /\ fd \notin DOMAIN links
        => UNCHANGED links
    BY DEF IInv, Typed
  <2> QED BY <1>2, <1>3, <1>4, <2>1, <2>2

\* A refused frame whose number was accepted before is of another process: the frame under
\* way and the accepted one are never the same.
LEMMA ReceiveIInv == ASSUME IInv, NEW l \in DOMAIN links, on_beacon(l) PROVE IInv'
<1> DEFINE u == links[l].up
           m == Head(u)
<1>1. UNCHANGED <<inc, seq, fd, tick>> /\ u # <<>> /\ Answered(l, m)
  BY DEF on_beacon, client
<1>2. links[l] \in Links /\ u \in Seq(Frames) /\ links[l].down \in Seq(Nat)
  BY FrameTyped DEF IInv, Links
<1>3. /\ 1 \in DOMAIN u /\ m = u[1] /\ m \in Frames /\ Tail(u) \in Seq(Frames)
      /\ \A i \in DOMAIN Tail(u) : i + 1 \in DOMAIN u /\ Tail(u)[i] = u[i + 1] /\ i \in Nat /\ i # 0
  <2> HIDE DEF u
  <2> QED BY <1>1, <1>2
<1>4. m.inc \in Nat /\ m.seq \in Nat
  BY <1>3 DEF Frames
<1>5. links'[l] \in Links /\ links'[l].up = Tail(u)
  <2> DEFINE a == [links[l] EXCEPT !.up = Tail(u)]
  <2>1. a \in Links /\ a.up = Tail(u)
    <3> HIDE DEF u
    <3> QED BY <1>2, <1>3, UpUpdate, ZenonT(60)
  <2>2. PICK d \in Seq(Nat) :
           \/ links'[l] = [a EXCEPT !.down = d]
           \/ links'[l] = [[a EXCEPT !.down = d] EXCEPT !.split = TRUE]
    <3>1. CASE links' = [links EXCEPT ![l].up = Tail(@),
                              ![l].down = IF request_ack /\ ~links[l].closed
                                          THEN Append(@, m.seq) ELSE @]
      <4> DEFINE d == IF request_ack /\ ~links[l].closed
                      THEN Append(links[l].down, m.seq) ELSE links[l].down
      <4>1. d \in Seq(Nat)
        <5> HIDE DEF m
        <5> QED BY <1>2, <1>4
      <4>2. links'[l] = [a EXCEPT !.down = d]
        BY <3>1, SMTT(60)
      <4> QED BY <4>1, <4>2, ZenonT(60)
    <3>2. CASE links' = [links EXCEPT ![l].up = Tail(@), ![l].down = @ \o <<m.seq, m.seq>>,
                                 ![l].split = TRUE]
      <4> DEFINE d == links[l].down \o <<m.seq, m.seq>>
      <4>1. d \in Seq(Nat)
        <5> HIDE DEF m
        <5>1. <<m.seq, m.seq>> \in Seq(Nat)
          BY <1>4
        <5> QED BY <1>2, <5>1
      <4>2. links'[l] = [[a EXCEPT !.down = d] EXCEPT !.split = TRUE]
        BY <3>2
      <4> QED BY <4>1, <4>2, ZenonT(60)
    <3> QED BY <1>1, <3>1, <3>2, ZenonT(60) DEF Answered
  <2> HIDE DEF a
  <2> DEFINE b == [a EXCEPT !.down = d]
  <2>3. b \in Links /\ b.up = a.up
    BY <2>1, DownUpdate
  <2>4. links'[l] = b \/ links'[l] = [b EXCEPT !.split = TRUE]
    BY <2>2
  <2> HIDE DEF b, u
  <2> QED BY <2>1, <2>3, <2>4, FlagUpdate, ZenonT(60)
<1>6. /\ DOMAIN links' = DOMAIN links /\ links' = [k \in DOMAIN links |-> links'[k]]
      /\ \A k \in DOMAIN links \ {l} : links'[k] = links[k]
  BY <1>1 DEF Answered
<1>7. links' \in Seq(Links)
  BY <1>5, <1>6, Replaced, ZenonT(60) DEF IInv
<1>8. \/ UNCHANGED <<replay_seen, taken>>
      \/ replay_seen' = replay_seen \cup {m.seq} /\ taken' = taken \cup {[inc |-> m.inc, seq |-> m.seq]}
  BY ZenonT(60) DEF on_beacon, server
<1>9. ~misjudged'
  <2>1. CASE ~replay_would_accept(m.seq) /\ misjudged' = (misjudged \/ ~Reason(m))
    <3>1. CASE m.seq \in replay_seen
      <4>1. PICK t \in taken : t.seq = m.seq
        BY <3>1, ZenonT(60) DEF IInv, Unique
      <4>2. ~Same(t, m)
        BY <1>3 DEF IInv, Unique
      <4> QED BY <2>1, <4>1, <4>2, ZenonT(60) DEF Same, Reason, IInv
    <3>2. CASE m.seq \notin replay_seen
      <4>1. PICK s \in replay_seen : ~(s - m.seq < Window)
        BY <2>1, <3>2 DEF replay_would_accept
      <4>2. PICK t \in taken : t.seq = s
        BY DEF IInv, Unique
      <4> QED BY <2>1, <4>1, <4>2, ZenonT(60) DEF Reason, IInv
    <3> QED BY <3>1, <3>2
  <2>2. CASE UNCHANGED misjudged
    BY <2>2 DEF IInv
  <2> QED BY <2>1, <2>2 DEF on_beacon, server
<1> DEFINE Moved(k, i) == IF k = l THEN i + 1 ELSE i
<1>10. \A k \in DOMAIN links' : \A i \in DOMAIN links'[k].up :
          /\ k \in DOMAIN links /\ Moved(k, i) \in DOMAIN links[k].up
          /\ links'[k].up[i] = links[k].up[Moved(k, i)]
          /\ k = l => Moved(k, i) # 1
  <2> TAKE k \in DOMAIN links'
  <2>1. CASE k = l
    <3> TAKE i \in DOMAIN links'[k].up
    <3>1. i \in DOMAIN Tail(u)
      BY <1>5, <2>1, ZenonT(60)
    <3>2. i + 1 \in DOMAIN u /\ Tail(u)[i] = u[i + 1] /\ i + 1 # 1
      BY <1>3, <3>1
    <3> QED BY <1>5, <2>1, <3>2, ZenonT(60)
  <2>2. CASE k # l
    BY <1>6, <2>2, ZenonT(60)
  <2> QED BY <2>1, <2>2
<1>11. \A k \in DOMAIN links' : \A i \in DOMAIN links'[k].up :
          Old(links'[k].up[i]) /\ ~Same(m, links'[k].up[i]) /\ Old(m)
  <2>1. Old(m)
    BY <1>3 DEF IInv, Unique
  <2> TAKE k \in DOMAIN links'
  <2> TAKE i \in DOMAIN links'[k].up
  <2>2. Old(links[k].up[Moved(k, i)])
    BY <1>10, ZenonT(60) DEF IInv, Unique
  <2>3. ~Same(u[1], links[k].up[Moved(k, i)])
    BY <1>3, <1>10, SMTT(60) DEF IInv, Unique
  <2> QED BY <1>3, <1>10, <2>1, <2>2, <2>3, ZenonT(60)
<1>12. \A t \in taken' : t \in taken \/ (t.inc = m.inc /\ t.seq = m.seq)
  BY <1>8
<1>13. taken' \subseteq [inc : Nat, seq : Nat]
  <2> HIDE DEF m
  <2> QED BY <1>4, <1>8 DEF IInv, Typed
<1>14. Typed'
  BY <1>1, <1>7, <1>13 DEF IInv, Typed
<1>15. (\A s \in replay_seen : \E t \in taken : t.seq = s)'
  <2>1. CASE UNCHANGED <<replay_seen, taken>>
    BY <2>1 DEF IInv, Unique
  <2>2. CASE replay_seen' = replay_seen \cup {m.seq} /\ taken' = taken \cup {[inc |-> m.inc, seq |-> m.seq]}
    <3> DEFINE g == [inc |-> m.inc, seq |-> m.seq]
    <3>1. g.seq = m.seq /\ g \in taken'
      BY <2>2, ZenonT(60)
    <3> HIDE DEF g, m
    <3>2. \A s \in replay_seen : \E t \in taken' : t.seq = s
      BY <2>2, ZenonT(60) DEF IInv, Unique
    <3> QED BY <2>2, <3>1, <3>2
  <2> QED BY <1>8, <2>1, <2>2
<1>16. (\A t \in taken : Old(t))'
  <2>1. Old(m)
    BY <1>3, ZenonT(60) DEF IInv, Unique
  <2> HIDE DEF m
  <2> QED BY <1>1, <1>12, <2>1, ZenonT(60) DEF IInv, Unique, Old
<1>17. (\A k \in DOMAIN links : \A i \in DOMAIN links[k].up : Old(links[k].up[i]))'
  BY <1>1, <1>11 DEF Old
<1>18. (\A k \in DOMAIN links : \A i \in DOMAIN links[k].up : \A t \in taken :
           ~Same(t, links[k].up[i]))'
  <2>1. \A k \in DOMAIN links' : \A i \in DOMAIN links'[k].up : \A t \in taken :
           ~Same(t, links'[k].up[i])
    BY <1>10 DEF IInv, Unique
  <2> HIDE DEF m
  <2> QED BY <1>11, <1>12, <2>1, ZenonT(60) DEF Same
<1>19. (\A k \in DOMAIN links : \A i \in DOMAIN links[k].up :
          \A n \in DOMAIN links : \A j \in DOMAIN links[n].up :
              Same(links[k].up[i], links[n].up[j]) => k = n /\ i = j)'
  <2> SUFFICES ASSUME NEW k \in DOMAIN links', NEW i \in DOMAIN links'[k].up,
                      NEW n \in DOMAIN links', NEW j \in DOMAIN links'[n].up,
                      Same(links'[k].up[i], links'[n].up[j])
               PROVE  k = n /\ i = j
    BY ZenonT(60) DEF Same
  <2>1. Same(links[k].up[Moved(k, i)], links[n].up[Moved(n, j)])
    BY <1>10, ZenonT(60)
  <2>2. k = n /\ Moved(k, i) = Moved(n, j)
    BY <1>10, <2>1, SMTT(60) DEF IInv, Unique
  <2>3. k = l => i \in Nat /\ j \in Nat
    BY <1>3, <1>5, <2>2, ZenonT(60)
  <2> QED BY <2>2, <2>3
<1>20. Unique'
  BY <1>15, <1>16, <1>17, <1>18, <1>19 DEF Unique
<1> QED BY <1>9, <1>14, <1>20 DEF IInv

LEMMA StepIInv == IInv /\ [BNext]_bvars => IInv'
<1> SUFFICES ASSUME IInv, [BNext]_bvars PROVE IInv'
  BY ZenonT(60)
<1>1. CASE UNCHANGED bvars
  BY <1>1 DEF bvars, client, server, IInv, Typed, Unique, Old, Same
<1>2. CASE BNext
  BY <1>2, StartIInv, RunIInv, LoopIInv, BackoffIInv, SendIInv, WaitIInv, StillIInv,
     ReceiveIInv, BreakIInv DEF BNext, step
<1> QED BY <1>1, <1>2

\* For every window and any number of processes, connections and beacons, and whatever
\* breaks when, on_beacon refuses as a replay no frame but one a window old or one whose
\* client has been started anew: send_beacon_locked gives no number twice to frames that
\* may both arrive.
THEOREM NumbersFresh == BSpec => []BeaconsFresh
<1>1. IInv => BeaconsFresh
  BY ZenonT(60) DEF IInv, BeaconsFresh
<1> QED BY InitIInv, StepIInv, <1>1, PTL DEF BSpec

-------------------------------------------------------------------------------
\* A connection on which no acknowledgement is awaited carries nothing, and one on which
\* the beacon n is being awaited carries at most that beacon or its acknowledgement,
\* unless an acknowledgement came in two pieces.
Silent(r) == r.split \/ (r.up = <<>> /\ r.down = <<>>)
Pending(r, n) ==
    \/ Silent(r)
    \/ r.down = <<>> /\ \E f \in Frames : r.up = <<f>> /\ f.seq = n
    \/ r.up = <<>> /\ r.down = <<n>>

AckInv ==
    /\ fd \in 0..Len(links)
    /\ bpc \in {"ready", "send", "ack", "sleep"} => fd # 0
    /\ bpc = "ack" => request_ack
    /\ request_ack /\ fd # 0 =>
          /\ bpc = "ack" => Pending(links[fd], seq - 1)
          /\ bpc # "ack" => Silent(links[fd])
    /\ ~false_ack

LEMMA SilentPending == ASSUME NEW r, NEW n, Silent(r) PROVE Pending(r, n)
BY ZenonT(60) DEF Pending

\* Nothing is open afterwards.
LEMMA NoneOpen ==
    ASSUME IInv', AckInv, fd' = 0, bpc' \notin {"ready", "send", "ack", "sleep"}, UNCHANGED false_ack
    PROVE  AckInv'
<1>1. Len(links') \in Nat
  BY SMTT(60) DEF IInv, Typed
<1> QED BY <1>1 DEF AckInv

\* A new connection is silent.
LEMMA NewOpen ==
    ASSUME IInv, AckInv, links' = Append(links, NewLink), fd' = Len(links) + 1, bpc' # "ack",
           UNCHANGED false_ack
    PROVE  AckInv'
<1>1. links \in Seq(Links) /\ NewLink \in Links
  BY DEF IInv, Typed, NewLink, Links
<1>2. Len(links') = Len(links) + 1 /\ links'[fd'] = NewLink /\ Len(links) \in Nat
  BY <1>1
<1>3. Silent(NewLink)
  BY SMTT(60) DEF Silent, NewLink
<1> QED BY <1>2, <1>3 DEF AckInv

\* Nothing happens on the connection in use.
LEMMA SameOpen ==
    ASSUME AckInv, UNCHANGED <<fd, seq, request_ack, false_ack>>, Len(links') = Len(links),
           fd # 0 => links'[fd] = links[fd], bpc' = "ack" <=> bpc = "ack",
           bpc' \in {"ready", "send", "ack", "sleep"} => fd # 0
    PROVE  AckInv'
BY DEF AckInv

LEMMA FailedAck == ASSUME IInv', AckInv, failed, UNCHANGED false_ack PROVE AckInv'
BY NoneOpen DEF failed
LEMMA LeaveAck == ASSUME IInv', AckInv, leave, UNCHANGED false_ack PROVE AckInv'
BY NoneOpen DEF leave

LEMMA StartAck == ASSUME IInv, AckInv, start PROVE AckInv'
BY NewOpen DEF start

LEMMA LoopAck == ASSUME IInv, IInv', AckInv, loop PROVE AckInv'
<1>1. CASE leave
  BY <1>1, LeaveAck DEF loop
<1>2. CASE /\ bpc' = IF fd = 0 THEN "backoff" ELSE "send"
           /\ UNCHANGED <<fd, seq, request_ack, links>>
  BY <1>2, SameOpen DEF loop
<1> QED BY <1>1, <1>2 DEF loop

LEMMA BackoffAck == ASSUME IInv, IInv', AckInv, reconnect_with_backoff PROVE AckInv'
<1>1. CASE leave
  BY <1>1, LeaveAck DEF reconnect_with_backoff
<1>2. CASE UNCHANGED <<bpc, fd, links, seq, request_ack>>
  BY <1>2, SameOpen DEF reconnect_with_backoff
<1>3. CASE links' = Append(links, NewLink) /\ fd' = Len(links) + 1 /\ bpc' = "send"
  BY <1>3, NewOpen DEF reconnect_with_backoff
<1> QED BY <1>1, <1>2, <1>3 DEF reconnect_with_backoff

LEMMA QuietAck ==
    ASSUME AckInv, run \/ sleep \/ stop \/ reap_clock \/ reap_stale \/ pass_time
    PROVE  AckInv'
<1>1. /\ UNCHANGED <<fd, seq, request_ack, false_ack, links>>
      /\ bpc' = "ack" <=> bpc = "ack"
      /\ bpc' \in {"ready", "send", "ack", "sleep"} => fd # 0
  BY DEF run, sleep, stop, reap_clock, reap_stale, pass_time, client, AckInv
<1> QED BY <1>1, SameOpen, ZenonT(60)

\* The connection in use carries the beacon just sent, or has lost it.
LEMMA SendAck == ASSUME IInv, IInv', AckInv, send_beacon_locked PROVE AckInv'
<1>1. CASE failed
  BY <1>1, FailedAck DEF send_beacon_locked
<1>2. CASE /\ seq' = seq + 1 /\ bpc' = IF request_ack THEN "ack" ELSE "sleep"
           /\ links' = IF links[fd].works THEN [links EXCEPT ![fd].up = Append(@, Frame)] ELSE links
           /\ UNCHANGED fd
  <2>1. /\ fd \in DOMAIN links /\ fd # 0 /\ (request_ack => Silent(links[fd]))
        /\ Len(links) \in Nat /\ DOMAIN links = 1..Len(links) /\ seq \in Nat
    BY SMTT(60) DEF AckInv, send_beacon_locked, IInv, Typed
  <2>2. links[fd] \in Links
    BY <2>1, FrameTyped DEF IInv
  <2>3. UNCHANGED <<request_ack, false_ack>>
    BY DEF send_beacon_locked
  <2>4. links' \in Seq(Links) /\ DOMAIN links' = DOMAIN links /\ Len(links') = Len(links)
    BY <1>2, <2>1 DEF IInv, Typed
  <2>5. ASSUME request_ack PROVE Pending(links'[fd], seq)
    <3>1. CASE links' = links
      BY <2>1, <2>5, <3>1, SilentPending, ZenonT(60)
    <3>2. CASE links' = [links EXCEPT ![fd].up = Append(@, Frame)]
      <4>1. PICK r \in Links : r = links[fd]
        BY <2>2
      <4>2. links'[fd] = [r EXCEPT !.up = Append(r.up, Frame)]
        BY <2>1, <3>2, <4>1
      <4>3. Frame \in Frames /\ Append(r.up, Frame) \in Seq(Frames) /\ Frame.seq = seq
        BY DEF Links, Frame, Frames, IInv, Typed
      <4>4. links'[fd].up = Append(r.up, Frame) /\ links'[fd].down = r.down
            /\ links'[fd].split = r.split
        BY <4>1, <4>2, ZenonT(60) DEF Links
      <4>5. CASE r.split
        BY <4>4, <4>5 DEF Silent, Pending
      <4>6. CASE r.up = <<>> /\ r.down = <<>>
        <5>1. links'[fd].up = <<Frame>> /\ links'[fd].down = <<>>
          BY <4>4, <4>6
        <5> QED BY <4>3, <5>1 DEF Pending
      <4> QED BY <2>1, <2>5, <4>1, <4>5, <4>6 DEF Silent
    <3> QED BY <1>2, <3>1, <3>2
  <2> QED BY <1>2, <2>1, <2>3, <2>4, <2>5 DEF AckInv
<1> QED BY <1>1, <1>2 DEF send_beacon_locked, seq_after

\* What is read is the acknowledgement of the last beacon, and nothing is left.
LEMMA WaitAck == ASSUME IInv, IInv', AckInv, wait_for_ack PROVE AckInv'
<1>1. CASE failed /\ UNCHANGED false_ack
  BY <1>1, FailedAck
<1>2. ASSUME NEW n \in 1..Len(links[fd].down),
             links' = [links EXCEPT ![fd].down = SubSeq(@, n + 1, Len(@))],
             bpc' = "sleep", UNCHANGED fd,
             false_ack' = \/ false_ack
                          \/ /\ ~links[fd].split
                             /\ \A i \in 1..n : links[fd].down[i] # seq - 1
      PROVE  AckInv'
  <2>1. /\ fd \in DOMAIN links /\ fd # 0 /\ Pending(links[fd], seq - 1) /\ ~false_ack
        /\ Len(links) \in Nat /\ DOMAIN links = 1..Len(links)
    BY DEF AckInv, wait_for_ack, IInv, Typed
  <2>2. links[fd] \in Links
    BY <2>1, FrameTyped DEF IInv
  <2>3. UNCHANGED <<seq, request_ack>>
    BY DEF wait_for_ack
  <2>4. DOMAIN links' = DOMAIN links /\ Len(links') = Len(links)
    BY <1>2, <2>1 DEF IInv, Typed
  <2>5. PICK r \in Links : r = links[fd]
    BY <2>2
  <2>6. links'[fd] = [r EXCEPT !.down = SubSeq(r.down, n + 1, Len(r.down))]
    BY <1>2, <2>1, <2>5
  <2>7. /\ links'[fd].down = SubSeq(r.down, n + 1, Len(r.down)) /\ links'[fd].up = r.up
        /\ links'[fd].split = r.split
    BY <2>6, ZenonT(60) DEF Links
  <2>8. r.up \in Seq(Frames) /\ r.down \in Seq(Nat) /\ n \in 1..Len(r.down)
    BY <1>2, <2>5 DEF Links
  <2>9. CASE r.split
    <3>1. Silent(links'[fd]) /\ ~false_ack'
      BY <1>2, <2>1, <2>5, <2>7, <2>9 DEF Silent
    <3> QED BY <1>2, <2>1, <2>4, <3>1 DEF AckInv
  <2>10. CASE ~r.split
    <3>1. r.down # <<>>
      BY <2>8
    <3>2. r.up = <<>> /\ r.down = <<seq - 1>>
      BY <2>1, <2>5, <2>10, <3>1 DEF Pending, Silent
    <3>3. n = 1 /\ r.down[1] = seq - 1 /\ SubSeq(r.down, n + 1, Len(r.down)) = <<>>
      BY <2>8, <3>2
    <3>4. Silent(links'[fd])
      BY <2>7, <3>2, <3>3 DEF Silent
    <3>5. ~false_ack'
      BY <1>2, <2>1, <2>5, <3>3, SMTT(60)
    <3> QED BY <1>2, <2>1, <2>4, <3>4, <3>5 DEF AckInv
  <2> QED BY <2>9, <2>10
<1> QED BY <1>1, <1>2, ZenonT(60) DEF wait_for_ack

\* A frame that arrives leaves its acknowledgement, or none; an acknowledgement in two
\* pieces is remembered.
LEMMA AnsweredLink ==
    ASSUME Typed, NEW l \in DOMAIN links, links[l].up # <<>>, NEW m, m = Head(links[l].up),
           Answered(l, m)
    PROVE  /\ Len(links') = Len(links) /\ \A k \in DOMAIN links \ {l} : links'[k] = links[k]
           /\ \/ links'[l].split
              \/ /\ links'[l].split = links[l].split /\ links'[l].up = Tail(links[l].up)
                 /\ links'[l].down \in {links[l].down, Append(links[l].down, m.seq)}
<1>1. PICK r \in Links : r = links[l]
  BY FrameTyped
<1>2. Len(links) \in Nat /\ DOMAIN links = 1..Len(links)
  BY SMTT(60) DEF Typed
<1>3. CASE links' = [links EXCEPT ![l].up = Tail(@),
                                  ![l].down = IF request_ack /\ ~links[l].closed
                                              THEN Append(@, m.seq) ELSE @]
  <2>1. DOMAIN links' = DOMAIN links /\ \A k \in DOMAIN links \ {l} : links'[k] = links[k]
    BY <1>3
  <2>2. links'[l] = [r EXCEPT !.up = Tail(r.up), !.down = IF request_ack /\ ~r.closed
                                                          THEN Append(r.down, m.seq) ELSE r.down]
    BY <1>1, <1>3
  <2>3. /\ links'[l].split = r.split /\ links'[l].up = Tail(r.up)
        /\ links'[l].down \in {r.down, Append(r.down, m.seq)}
    BY <2>2 DEF Links
  <2>4. Len(links') = Len(links)
    BY <1>2, <1>3, SMTT(60) DEF Typed
  <2> QED BY <1>1, <2>1, <2>3, <2>4
<1>4. CASE links' = [links EXCEPT ![l].up = Tail(@), ![l].down = @ \o <<m.seq, m.seq>>,
                                  ![l].split = TRUE]
  <2>1. DOMAIN links' = DOMAIN links /\ \A k \in DOMAIN links \ {l} : links'[k] = links[k]
    BY <1>4, SMTT(60)
  <2>2. links'[l] = [r EXCEPT !.up = Tail(r.up), !.down = r.down \o <<m.seq, m.seq>>, !.split = TRUE]
    BY <1>1, <1>4
  <2>3. links'[l].split
    BY <2>2, ZenonT(60) DEF Links
  <2>4. Len(links') = Len(links)
    BY <1>2, <1>4 DEF Typed
  <2> QED BY <2>1, <2>3, <2>4, ZenonT(60)
<1> QED BY <1>3, <1>4, ZenonT(60) DEF Answered

LEMMA ReceiveAck ==
    ASSUME IInv, IInv', AckInv, NEW l \in DOMAIN links, on_beacon(l)
    PROVE  AckInv'
<1>1. PICK m : m = Head(links[l].up)
  BY ZenonT(60)
<1>2. links[l].up # <<>> /\ Answered(l, m) /\ UNCHANGED <<client, false_ack>>
  BY <1>1, ZenonT(60) DEF on_beacon
<1>3. /\ Len(links') = Len(links) /\ \A k \in DOMAIN links \ {l} : links'[k] = links[k]
      /\ \/ links'[l].split
         \/ /\ links'[l].split = links[l].split /\ links'[l].up = Tail(links[l].up)
            /\ links'[l].down \in {links[l].down, Append(links[l].down, m.seq)}
  BY <1>1, <1>2, AnsweredLink, SMTT(60) DEF IInv
<1>4. UNCHANGED <<fd, seq, request_ack, false_ack, bpc>>
  BY <1>2 DEF client
<1>5. fd # 0 => fd \in DOMAIN links
  BY SMTT(60) DEF AckInv, IInv, Typed
<1>6. CASE fd # l
  <2>1. fd # 0 => links'[fd] = links[fd]
    BY <1>3, <1>5, <1>6, ZenonT(60)
  <2> QED BY <1>3, <1>4, <2>1, SameOpen, ZenonT(60) DEF AckInv
<1>7. CASE fd = l
  <2>1. CASE links'[l].split
    <3>1. Silent(links'[fd]) /\ Pending(links'[fd], seq - 1)
      BY <1>7, <2>1, ZenonT(60) DEF Silent, Pending
    <3> QED BY <1>3, <1>4, <3>1, ZenonT(60) DEF AckInv
  <2>2. CASE /\ ~links'[l].split /\ links'[l].split = links[l].split
             /\ links'[l].up = Tail(links[l].up)
             /\ links'[l].down \in {links[l].down, Append(links[l].down, m.seq)}
    <3>1. ~request_ack \/ fd = 0 \/ bpc = "ack"
      BY <1>2, <1>7, <2>2, ZenonT(60) DEF AckInv, Silent
    <3>2. ASSUME request_ack, fd # 0, bpc = "ack" PROVE Pending(links'[fd], seq - 1)
      <4>1. Pending(links[l], seq - 1) /\ ~links[l].split
        BY <1>7, <2>2, <3>2, ZenonT(60) DEF AckInv
      <4>2. PICK f \in Frames : links[l].up = <<f>> /\ f.seq = seq - 1
        BY <1>2, <4>1, ZenonT(60) DEF Pending, Silent
      <4>3. links[l].down = <<>>
        BY <1>2, <4>1 DEF Pending, Silent
      <4>4. m = f /\ Tail(links[l].up) = <<>> /\ Append(links[l].down, m.seq) = <<seq - 1>>
        BY <1>1, <4>2, <4>3
      <4> QED BY <1>7, <2>2, <4>3, <4>4, ZenonT(60) DEF Pending, Silent
    <3> QED BY <1>3, <1>4, <3>1, <3>2, ZenonT(60) DEF AckInv
  <2> QED BY <1>3, <2>1, <2>2, ZenonT(60)
<1> QED BY <1>6, <1>7

LEMMA BreakAck ==
    ASSUME IInv, IInv', AckInv, NEW l \in DOMAIN links, break_link(l)
    PROVE  AckInv'
<1>1. PICK r \in Links : r = links[l]
  BY FrameTyped DEF IInv
<1>2. links' = [links EXCEPT ![l].works = FALSE, ![l].up = <<>>, ![l].down = <<>>]
  BY DEF break_link
<1>3. /\ DOMAIN links' = DOMAIN links /\ Len(links') = Len(links)
      /\ \A k \in DOMAIN links \ {l} : links'[k] = links[k]
  BY <1>2, SMTT(60) DEF IInv, Typed
<1>4. links'[l] = [r EXCEPT !.works = FALSE, !.up = <<>>, !.down = <<>>]
  BY <1>1, <1>2
<1>5. links'[l].up = <<>> /\ links'[l].down = <<>>
  BY <1>4 DEF Links
<1>6. UNCHANGED <<fd, seq, request_ack, false_ack, bpc>>
  BY DEF break_link, client
<1>7. fd # 0 => fd \in DOMAIN links
  BY SMTT(60) DEF AckInv, IInv, Typed
<1>8. CASE fd # l
  <2>1. fd # 0 => links'[fd] = links[fd]
    BY <1>3, <1>7, <1>8, ZenonT(60)
  <2> QED BY <1>3, <1>6, <2>1, SameOpen, ZenonT(60) DEF AckInv
<1>9. CASE fd = l
  <2>1. Silent(links'[fd])
    BY <1>5, <1>9 DEF Silent
  <2>2. Pending(links'[fd], seq - 1)
    BY <2>1, SilentPending
  <2> QED BY <1>3, <1>6, <2>1, <2>2 DEF AckInv
<1> QED BY <1>8, <1>9, ZenonT(60)

LEMMA StepAck == IInv /\ IInv' /\ AckInv /\ [BNext]_bvars => AckInv'
<1> SUFFICES ASSUME IInv, IInv', AckInv, [BNext]_bvars PROVE AckInv'
  BY ZenonT(60)
<1>1. CASE UNCHANGED bvars
  <2>1. UNCHANGED <<fd, seq, request_ack, false_ack, bpc, links>>
    BY <1>1 DEF bvars, client
  <2> QED BY <2>1, SameOpen DEF AckInv
<1>2. ASSUME NEW l \in DOMAIN links, on_beacon(l) \/ break_link(l) PROVE AckInv'
  BY <1>2, ReceiveAck, BreakAck
<1>3. CASE step
  BY <1>3, QuietAck, LoopAck, BackoffAck, SendAck, WaitAck DEF step
<1>4. CASE start \/ stop \/ reap_clock \/ reap_stale \/ pass_time
  BY <1>4, StartAck, QuietAck
<1> QED BY <1>1, <1>2, <1>3, <1>4 DEF BNext

\* For every window, time limit and number of processes, beacons and connections, an
\* acknowledgement is counted for a beacon that was not answered only on a connection on
\* which one came in two pieces (beacon_client.cpp send_one, wait_for_ack).
THEOREM AcksHonest == BSpec => []AckHonest
<1>1. BInit => AckInv
  BY DEF BInit, AckInv
<1>2. AckInv => AckHonest
  BY DEF AckInv, AckHonest
<1> QED BY <1>1, <1>2, InitIInv, StepIInv, StepAck, PTL DEF BSpec
===============================================================================
