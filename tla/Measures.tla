------------------------------- MODULE Measures -------------------------------
(***************************************************************************)
(* What the process measures of itself: time series of samples and         *)
(* metrics.                                                                *)
(***************************************************************************)
EXTENDS Integers, Sequences, FiniteSets, SequencesExt

(***************************************************************************)
(* TimeSeries (timeseries.cpp): the ring of samples and the statistics     *)
(* over them.  Values are integers; percentiles are in hundredths, which   *)
(* the interpolation makes exact.                                          *)
(***************************************************************************)
CONSTANTS SCap, Values, MaxPush, MaxClock

VARIABLES ring, head, used,
          clock, pushed    \* history: the samples since the last clear()
svars == <<ring, head, used, clock, pushed>>

SInit ==
    /\ ring = [i \in 0..(SCap - 1) |-> [ts |-> 0, value |-> 0]]
    /\ head = 0 /\ used = 0 /\ clock = 0 /\ pushed = <<>>

push(v) ==
    /\ Len(pushed) < MaxPush
    /\ ring' = [ring EXCEPT ![head] = [ts |-> clock, value |-> v]]
    /\ head' = (head + 1) % SCap
    /\ used' = IF used < SCap THEN used + 1 ELSE used
    /\ pushed' = Append(pushed, [ts |-> clock, value |-> v])
    /\ UNCHANGED clock
\* The variant keeps the write position.
clear_used ==
    /\ used' = 0 /\ pushed' = <<>>
    /\ UNCHANGED <<ring, head, clock>>
clear ==
    /\ head' = 0 /\ used' = 0 /\ pushed' = <<>>
    /\ UNCHANGED <<ring, clock>>
tick ==
    /\ clock < MaxClock
    /\ clock' = clock + 1
    /\ UNCHANGED <<ring, head, used, pushed>>

SNext == (\E v \in Values : push(v)) \/ clear \/ tick

samples ==
    IF used < SCap THEN [i \in 1..used |-> ring[i - 1]]
    ELSE [i \in 1..SCap |-> ring[(head + i - 1) % SCap]]

\* Linear interpolation at q * (n - 1) of the sorted values, times 100.
pct(sorted, q) ==
    LET idx == q * (Len(sorted) - 1)
        lo == idx \div 100
        hi == IF lo + 1 < Len(sorted) THEN lo + 1 ELSE Len(sorted) - 1
        frac == idx % 100
    IN  sorted[lo + 1] * (100 - frac) + sorted[hi + 1] * frac
compute_stats(values) ==
    LET sorted == SortSeq(values, LAMBDA a, b : a < b)
    IN  [min |-> sorted[1], max |-> sorted[Len(sorted)],
         sum |-> FoldSeq(LAMBDA v, acc : acc + v, 0, values),
         p50 |-> pct(sorted, 50), p95 |-> pct(sorted, 95), p99 |-> pct(sorted, 99)]
SampleValues(sm) == [i \in 1..Len(sm) |-> sm[i].value]
\* <<>> is nullopt.
stats == IF samples = <<>> THEN <<>> ELSE <<compute_stats(SampleValues(samples))>>
\* now_ms() is read twice: time may pass between the two.
stats_window(window, first, second) ==
    LET cutoff == IF first > window THEN second - window ELSE 0
        kept == SelectSeq(samples, LAMBDA s : s.ts >= cutoff)
    IN  IF kept = <<>> THEN <<>> ELSE <<compute_stats(SampleValues(kept))>>

-------------------------------------------------------------------------------
\* samples() yields the newest samples since clear(), oldest first, and the statistics
\* are in order, bounded by them, and over a window cover exactly its samples, also
\* when the clock moves on between the two reads of stats_window (TimeSeries).
SeriesExact ==
    LET n == Len(pushed)
        recent == SubSeq(pushed, IF n > SCap THEN n - SCap + 1 ELSE 1, n)
        Ordered(s) == /\ 100 * s.min <= s.p50 /\ s.p50 <= s.p95 /\ s.p95 <= s.p99
                      /\ s.p99 <= 100 * s.max
        Covers(s, kept) ==
            /\ Len(kept) * s.min <= s.sum /\ s.sum <= Len(kept) * s.max
            /\ \A v \in {s.min, s.max} : \E i \in 1..Len(kept) : kept[i].value = v
            /\ \A i \in 1..Len(kept) : kept[i].value \in s.min..s.max
    IN  /\ samples = recent
        /\ \A i \in 1..Len(stats) : Ordered(stats[i]) /\ Covers(stats[i], recent)
        /\ \A w \in 0..MaxClock, d \in 0..1 :
               LET since == IF clock > w THEN clock + d - w ELSE 0
                   kept == SelectSeq(recent, LAMBDA s : s.ts >= since)
                   got == stats_window(w, clock, clock + d)
               IN  /\ (got = <<>>) <=> (kept = <<>>)
                   /\ \A i \in 1..Len(got) : Ordered(got[i]) /\ Covers(got[i], kept)
-------------------------------------------------------------------------------
(***************************************************************************)
(* Counter, Gauge and MetricsRegistry (metrics_registry.hpp, .cpp): one    *)
(* counter and one gauge of the same name, fetched and updated by several  *)
(* threads.  Gauge::inc and dec read the value and then store another.     *)
(***************************************************************************)
CONSTANTS Threads, MaxUpdates

VARIABLES series,      \* the parts of the series that exist
          counter, gauge,
          reading,     \* per thread: value read by an inc or dec that has not stored
          incs, net, overlapped, updates  \* history: what was asked for, and the
                       \* updates during which another thread was between its two steps
mvars == <<series, counter, gauge, reading, incs, net, overlapped, updates>>

NoRead == [busy |-> FALSE, seen |-> 0, by |-> 0]
MInit ==
    /\ series = {} /\ counter = 0 /\ gauge = 0
    /\ reading = [t \in Threads |-> NoRead]
    /\ incs = 0 /\ net = 0 /\ overlapped = 0 /\ updates = 0

\* Under the registry's lock: a series, or its missing half, is created at zero and
\* never replaced.  The variant makes a new one each time.
Created_anew(part) == TRUE
Created(part) == part \notin series
fetch(part) ==
    /\ series' = series \cup {part}
    /\ counter' = IF part = "counter" /\ Created(part) THEN 0 ELSE counter
    /\ gauge' = IF part = "gauge" /\ Created(part) THEN 0 ELSE gauge
    /\ UNCHANGED <<reading, incs, net, overlapped, updates>>

counter_inc ==
    /\ "counter" \in series /\ updates < MaxUpdates
    /\ counter' = counter + 1
    /\ incs' = incs + 1
    /\ updates' = updates + 1
    /\ UNCHANGED <<series, gauge, reading, net, overlapped>>

gauge_read(t, by) ==
    /\ "gauge" \in series /\ updates < MaxUpdates /\ ~reading[t].busy
    /\ reading' = [reading EXCEPT ![t] = [busy |-> TRUE, seen |-> gauge, by |-> by]]
    /\ updates' = updates + 1
    /\ UNCHANGED <<series, counter, gauge, incs, net, overlapped>>
gauge_store(t) ==
    /\ reading[t].busy
    /\ gauge' = reading[t].seen + reading[t].by
    /\ reading' = [reading EXCEPT ![t] = NoRead]
    /\ net' = net + reading[t].by
    /\ overlapped' = IF \E u \in Threads \ {t} : reading[u].busy
                     THEN overlapped + 1 ELSE overlapped
    /\ UNCHANGED <<series, counter, incs, updates>>

MNext ==
    \/ \E part \in {"counter", "gauge"} : fetch(part)
    \/ counter_inc
    \/ \E t \in Threads : (\E by \in {-1, 1} : gauge_read(t, by)) \/ gauge_store(t)

-------------------------------------------------------------------------------
\* A counter shows every increment.  A gauge is off by at most the updates that
\* overlapped one of another thread, so that one with a single writer at a time is
\* exact, and fetching a metric again never resets it (Counter::inc, Gauge::inc,
\* Gauge::dec, MetricsRegistry::counter, gauge).
DriftBounded ==
    /\ counter = incs
    /\ gauge - net <= overlapped /\ net - gauge <= overlapped
===============================================================================
