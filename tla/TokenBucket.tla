------------------------------ MODULE TokenBucket -----------------------------
(***************************************************************************)
(* sl_token_bucket.c: the byte bucket that paces a file transfer.  Time is *)
(* what has passed since the last refill, in units of which Second make a  *)
(* second, counted up to MaxIdle; products wrap at WordSize as uint64_t.   *)
(***************************************************************************)
EXTENDS Integers, FiniteSetsExt

CONSTANTS Second, MaxIdle, WordSize

\* started: last_refill_us is not 0.
Bucket(capacity, rate) ==
    [capacity |-> capacity, rate |-> rate, tokens |-> capacity,
     since |-> 0, started |-> FALSE]

\* A unit of time passes.
Passed(tb) ==
    IF tb.started THEN [tb EXCEPT !.since = Min({@ + 1, MaxIdle})] ELSE tb

Earned(tb) == ((tb.rate * tb.since) % WordSize) \div Second

\* The variant keeps the time of the last refill.
refill_again(tb) ==
    IF ~tb.started THEN [tb EXCEPT !.started = TRUE]
    ELSE [tb EXCEPT !.tokens = Min({@ + Earned(tb), tb.capacity})]

\* The first call only starts the clock; a refill of nothing keeps it running,
\* any other drops the remainder of the division.
refill(tb) ==
    IF ~tb.started THEN [tb EXCEPT !.started = TRUE]
    ELSE IF Earned(tb) = 0 THEN tb
    ELSE [tb EXCEPT !.tokens = Min({(@ + Earned(tb)) % WordSize, tb.capacity}),
                    !.since = 0]

CanTake(tb, bytes) == refill(tb).tokens >= bytes
try_take(tb, bytes) ==
    IF CanTake(tb, bytes) THEN [refill(tb) EXCEPT !.tokens = @ - bytes] ELSE refill(tb)

\* In units of time; the caller sleeps that long and tries again.
wait(tb, bytes) ==
    LET deficit == bytes - refill(tb).tokens
    IN  IF tb.rate = 0 \/ deficit <= 0 THEN 0
        ELSE (deficit * Second + tb.rate - 1) \div tb.rate

\* set_rate settles at the old rate first.
set_rate(tb, rate) == [refill(tb) EXCEPT !.rate = rate]
===============================================================================
