------------------------------ MODULE Admission -------------------------------
(***************************************************************************)
(* The limits a server puts on its peers: slots for connections            *)
(* (sl_dos_guard.c), attempts (sl_lockout.c) and rates (rate_limiter.hpp,  *)
(* sl_token_bucket.c).                                                     *)
(***************************************************************************)
EXTENDS TokenBucket, Naturals

(***************************************************************************)
(* sl_dos_guard.c: slots counted per address and in all, and the           *)
(* connections of its caller, which admits each, promotes it when its      *)
(* handshake is over and releases it when it closes.  The guard knows      *)
(* addresses only, so a promotion or release is of some connection of the  *)
(* address.  The table of addresses is a function; allocation failure      *)
(* refuses the connection.                                                 *)
(***************************************************************************)
CONSTANTS Ips, MaxPerIp, MaxGlobal, Timeout, MaxAdmits, MaxNow

ASSUME GuardAssumption ==
    /\ MaxPerIp \in Nat \ {0} /\ MaxGlobal \in Nat \ {0} /\ Timeout \in Nat \ {0}
    /\ MaxAdmits \in Nat /\ MaxNow \in Nat

VARIABLES half_open, established, oldest_half_open, global_half_open, global_established, now,
          \* history: the connections there really are, the slots swept, admissions
          shaking, open, reaped, admits

guard == <<half_open, established, oldest_half_open, global_half_open, global_established>>
dvars == <<guard, now, shaking, open, reaped, admits>>

Zero == [ip \in Ips |-> 0]
DInit ==
    /\ half_open = Zero /\ established = Zero /\ oldest_half_open = Zero
    /\ global_half_open = 0 /\ global_established = 0 /\ now = 0
    /\ shaking = Zero /\ open = Zero /\ reaped = Zero /\ admits = 0

per_ip(ip) == half_open[ip] + established[ip]
global_inflight == global_half_open + global_established

Admits(ip) == global_inflight < MaxGlobal /\ per_ip(ip) < MaxPerIp

admit(ip) ==
    /\ Admits(ip) /\ admits < MaxAdmits
    /\ oldest_half_open' = [oldest_half_open EXCEPT ![ip] = IF half_open[ip] = 0 THEN now ELSE @]
    /\ half_open' = [half_open EXCEPT ![ip] = @ + 1]
    /\ global_half_open' = global_half_open + 1
    /\ shaking' = [shaking EXCEPT ![ip] = @ + 1] /\ admits' = admits + 1
    /\ UNCHANGED <<established, global_established, now, open, reaped>>

\* A handshake completes: nothing to promote once its slot was swept.
promote(ip) ==
    /\ shaking[ip] > 0
    /\ shaking' = [shaking EXCEPT ![ip] = @ - 1] /\ open' = [open EXCEPT ![ip] = @ + 1]
    /\ IF half_open[ip] = 0 THEN UNCHANGED guard
       ELSE /\ half_open' = [half_open EXCEPT ![ip] = @ - 1]
            /\ established' = [established EXCEPT ![ip] = @ + 1]
            /\ global_half_open' = global_half_open - 1
            /\ global_established' = global_established + 1
            /\ UNCHANGED oldest_half_open
    /\ UNCHANGED <<now, reaped, admits>>

\* The variant gives nothing back while the handshake runs.
release_slot_open(ip) ==
    IF established[ip] > 0
    THEN /\ established' = [established EXCEPT ![ip] = @ - 1]
         /\ global_established' = global_established - 1
         /\ UNCHANGED <<half_open, global_half_open, oldest_half_open>>
    ELSE UNCHANGED guard

\* An established slot goes first, whichever kind of connection closed.
release_slot(ip) ==
    IF established[ip] > 0
    THEN /\ established' = [established EXCEPT ![ip] = @ - 1]
         /\ global_established' = global_established - 1
         /\ UNCHANGED <<half_open, global_half_open, oldest_half_open>>
    ELSE IF half_open[ip] > 0
    THEN /\ half_open' = [half_open EXCEPT ![ip] = @ - 1]
         /\ global_half_open' = global_half_open - 1
         /\ UNCHANGED <<established, global_established, oldest_half_open>>
    ELSE UNCHANGED guard

release(ip) ==
    /\ \/ shaking[ip] > 0 /\ shaking' = [shaking EXCEPT ![ip] = @ - 1] /\ UNCHANGED open
       \/ open[ip] > 0 /\ open' = [open EXCEPT ![ip] = @ - 1] /\ UNCHANGED shaking
    /\ release_slot(ip)
    /\ UNCHANGED <<now, reaped, admits>>

Stale(ip) == half_open[ip] > 0 /\ now - oldest_half_open[ip] > Timeout
Swept(ip) == IF Stale(ip) THEN half_open[ip] ELSE 0

\* All half-open slots of an address go when its oldest is stale.
sweep ==
    /\ \E ip \in Ips : Stale(ip)
    /\ half_open' = [ip \in Ips |-> half_open[ip] - Swept(ip)]
    /\ global_half_open' = Max({0, global_half_open - MapThenSumSet(Swept, Ips)})
    /\ reaped' = [ip \in Ips |-> reaped[ip] + Swept(ip)]
    /\ UNCHANGED <<established, oldest_half_open, global_established, now, shaking, open, admits>>

tick == now < MaxNow /\ now' = now + 1 /\ UNCHANGED <<guard, shaking, open, reaped, admits>>

DNext == (\E ip \in Ips : admit(ip) \/ promote(ip) \/ release(ip)) \/ sweep \/ tick
-------------------------------------------------------------------------------
live(ip) == shaking[ip] + open[ip]

\* No slot is lost or kept: an address never has more slots taken than connections,
\* so an address whose connections closed can connect again, and never more
\* connections than slots and swept slots together, so the limit is exceeded only by
\* what sweep gave up too early (sl_dos_guard.c 82-140).
SlotsPerIp ==
    \A ip \in Ips : /\ per_ip(ip) <= live(ip) /\ live(ip) <= per_ip(ip) + reaped[ip]
                    /\ per_ip(ip) <= MaxPerIp

\* The totals are the sums over the addresses and stay within the limit: sweep never
\* meets the case it guards against, and the unsigned counters never wrap.
SlotsTotal ==
    /\ global_half_open = MapThenSumSet(LAMBDA ip : half_open[ip], Ips)
    /\ global_established = MapThenSumSet(LAMBDA ip : established[ip], Ips)
    /\ global_inflight <= MaxGlobal

SlotsTrack == SlotsPerIp /\ SlotsTotal
-------------------------------------------------------------------------------
(***************************************************************************)
(* sl_lockout.c for one key, and the attempts of its callers: each asks    *)
(* check first, and reports fail or succeed when it is over, so several    *)
(* may be on their way when the key is locked.  The key's entry is there   *)
(* from the start with no failures; failures stay below MaxFails.          *)
(***************************************************************************)
CONSTANTS Base, MaxLock, Threshold, Flight, MaxFails, MaxTime

ASSUME LockoutAssumption ==
    Base \in Nat \ {0} /\ MaxLock \in Nat /\ MaxLock >= Base /\ Threshold \in Nat \ {0}

VARIABLES fails, locked_until, clock_ms, flight,
          \* history: when the streak of failures began, attempts begun in it
          since, begun

kvars == <<fails, locked_until, clock_ms, flight, since, begun>>

KInit == fails = 0 /\ locked_until = 0 /\ clock_ms = 1 /\ flight = 0 /\ since = 1 /\ begun = 0

\* Each failure past the threshold doubles the time, 16 times at most, up to the cap.
Duration(f) == Min({Base * 2^Min({f - Threshold, 16}), MaxLock})

\* The variant looks at the failures before this one.
LockedUntil_late(f) == IF f > Threshold THEN clock_ms + Duration(f) ELSE locked_until

LockedUntil(f) == IF f >= Threshold THEN clock_ms + Duration(f) ELSE locked_until

check_allows == clock_ms >= locked_until

attempt ==
    /\ check_allows /\ flight < Flight /\ flight' = flight + 1 /\ begun' = begun + 1
    /\ UNCHANGED <<fails, locked_until, clock_ms, since>>

fail ==
    /\ flight > 0 /\ fails < MaxFails /\ flight' = flight - 1
    /\ fails' = fails + 1 /\ locked_until' = LockedUntil(fails + 1)
    /\ UNCHANGED <<clock_ms, since, begun>>

\* One attempt that succeeds unlocks the key for the others too.
succeed ==
    /\ flight > 0 /\ flight' = flight - 1
    /\ fails' = 0 /\ locked_until' = 0
    /\ since' = clock_ms /\ begun' = flight - 1
    /\ UNCHANGED clock_ms

pass_time == clock_ms < MaxTime /\ clock_ms' = clock_ms + 1
             /\ UNCHANGED <<fails, locked_until, flight, since, begun>>

KNext == attempt \/ fail \/ succeed \/ pass_time
-------------------------------------------------------------------------------
\* The time j locks in a row take at least.
LocksTake == [j \in 0..MaxTime |-> MapThenSumSet(LAMBDA i : Duration(Threshold + i), 0..(j - 1))]
LocksOver(t) == Max({j \in 0..MaxTime : LocksTake[j] <= t})

\* However many callers attempt at once, a key that only ever fails gets at most
\* Threshold - 1 free attempts and Flight more for each lock it has waited out, and
\* the locks double: attempts already on their way when the key is locked lengthen
\* the lock, they never shorten it (sl_lockout.c 85-107).
AttemptsBounded == begun <= Threshold - 1 + Flight * (1 + LocksOver(clock_ms - since))
-------------------------------------------------------------------------------
(***************************************************************************)
(* rate_limiter.hpp for one key, and sl_token_bucket.c (TokenBucket): what *)
(* the two let through as time passes.  limiter says which; a missing      *)
(* bucket has last = 0, the time the code takes for "never", and clocks    *)
(* start at 1.  Time is in units of which Second make a second.            *)
(***************************************************************************)
CONSTANTS Rate, Burst, MaxAge, Costs, MaxT

\* An evicted bucket comes back full: it must have had the time to fill.
ASSUME RateAssumption ==
    /\ Rate \in Nat \ {0} /\ Burst \in Nat \ {0}
    /\ Rate * MaxAge >= Burst * Second

VARIABLES limiter, bucket, tb, t,
          \* history: what was let through at each time
          grants

rvars == <<limiter, bucket, tb, t, grants>>
Never == [tokens |-> 0, last |-> 0]

RInit ==
    /\ limiter \in {"peer", "bytes"} /\ bucket = Never /\ tb = Bucket(Burst, Rate)
    /\ t = 1 /\ grants = [i \in 1..MaxT |-> 0]

Add(b) == (Rate * (t - b.last)) \div Second

refilled(b) ==
    IF Add(b) > 0 THEN [tokens |-> Min({b.tokens + Add(b), Burst}), last |-> t] ELSE b

\* What allow finds in the bucket.
Found == IF bucket = Never THEN [tokens |-> Burst, last |-> t] ELSE refilled(bucket)

Grant(c) == grants' = [grants EXCEPT ![t] = @ + c]

allow(cost) ==
    /\ limiter = "peer"
    /\ IF Found.tokens >= cost
       THEN bucket' = [Found EXCEPT !.tokens = @ - cost] /\ Grant(cost)
       ELSE bucket' = Found /\ UNCHANGED grants
    /\ UNCHANGED <<limiter, tb, t>>

tokens ==
    /\ limiter = "peer" /\ bucket # Never /\ bucket' = refilled(bucket)
    /\ UNCHANGED <<limiter, tb, t, grants>>

evict_idle ==
    /\ limiter = "peer" /\ bucket # Never /\ bucket.last < t - MaxAge /\ bucket' = Never
    /\ UNCHANGED <<limiter, tb, t, grants>>

take(bytes) ==
    /\ limiter = "bytes" /\ tb' = try_take(tb, bytes)
    /\ IF CanTake(tb, bytes) THEN Grant(bytes) ELSE UNCHANGED grants
    /\ UNCHANGED <<limiter, bucket, t>>

elapse ==
    /\ t < MaxT /\ t' = t + 1 /\ tb' = Passed(tb)
    /\ UNCHANGED <<limiter, bucket, grants>>

RNext == (\E c \in Costs : allow(c) \/ take(c)) \/ tokens \/ evict_idle \/ elapse
-------------------------------------------------------------------------------
\* In every stretch of time a limiter lets through no more than a full bucket, what
\* the rate earns in that time and the token that was in the making when it began,
\* however calls, refills that add nothing and evictions fall (rate_limiter.hpp
\* 28-98, sl_token_bucket.c 12-47).
RateBound ==
    \A from \in 1..t :
        Second * MapThenSumSet(LAMBDA i : grants[i], from..t)
          < Second * (Burst + 1) + Rate * (t - from)
===============================================================================
