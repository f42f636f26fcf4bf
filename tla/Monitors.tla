------------------------------- MODULE Monitors -------------------------------
(***************************************************************************)
(* What watches peers and parts: the intrusion monitor with its scores and *)
(* detectors, and the health checks.                                       *)
(***************************************************************************)
EXTENDS Integers, FiniteSetsExt, Functions

(***************************************************************************)
(* intrusion_monitor.cpp, threat_score.cpp and anomaly_detector.cpp for    *)
(* one peer, called by several threads.  Time is in half-lives and a score *)
(* in units of 2^-K points, so that halving is exact for K half-lives.  A  *)
(* detector is the number of its samples, 0 when there is none; whether a  *)
(* sample past the warm-up deviates enough is left open.                   *)
(***************************************************************************)
CONSTANTS Watchers, Weights, AnomalyWeight, BlockScore, Warmup, K, MaxHalfLives, MaxReports, MaxSamples

VARIABLES score, last_updated, samples, life,
          \* a caller: its step, the weight it adds, the time it read, the score of its
          \* decision
          wpc, weight, stamp, dscore,
          \* history: points by the time they were stamped, a signal was stamped before
          \* the one it follows, the caller's decision was crossed by another signal,
          \* a decision that blocks below the limit; bound
          added, backdated, met, wrong, nsignals

state == <<score, last_updated, samples, life>>
ivars == <<state, wpc, weight, stamp, dscore, added, backdated, met, wrong, nsignals>>
Kinds == {"timing", "volume"}

IInit ==
    /\ score = 0 /\ last_updated = 0 /\ samples = [k \in Kinds |-> 0] /\ life = 1
    /\ wpc = [w \in Watchers |-> "idle"]
    /\ weight = [w \in Watchers |-> 0] /\ stamp = weight /\ dscore = weight
    /\ added = [i \in 1..MaxHalfLives |-> 0] /\ backdated = FALSE
    /\ met = [w \in Watchers |-> FALSE] /\ wrong = FALSE /\ nsignals = 0

decayed(s, from, to) == IF to <= from THEN s ELSE s \div 2^(to - from)

\* The variant adds to the score as it stood at its last update.
Raised_undecayed(from, to, points) == score + points * 2^K

Raised(from, to, points) == decayed(score, from, to) + points * 2^K

Score == IF last_updated = 0 THEN 0 ELSE decayed(score, last_updated, life)
-------------------------------------------------------------------------------
\* report_auth_failure and the other six.
report(w, points) ==
    /\ wpc[w] = "idle" /\ nsignals < MaxReports /\ nsignals' = nsignals + 1
    /\ wpc' = [wpc EXCEPT ![w] = "clock"] /\ weight' = [weight EXCEPT ![w] = points]
    /\ UNCHANGED <<state, stamp, dscore, added, backdated, met, wrong>>

\* observe_beacon_timing, observe_volume up to the end of the lock.
observe(w, k) ==
    /\ wpc[w] = "idle" /\ samples[k] < MaxSamples
    /\ samples' = [samples EXCEPT ![k] = @ + 1]
    /\ \/ wpc' = [wpc EXCEPT ![w] = "score"] /\ UNCHANGED <<weight, nsignals>>
       \/ /\ samples[k] + 1 > Max({1, Warmup})
          /\ nsignals < MaxReports /\ nsignals' = nsignals + 1
          /\ wpc' = [wpc EXCEPT ![w] = "clock"]
          /\ weight' = [weight EXCEPT ![w] = AnomalyWeight]
    /\ UNCHANGED <<score, last_updated, life, stamp, dscore, added, backdated, met, wrong>>

\* ThreatScore::signal reads the clock before it takes the lock.
signal_clock(w) ==
    /\ wpc[w] = "clock" /\ wpc' = [wpc EXCEPT ![w] = "signal"]
    /\ stamp' = [stamp EXCEPT ![w] = life]
    /\ UNCHANGED <<state, weight, dscore, added, backdated, met, wrong, nsignals>>

signal(w) ==
    /\ wpc[w] = "signal" /\ wpc' = [wpc EXCEPT ![w] = "score"]
    /\ LET from == IF last_updated = 0 THEN stamp[w] ELSE last_updated
       IN  /\ score' = Raised(from, stamp[w], weight[w])
           /\ backdated' = (backdated \/ (stamp[w] < from))
    /\ last_updated' = stamp[w]
    /\ added' = [added EXCEPT ![stamp[w]] = @ + weight[w]]
    /\ met' = [v \in Watchers |-> met[v] \/ wpc[v] = "block"]
    /\ weight' = [weight EXCEPT ![w] = 0] /\ stamp' = [stamp EXCEPT ![w] = 0]
    /\ UNCHANGED <<samples, life, dscore, wrong, nsignals>>

build_decision_score(w) ==
    /\ wpc[w] = "score" /\ wpc' = [wpc EXCEPT ![w] = "block"]
    /\ dscore' = [dscore EXCEPT ![w] = Score] /\ met' = [met EXCEPT ![w] = FALSE]
    /\ UNCHANGED <<state, weight, stamp, added, backdated, wrong, nsignals>>

build_decision_block(w) ==
    /\ wpc[w] = "block" /\ wpc' = [wpc EXCEPT ![w] = "idle"]
    /\ wrong' = (wrong \/ (Score >= BlockScore * 2^K /\ dscore[w] < BlockScore * 2^K /\ ~met[w]))
    /\ dscore' = [dscore EXCEPT ![w] = 0] /\ met' = [met EXCEPT ![w] = FALSE]
    /\ UNCHANGED <<state, weight, stamp, added, backdated, nsignals>>

\* decision_for.
decide(w) ==
    /\ wpc[w] = "idle" /\ wpc' = [wpc EXCEPT ![w] = "score"]
    /\ UNCHANGED <<state, weight, stamp, dscore, added, backdated, met, wrong, nsignals>>

\* clear forgets the score first, then the detectors.
clear_score(w) ==
    /\ wpc[w] = "idle" /\ last_updated # 0 /\ wpc' = [wpc EXCEPT ![w] = "detectors"]
    /\ score' = 0 /\ last_updated' = 0
    /\ added' = [i \in 1..MaxHalfLives |-> 0] /\ backdated' = FALSE
    /\ UNCHANGED <<samples, life, weight, stamp, dscore, met, wrong, nsignals>>

clear_detectors(w) ==
    /\ wpc[w] = "detectors" /\ wpc' = [wpc EXCEPT ![w] = "idle"]
    /\ samples' = [k \in Kinds |-> 0]
    /\ UNCHANGED <<score, last_updated, life, weight, stamp, dscore, added, backdated, met, wrong, nsignals>>

half_life ==
    /\ life < MaxHalfLives /\ life' = life + 1
    /\ UNCHANGED <<score, last_updated, samples, wpc, weight, stamp, dscore, added, backdated, met, wrong, nsignals>>

INext ==
    \/ half_life
    \/ \E w \in Watchers :
          \/ \E p \in Weights : report(w, p)
          \/ \E k \in Kinds : observe(w, k)
          \/ signal_clock(w) \/ signal(w) \/ build_decision_score(w) \/ build_decision_block(w)
          \/ decide(w) \/ clear_score(w) \/ clear_detectors(w)
-------------------------------------------------------------------------------
Exact == MapThenSumSet(LAMBDA i : (added[i] * 2^K) \div 2^(life - i), 1..life)

\* The score is the sum of the points since the peer was last cleared, each halved for
\* every half-life since it was given; signals whose clock was read in another order
\* than they took the lock in can only lower it, so nobody is blocked for points they
\* never had; and a decision that blocks shows a score that blocks, unless another
\* signal came between its two readings (threat_score.cpp 27-55, intrusion_monitor.cpp
\* 30-35).
ScoreHonest ==
    /\ Score <= Exact
    /\ ~backdated => Score = Exact
    /\ ~wrong

(***************************************************************************)
(* health_check.cpp: probes registered by name, run by any thread outside  *)
(* the lock on a snapshot, their results stored together.  A status is     *)
(* 0 (healthy), 1 (degraded) or 2 (unhealthy, or the probe threw); details *)
(* and times are left out.                                                 *)
(***************************************************************************)
CONSTANTS Names, Runners, MaxChecks, MaxRegs

VARIABLES probes, last,
          \* runs in flight: what is still to be probed, and the results so far
          todo, results, busy,
          \* history: names unregistered since the snapshot, by runner, and since the
          \* snapshot of the run that wrote last; bounds
          gone, crossed, checks, regs

hvars == <<probes, last, todo, results, busy, gone, crossed, checks, regs>>
Status == 0..2
Nothing == [n \in {} |-> 0]

HInit ==
    /\ probes = {} /\ last = Nothing
    /\ busy = {} /\ todo = [r \in Runners |-> {}] /\ results = [r \in Runners |-> Nothing]
    /\ gone = [r \in Runners |-> {}] /\ crossed = {} /\ checks = 0 /\ regs = 0

register_probe(n) ==
    /\ regs < MaxRegs /\ regs' = regs + 1 /\ probes' = probes \cup {n}
    /\ UNCHANGED <<last, todo, results, busy, gone, crossed, checks>>

\* The variant leaves the last result.
Without_kept(n) == last

Without(n) == Restrict(last, DOMAIN last \ {n})

unregister_probe(n) ==
    /\ n \in probes /\ probes' = probes \ {n} /\ last' = Without(n)
    /\ gone' = [r \in Runners |-> IF r \in busy THEN gone[r] \cup {n} ELSE gone[r]]
    /\ UNCHANGED <<todo, results, busy, crossed, checks, regs>>

run_all_snapshot(r) ==
    /\ r \notin busy /\ checks < MaxChecks /\ checks' = checks + 1
    /\ busy' = busy \cup {r} /\ todo' = [todo EXCEPT ![r] = probes]
    /\ results' = [results EXCEPT ![r] = Nothing] /\ gone' = [gone EXCEPT ![r] = {}]
    /\ UNCHANGED <<probes, last, crossed, regs>>

run_all_probe(r) ==
    /\ r \in busy
    /\ \E n \in todo[r], s \in Status :
          /\ todo' = [todo EXCEPT ![r] = @ \ {n}]
          /\ results' = [results EXCEPT ![r] =
                            [m \in DOMAIN @ \cup {n} |-> IF m = n THEN s ELSE @[m]]]
    /\ UNCHANGED <<probes, last, busy, gone, crossed, checks, regs>>

\* last_ becomes the results, whatever was unregistered meanwhile.
run_all_store(r) ==
    /\ r \in busy /\ todo[r] = {} /\ busy' = busy \ {r}
    /\ last' = results[r] /\ crossed' = gone[r]
    /\ results' = [results EXCEPT ![r] = Nothing] /\ gone' = [gone EXCEPT ![r] = {}]
    /\ UNCHANGED <<probes, todo, checks, regs>>

aggregate_locked == Max({0} \cup Range(last))

HNext ==
    \/ \E n \in Names : register_probe(n) \/ unregister_probe(n)
    \/ \E r \in Runners : run_all_snapshot(r) \/ run_all_probe(r) \/ run_all_store(r)

\* The overall status is the worst of the probes that are registered: one that was
\* unregistered no longer counts, unless it went while the run that reported last was
\* on its way, whose results then show it until the next run (health_check.cpp 22-56).
HealthShown ==
    /\ DOMAIN last \subseteq probes \cup crossed
    /\ aggregate_locked > 0 =>
          \E n \in probes \cup crossed : n \in DOMAIN last /\ last[n] = aggregate_locked
===============================================================================
