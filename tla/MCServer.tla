-------------------------------- MODULE MCServer ------------------------------
(***************************************************************************)
(* The server side, each part by itself in one run: mode says which of the *)
(* thread pool, the event loop with its listener, the TCP and admin        *)
(* servers, the health checks, the connection guard, the lockout, the rate *)
(* limits, the intrusion monitor and the snapshot timer moves.             *)
(***************************************************************************)
EXTENDS ThreadPool, Admission

CONSTANTS Fds, Lfd, MaxPosts, MaxStops, MaxRuns, MaxClients, MaxSignals,
          MaxArrivals, MaxRounds, Names, Runners, MaxChecks, MaxRegs,
          Watchers, Weights, AnomalyWeight, BlockScore, Warmup, K, MaxHalfLives,
          MaxReports, MaxSamples, Controllers, MaxTimerCalls

VARIABLES mode,
          lrunning, lpc, entries, ready, local, posted, listening, backlog,
          made, lran, gens, clients, asked, stray, stops, runs, signals,
          kind, nrunning, npc, lfd, fdv, arg, waiting, cur, rounds, spc,
          won, heard, closes, arrivals,
          probes, last, todo, results, busy, gone, crossed, checks, regs,
          score, last_updated, samples, life, wpc, weight, stamp, dscore,
          added, backdated, met, wrong, nsignals,
          trunning, tmu, thread, tloop, tpc, tcalls, dead

EL == INSTANCE EventLoop WITH running <- lrunning, pc <- lpc, ran <- lran
NS == INSTANCE NetServers WITH running <- nrunning, pc <- npc
MO == INSTANCE Monitors
SM == INSTANCE SnapshotManager WITH running <- trunning, mu <- tmu, loop <- tloop, pc <- tpc,
                                    calls <- tcalls, MaxCalls <- MaxTimerCalls

loopvars == <<lrunning, lpc, entries, ready, local, posted, listening, backlog,
              made, lran, gens, clients, asked, stray, stops, runs, signals>>
netvars == <<kind, nrunning, npc, lfd, fdv, arg, waiting, cur, rounds, spc,
             won, heard, closes, arrivals>>
healthvars == <<probes, last, todo, results, busy, gone, crossed, checks, regs>>
watchvars == <<score, last_updated, samples, life, wpc, weight, stamp, dscore,
               added, backdated, met, wrong, nsignals>>
timer == <<trunning, tmu, thread, tloop, tpc, tcalls, dead>>
admission == <<dvars, kvars, rvars>>
allvars == <<mode, poolvars, loopvars, netvars, healthvars, watchvars, admission, timer>>

MCInit ==
    /\ mode \in {"pool", "loop", "net", "health", "guard", "lockout", "rates", "watch", "timer"}
    /\ PoolInit /\ EL!LInit /\ NS!NInit /\ MO!HInit /\ MO!IInit /\ DInit /\ KInit /\ RInit /\ SM!Init
    /\ mode # "net" => kind = "tcp"
    /\ mode # "rates" => limiter = "peer"

MCNext ==
    \/ mode = "pool" /\ PoolNext
       /\ UNCHANGED <<mode, timer, loopvars, netvars, healthvars, watchvars, admission>>
    \/ mode = "loop" /\ EL!LNext
       /\ UNCHANGED <<mode, timer, poolvars, netvars, healthvars, watchvars, admission>>
    \/ mode = "net" /\ NS!NNext
       /\ UNCHANGED <<mode, timer, poolvars, loopvars, healthvars, watchvars, admission>>
    \/ mode = "health" /\ MO!HNext
       /\ UNCHANGED <<mode, timer, poolvars, loopvars, netvars, watchvars, admission>>
    \/ mode = "watch" /\ MO!INext
       /\ UNCHANGED <<mode, timer, poolvars, loopvars, netvars, healthvars, admission>>
    \/ mode = "guard" /\ DNext
       /\ UNCHANGED <<mode, timer, poolvars, loopvars, netvars, healthvars, watchvars, kvars, rvars>>
    \/ mode = "lockout" /\ KNext
       /\ UNCHANGED <<mode, timer, poolvars, loopvars, netvars, healthvars, watchvars, dvars, rvars>>
    \/ mode = "rates" /\ RNext
       /\ UNCHANGED <<mode, timer, poolvars, loopvars, netvars, healthvars, watchvars, dvars, kvars>>
    \/ mode = "timer" /\ SM!Next
       /\ UNCHANGED <<mode, poolvars, loopvars, netvars, healthvars, watchvars, admission>>

\* Threads run; a client that is being served says something or leaves; nobody has to
\* submit, post, connect or stop.
MCFairness ==
    /\ \A w \in Workers : SF_poolvars(mode = "pool" /\ WorkerStep(w))
    /\ \A s \in Submitters : WF_poolvars(mode = "pool" /\ Push(s)) /\ WF_poolvars(mode = "pool" /\ NotifyOne(s))
    /\ WF_loopvars(mode = "loop" /\ EL!Thread)
    /\ WF_netvars(mode = "net" /\ NS!Serve)
    /\ WF_netvars(mode = "net" /\ NS!speak)
    /\ WF_netvars(mode = "net" /\ NS!Stopping)
    /\ WF_timer(mode = "timer" /\ SM!LoopStep)
    /\ \A c \in Controllers : WF_timer(mode = "timer" /\ SM!ControlStep(c))

MCSpec == MCInit /\ [][MCNext]_allvars /\ MCFairness

\* Tasks, callbacks, clients and stop(): EventLoop.
LoopSound == mode = "loop" => EL!LoopSound

\* After a stop nothing runs any more, and what the health checks show: NetServers,
\* SnapshotManager and Monitors.
ServersQuiet ==
    /\ mode = "net" => NS!StopQuiesces
    /\ mode = "timer" => SM!NeverTerminates /\ SM!QuietAfterStop
    /\ mode = "health" => MO!HealthShown

\* Slots, attempts and tokens: Admission.
LimitsHold ==
    /\ mode = "guard" => SlotsTrack
    /\ mode = "lockout" => AttemptsBounded
    /\ mode = "rates" => RateBound

\* Scores and decisions: Monitors.
ScoreHonest == mode = "watch" => MO!ScoreHonest

\* An accepted task runs: ThreadPool.
PoolRuns == mode = "pool" => AcceptedRuns

\* Callbacks are served and every stop returns: EventLoop, NetServers, SnapshotManager.
ThreadsEnd ==
    /\ mode = "loop" => EL!LoopServes
    /\ mode = "net" => NS!StopEnds
    /\ mode = "timer" => SM!StopReturns
===============================================================================
