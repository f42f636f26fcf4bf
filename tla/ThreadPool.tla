------------------------------ MODULE ThreadPool ------------------------------
(***************************************************************************)
(* thread_pool.cpp: workers that wait on cv_ for tasks, threads that       *)
(* submit, threads that call stop().  mu is the owner of mu_.  A worker    *)
(* whose wait predicate is false still holds mu_ until it blocks: stop(),  *)
(* which takes no lock, can run in between.  Each submitter submits one    *)
(* task, named after it.                                                   *)
(***************************************************************************)
EXTENDS Integers, Sequences, FiniteSets

CONSTANTS Workers, Submitters, Stoppers,
          Nobody,      \* owner of a free mutex
          queue_cap

ASSUME CapAssumption == queue_cap \in Nat
ASSUME ThreadAssumption ==
    /\ Workers # {}
    /\ Workers \cap Submitters = {} /\ Workers \cap Stoppers = {}
    /\ Submitters \cap Stoppers = {}
    /\ Nobody \notin Workers \cup Submitters \cup Stoppers

Threads == Workers \cup Submitters \cup Stoppers

VARIABLES mu, q, stopped, pc,
          task,      \* the task each worker runs, or Nobody
          ran,       \* history: how often each task ran
          dropped, completed

poolvars == <<mu, q, stopped, pc, task, ran, dropped, completed>>

PoolInit ==
    /\ mu = Nobody /\ q = <<>> /\ stopped = FALSE
    /\ pc = [t \in Threads |-> IF t \in Workers THEN "lock" ELSE "idle"]
    /\ task = [w \in Workers |-> Nobody]
    /\ ran = [s \in Submitters |-> 0]
    /\ dropped = 0 /\ completed = 0

Goto(t, label) == pc' = [pc EXCEPT ![t] = label]
Asleep == {w \in Workers : pc[w] = "asleep"}
-------------------------------------------------------------------------------
\* worker_loop: lock and evaluate the predicate of the wait ...
Check(w) ==
    /\ pc[w] = "lock" /\ mu = Nobody
    /\ mu' = w
    /\ Goto(w, IF stopped \/ q # <<>> THEN "take" ELSE "block")
    /\ UNCHANGED <<q, stopped, task, ran, dropped, completed>>

\* ... release the lock and block, in one step ...
Block(w) ==
    /\ pc[w] = "block"
    /\ Goto(w, "asleep")
    /\ mu' = Nobody
    /\ UNCHANGED <<q, stopped, task, ran, dropped, completed>>

\* ... and maybe wake up for no reason.
WakeSpuriously(w) ==
    /\ pc[w] = "asleep"
    /\ Goto(w, "lock")
    /\ UNCHANGED <<mu, q, stopped, task, ran, dropped, completed>>

\* The variant leaves tasks behind.
ExitAtOnce == stopped
MayExit == stopped /\ q = <<>>

\* The variant forgets to pop.
Unpopped(queue) == queue
Popped(queue) == Tail(queue)

Exit(w) ==
    /\ pc[w] = "take" /\ MayExit
    /\ Goto(w, "exit")
    /\ mu' = Nobody
    /\ UNCHANGED <<q, stopped, task, ran, dropped, completed>>

Take(w) ==
    /\ pc[w] = "take" /\ ~MayExit
    /\ task' = [task EXCEPT ![w] = Head(q)]
    /\ q' = Popped(q)
    /\ Goto(w, "run")
    /\ mu' = Nobody
    /\ UNCHANGED <<stopped, ran, dropped, completed>>

\* A task that throws counts as completed too.
Run(w) ==
    /\ pc[w] = "run"
    /\ ran' = [ran EXCEPT ![task[w]] = @ + 1]
    /\ task' = [task EXCEPT ![w] = Nobody]
    /\ completed' = completed + 1
    /\ Goto(w, "lock")
    /\ UNCHANGED <<mu, q, stopped, dropped>>
-------------------------------------------------------------------------------
\* The variant is off by one.
OverFull == Len(q) > queue_cap
Full == Len(q) >= queue_cap

\* submit: refused when stopped or full ...
Refuse(s) ==
    /\ pc[s] = "idle" /\ mu = Nobody
    /\ stopped \/ Full
    /\ dropped' = IF stopped THEN dropped ELSE dropped + 1
    /\ Goto(s, "refused")
    /\ UNCHANGED <<mu, q, stopped, task, ran, completed>>

\* ... else, still under the lock, queued ...
Admit(s) ==
    /\ pc[s] = "idle" /\ mu = Nobody
    /\ ~stopped /\ ~Full
    /\ mu' = s
    /\ Goto(s, "push")
    /\ UNCHANGED <<q, stopped, task, ran, dropped, completed>>

Push(s) ==
    /\ pc[s] = "push"
    /\ q' = Append(q, s)
    /\ mu' = Nobody
    /\ Goto(s, "notify")
    /\ UNCHANGED <<stopped, task, ran, dropped, completed>>

\* ... and announced to one sleeping worker, if any.  The variant announces
\* nothing.
NotifyNone(s) ==
    /\ pc[s] = "notify"
    /\ Goto(s, "accepted")
    /\ UNCHANGED <<mu, q, stopped, task, ran, dropped, completed>>

NotifyOne(s) ==
    /\ pc[s] = "notify"
    /\ \/ /\ Asleep = {}
          /\ Goto(s, "accepted")
       \/ \E w \in Asleep : pc' = [pc EXCEPT ![s] = "accepted", ![w] = "lock"]
    /\ UNCHANGED <<mu, q, stopped, task, ran, dropped, completed>>

\* stop(): only the first caller joins.
StopFirst(t) ==
    /\ pc[t] = "idle" /\ ~stopped
    /\ stopped' = TRUE
    /\ Goto(t, "notify_all")
    /\ UNCHANGED <<mu, q, task, ran, dropped, completed>>

StopAgain(t) ==
    /\ pc[t] = "idle" /\ stopped
    /\ Goto(t, "returned")
    /\ UNCHANGED <<mu, q, stopped, task, ran, dropped, completed>>

NotifyAll(t) ==
    /\ pc[t] = "notify_all"
    /\ pc' = [u \in Threads |-> IF u = t THEN "join"
                                ELSE IF u \in Asleep THEN "lock" ELSE pc[u]]
    /\ UNCHANGED <<mu, q, stopped, task, ran, dropped, completed>>

Join(t) ==
    /\ pc[t] = "join"
    /\ \A w \in Workers : pc[w] = "exit"
    /\ Goto(t, "joined")
    /\ UNCHANGED <<mu, q, stopped, task, ran, dropped, completed>>

WorkerStep(w) == Check(w) \/ Block(w) \/ Exit(w) \/ Take(w) \/ Run(w)
SubmitStep(s) == Refuse(s) \/ Admit(s) \/ Push(s) \/ NotifyOne(s)
StopStep(t) == StopFirst(t) \/ StopAgain(t) \/ NotifyAll(t) \/ Join(t)

PoolNext ==
    \/ \E w \in Workers : WorkerStep(w) \/ WakeSpuriously(w)
    \/ \E s \in Submitters : SubmitStep(s)
    \/ \E t \in Stoppers : StopStep(t)

PoolSpec == PoolInit /\ [][PoolNext]_poolvars

\* Threads run, and get the mutex when it is free often enough.  Nobody has
\* to submit or to stop, and a spurious wake-up is never owed.
Fairness ==
    /\ \A w \in Workers : SF_poolvars(WorkerStep(w))
    /\ \A s \in Submitters : WF_poolvars(Push(s)) /\ WF_poolvars(NotifyOne(s))
    /\ \A t \in Stoppers : WF_poolvars(NotifyAll(t)) /\ WF_poolvars(Join(t))

FairSpec == PoolSpec /\ Fairness
-------------------------------------------------------------------------------
PoolTyped ==
    /\ mu \in Threads \cup {Nobody}
    /\ q \in Seq(Submitters) /\ Len(q) <= queue_cap
    /\ stopped \in BOOLEAN
    /\ pc \in [Threads -> {"lock", "block", "asleep", "take", "run", "exit",
                           "idle", "push", "notify", "accepted", "refused",
                           "notify_all", "join", "joined", "returned"}]
    /\ task \in [Workers -> Submitters \cup {Nobody}]
    /\ ran \in [Submitters -> Nat]
    /\ dropped \in Nat /\ completed \in Nat

Accepted(s) == pc[s] \in {"notify", "accepted"}

\* An accepted task is never left behind: once a worker has left its loop the
\* queue is empty and stays empty, although submit() checks stopped_ and
\* queues in one critical section that stop() does not take part in.
NoneAbandoned ==
    (\E w \in Workers : pc[w] = "exit") =>
        stopped /\ q = <<>> /\ \A s \in Submitters : pc[s] # "push"

Queued(s) == \E i \in 1..Len(q) : q[i] = s
Running(s) == \E w \in Workers : task[w] = s

\* An accepted task is in one place: queued once, with one worker, or done;
\* it never runs twice, and a refused one never runs.
TaskOnce ==
    /\ \A s \in Submitters :
           /\ ran[s] <= 1
           /\ Accepted(s) <=> Queued(s) \/ Running(s) \/ ran[s] = 1
           /\ Queued(s) => ~Running(s) /\ ran[s] = 0
           /\ Running(s) => ran[s] = 0
    /\ \A i, j \in 1..Len(q) : q[i] = q[j] => i = j
    /\ \A v, w \in Workers : task[v] = task[w] /\ task[v] # Nobody => v = w

\* When stop() has joined the workers, every accepted task has run
\* (thread_pool.hpp: "stop() drains the queue then joins workers").
StopDrains ==
    (\E t \in Stoppers : pc[t] = "joined") =>
        \A s \in Submitters : Accepted(s) => ran[s] = 1

\* Every accepted task runs in the end, whatever stop() does meanwhile: the
\* notification of submit() is never lost.
AcceptedRuns == \A s \in Submitters : Accepted(s) ~> (ran[s] = 1)

\* thread_pool.hpp:7, "stop() drains the queue then joins workers": the
\* stop() that joins returns.
StopReturns == \A t \in Stoppers : (pc[t] = "join") ~> (pc[t] = "joined")
===============================================================================
