------------------------------ MODULE PoolProofs ------------------------------
(***************************************************************************)
(* Proofs about two structures in memory.  For every number of threads and *)
(* every capacity, stop() of the thread pool returns only when each task   *)
(* that was taken in has run once; the window of the replay guard, in bits *)
(* and in words, accepts a number at most once and refuses none without    *)
(* reason.                                                                 *)
(***************************************************************************)
EXTENDS ThreadPool, ReplayGuard, FiniteSetTheorems, TLAPS

WorkerLabels == {"lock", "block", "asleep", "take", "run", "exit"}
SubmitLabels == {"idle", "push", "notify", "accepted", "refused"}
StopLabels == {"idle", "notify_all", "join", "joined", "returned"}

\* Each kind of thread is at a label of its own.
LabelsOK ==
    /\ \A w \in Workers : pc[w] \in WorkerLabels
    /\ \A s \in Submitters : pc[s] \in SubmitLabels
    /\ \A t \in Stoppers : pc[t] \in StopLabels

\* mu_ is held exactly inside the critical sections.
MutexOK ==
    \A t \in Threads : pc[t] \in {"block", "take", "push"} <=> mu = t

\* What a thread inside its critical section may rely on, and what a worker
\* and a stopper know outside.
LocalOK ==
    /\ \A w \in Workers : pc[w] = "take" => stopped \/ q # <<>>
    /\ \A s \in Submitters : pc[s] = "push" => Len(q) < queue_cap
    /\ \A w \in Workers : task[w] # Nobody <=> pc[w] = "run"
    /\ \A t \in Stoppers : pc[t] = "joined" =>
           \A w \in Workers : pc[w] = "exit"

IInv == PoolTyped /\ LabelsOK /\ MutexOK /\ LocalOK /\ NoneAbandoned /\ TaskOnce

\* The initial state of ThreadPool satisfies the inductive invariant.
LEMMA InitIInv == PoolInit => IInv
<1> SUFFICES ASSUME PoolInit PROVE IInv
  OBVIOUS
<1> USE CapAssumption, ThreadAssumption DEF Threads
<1>1. \A t \in Threads : /\ t \in Workers => pc[t] = "lock"
                         /\ t \notin Workers => pc[t] = "idle"
  BY DEF PoolInit
<1>2. stopped \in BOOLEAN
  BY Zenon DEF PoolInit
<1>3. PoolTyped
  BY <1>2 DEF PoolInit, PoolTyped
<1>4. LabelsOK /\ MutexOK
  BY <1>1 DEF PoolInit, LabelsOK, MutexOK, WorkerLabels, SubmitLabels, StopLabels
<1>5. LocalOK /\ NoneAbandoned
  BY <1>1 DEF PoolInit, LocalOK, NoneAbandoned
<1>6. TaskOnce
  BY <1>1 DEF PoolInit, TaskOnce, Accepted, Queued, Running
<1> QED BY <1>3, <1>4, <1>5, <1>6 DEF IInv

\* A step of one thread that touches neither the queue nor the tasks keeps
\* TaskOnce if it leaves the set of accepted tasks alone.
LEMMA TasksUntouched ==
  ASSUME IInv, UNCHANGED <<q, task, ran>>,
         \A s \in Submitters : Accepted(s)' <=> Accepted(s)
  PROVE  TaskOnce'
BY DEF IInv, TaskOnce, Queued, Running

\* A thread that goes on to another label, without touching the queue or a
\* task, preserves the inductive invariant if the label says nothing untrue.
LEMMA MoveOn ==
  ASSUME IInv, NEW t \in Threads, NEW l,
         pc' = [pc EXCEPT ![t] = l], UNCHANGED <<q, task, ran>>,
         stopped' \in BOOLEAN, stopped => stopped',
         dropped' \in Nat, completed' \in Nat,
         t \in Workers => l \in WorkerLabels,
         t \in Submitters => l \in SubmitLabels,
         t \in Stoppers => l \in StopLabels,
         \/ l \in {"block", "take", "push"} /\ mu = Nobody /\ mu' = t
         \/ l \notin {"block", "take", "push"} /\ mu = t /\ mu' = Nobody
         \/ l \notin {"block", "take", "push"} /\ mu # t /\ mu' = mu,
         pc[t] \notin {"run", "exit"}, l # "run",
         l \in {"notify", "accepted"} <=> pc[t] \in {"notify", "accepted"},
         l = "take" => stopped' \/ q # <<>>,
         l = "push" => Len(q) < queue_cap /\ \A w \in Workers : pc[w] # "exit",
         l = "exit" => stopped' /\ q = <<>> /\ \A s \in Submitters : pc[s] # "push",
         l = "joined" => \A w \in Workers : pc[w] = "exit"
  PROVE  IInv'
<1> USE ThreadAssumption DEF Threads
<1>1. \A u \in Threads : pc'[u] = IF u = t THEN l ELSE pc[u]
  BY DEF IInv, PoolTyped
<1>2. PoolTyped'
  BY DEF IInv, PoolTyped, WorkerLabels, SubmitLabels, StopLabels
<1>3. LabelsOK'
  BY <1>1 DEF IInv, LabelsOK
<1>4. MutexOK'
  BY <1>1 DEF IInv, MutexOK
<1>5. LocalOK'
  <2>1. (\A w \in Workers : pc[w] = "take" => stopped \/ q # <<>>)'
    BY <1>1 DEF IInv, LocalOK
  <2>2. (\A s \in Submitters : pc[s] = "push" => Len(q) < queue_cap)'
    BY <1>1 DEF IInv, LocalOK
  <2>3. (\A w \in Workers : task[w] # Nobody <=> pc[w] = "run")'
    BY <1>1 DEF IInv, LocalOK
  <2>4. (\A u \in Stoppers : pc[u] = "joined" =>
           \A w \in Workers : pc[w] = "exit")'
    BY <1>1 DEF IInv, LocalOK
  <2> QED BY <2>1, <2>2, <2>3, <2>4 DEF LocalOK
<1>6. NoneAbandoned'
  BY <1>1 DEF IInv, NoneAbandoned
<1>7. TaskOnce'
  BY <1>1, TasksUntouched DEF Accepted
<1> QED BY <1>2, <1>3, <1>4, <1>5, <1>6, <1>7 DEF IInv

\* The worker steps that move on: predicate, blocking, waking, leaving.
LEMMA WorkerMovesIInv ==
  ASSUME IInv, NEW w \in Workers,
         Check(w) \/ Block(w) \/ WakeSpuriously(w) \/ Exit(w)
  PROVE  IInv'
<1> USE ThreadAssumption DEF Threads, Goto
<1>1. /\ stopped' = stopped /\ dropped' = dropped /\ completed' = completed
      /\ UNCHANGED <<q, task, ran>>
  BY DEF Check, Block, WakeSpuriously, Exit
<1>2. /\ stopped' \in BOOLEAN /\ (stopped => stopped')
      /\ dropped' \in Nat /\ completed' \in Nat
  BY <1>1, Zenon DEF IInv, PoolTyped
<1>3. (pc[w] \in {"block", "take"} <=> mu = w) /\ w # Nobody
  BY DEF IInv, MutexOK, LabelsOK, WorkerLabels
<1>4. CASE Check(w)
  <2> DEFINE l == IF stopped \/ q # <<>> THEN "take" ELSE "block"
  <2>1. l \in {"take", "block"} /\ (l = "take" => stopped' \/ q # <<>>)
    BY <1>2
  <2>2. pc' = [pc EXCEPT ![w] = l] /\ pc[w] = "lock" /\ mu = Nobody /\ mu' = w
    BY <1>4 DEF Check
  <2> HIDE DEF l
  <2> QED BY <1>1, <1>2, <2>1, <2>2, MoveOn, ZenonT(60) DEF WorkerLabels
<1>5. CASE Block(w)
  BY <1>1, <1>2, <1>3, <1>5, MoveOn, ZenonT(60) DEF Block, WorkerLabels
<1>6. CASE WakeSpuriously(w)
  BY <1>1, <1>2, <1>3, <1>6, MoveOn, ZenonT(60) DEF WakeSpuriously, WorkerLabels
<1>7. CASE Exit(w)
  <2>1. stopped' /\ q = <<>> /\ pc[w] = "take" /\ mu = w /\ mu' = Nobody
    BY <1>2, <1>3, <1>7 DEF Exit, MayExit
  <2>2. \A s \in Submitters : pc[s] # "push"
    BY <2>1 DEF IInv, MutexOK
  <2> QED BY <1>1, <1>2, <1>7, <2>1, <2>2, MoveOn, ZenonT(60) DEF Exit, WorkerLabels
<1> QED BY <1>4, <1>5, <1>6, <1>7

\* The submitter steps that move on.  A submitter is admitted only while
\* stopped_ is false, so while every worker is still in its loop.
LEMMA SubmitMovesIInv ==
  ASSUME IInv, NEW s \in Submitters, Refuse(s) \/ Admit(s) PROVE IInv'
<1> USE ThreadAssumption DEF Threads, Goto
<1>1. stopped' = stopped /\ completed' = completed /\ UNCHANGED <<q, task, ran>>
  BY DEF Refuse, Admit
<1>2. stopped' \in BOOLEAN /\ (stopped => stopped') /\ completed' \in Nat
  BY <1>1, Zenon DEF IInv, PoolTyped
<1>3. dropped' \in Nat
  BY DEF Refuse, Admit, IInv, PoolTyped
<1>4. CASE Refuse(s)
  BY <1>1, <1>2, <1>3, <1>4, MoveOn, ZenonT(60) DEF Refuse, SubmitLabels
<1>5. CASE Admit(s)
  <2>1. Len(q) < queue_cap
    BY <1>5, CapAssumption DEF Admit, Full, IInv, PoolTyped
  <2>2. \A w \in Workers : pc[w] # "exit"
    BY <1>5 DEF Admit, IInv, NoneAbandoned
  <2> QED BY <1>1, <1>2, <1>3, <1>5, <2>1, <2>2, MoveOn, ZenonT(60) DEF Admit, SubmitLabels
<1> QED BY <1>4, <1>5

\* The steps of stop() that move on.
LEMMA StopMovesIInv ==
  ASSUME IInv, NEW t \in Stoppers, StopFirst(t) \/ StopAgain(t) \/ Join(t)
  PROVE  IInv'
<1> USE ThreadAssumption DEF Threads, Goto
<1>1. /\ dropped' = dropped /\ completed' = completed /\ mu' = mu
      /\ UNCHANGED <<q, task, ran>>
  BY DEF StopFirst, StopAgain, Join
<1>2. dropped' \in Nat /\ completed' \in Nat
  BY <1>1 DEF IInv, PoolTyped
<1>3. stopped' \in BOOLEAN /\ (stopped => stopped')
  BY Zenon DEF StopFirst, StopAgain, Join, IInv, PoolTyped
<1>4. mu # t
  BY DEF IInv, MutexOK, LabelsOK, StopLabels
<1>5. CASE StopFirst(t)
  BY <1>1, <1>2, <1>3, <1>4, <1>5, MoveOn, ZenonT(60) DEF StopFirst, StopLabels
<1>6. CASE StopAgain(t)
  BY <1>1, <1>2, <1>3, <1>4, <1>6, MoveOn, ZenonT(60) DEF StopAgain, StopLabels
<1>7. CASE Join(t)
  BY <1>1, <1>2, <1>3, <1>4, <1>7, MoveOn, ZenonT(60) DEF Join, StopLabels
<1> QED BY <1>5, <1>6, <1>7

\* A notification moves the notifier on and sleeping workers back to the lock.
LEMMA WakeIInv ==
  ASSUME IInv, NEW t \in Threads, UNCHANGED <<mu, q, stopped, task, ran, dropped, completed>>,
         pc' \in [Threads -> WorkerLabels \cup SubmitLabels \cup StopLabels],
         \/ t \in Submitters /\ pc[t] = "notify"
         \/ t \in Stoppers /\ pc[t] = "notify_all",
         \A u \in Threads :
           \/ u = t /\ pc'[u] = (IF t \in Submitters THEN "accepted" ELSE "join")
           \/ u \in Workers /\ pc[u] = "asleep" /\ pc'[u] = "lock"
           \/ u # t /\ pc'[u] = pc[u]
  PROVE  IInv'
<1> USE ThreadAssumption DEF Threads
<1>1. stopped' \in BOOLEAN /\ (stopped <=> stopped')
  BY Zenon DEF IInv, PoolTyped
<1>2. PoolTyped'
  BY <1>1 DEF IInv, PoolTyped, WorkerLabels, SubmitLabels, StopLabels
<1>3. LabelsOK'
  BY DEF IInv, LabelsOK, WorkerLabels, SubmitLabels, StopLabels
<1>4. MutexOK'
  BY DEF IInv, MutexOK
<1>5. LocalOK'
  BY <1>1 DEF IInv, LocalOK
<1>6. NoneAbandoned'
  BY <1>1 DEF IInv, NoneAbandoned
<1>7. TaskOnce'
  BY TasksUntouched DEF Accepted
<1> QED BY <1>2, <1>3, <1>4, <1>5, <1>6, <1>7 DEF IInv

\* notify_one moves the submitter and at most one sleeping worker.
LEMMA NotifyOneIInv == ASSUME IInv, NEW s \in Submitters, NotifyOne(s) PROVE IInv'
<1> USE ThreadAssumption DEF Threads
<1>1. /\ stopped' = stopped /\ dropped' = dropped /\ completed' = completed
      /\ mu' = mu /\ UNCHANGED <<q, task, ran>>
  BY DEF NotifyOne
<1>2. PICK W \in SUBSET Asleep :
        pc' = [u \in Threads |-> IF u = s THEN "accepted"
                                 ELSE IF u \in W THEN "lock" ELSE pc[u]]
  <2>1. CASE Goto(s, "accepted")
    <3> WITNESS {} \in SUBSET Asleep
    <3> QED BY <2>1, ZenonT(60) DEF Goto, IInv, PoolTyped
  <2>2. ASSUME NEW w \in Asleep,
               pc' = [pc EXCEPT ![s] = "accepted", ![w] = "lock"]
        PROVE  \E W \in SUBSET Asleep :
                 pc' = [u \in Threads |-> IF u = s THEN "accepted"
                                          ELSE IF u \in W THEN "lock" ELSE pc[u]]
    <3> WITNESS {w} \in SUBSET Asleep
    <3> QED BY <2>2, ZenonT(60) DEF Asleep, IInv, PoolTyped
  <2> QED BY <2>1, <2>2 DEF NotifyOne
<1>3. pc[s] = "notify" /\ \A w \in W : w \in Workers /\ pc[w] = "asleep"
  BY DEF NotifyOne, Asleep
<1>4. \A u \in Threads :
        \/ u = s /\ pc'[u] = "accepted"
        \/ u \in Workers /\ pc[u] = "asleep" /\ pc'[u] = "lock"
        \/ u # s /\ pc'[u] = pc[u]
  BY <1>2, <1>3
<1>5. pc' \in [Threads -> WorkerLabels \cup SubmitLabels \cup StopLabels]
  BY <1>2 DEF IInv, LabelsOK, PoolTyped, WorkerLabels, SubmitLabels
<1>6. \A u \in Threads :
        \/ u = s /\ pc'[u] = (IF s \in Submitters THEN "accepted" ELSE "join")
        \/ u \in Workers /\ pc[u] = "asleep" /\ pc'[u] = "lock"
        \/ u # s /\ pc'[u] = pc[u]
  BY <1>4
<1>7. s \in Threads
  OBVIOUS
<1> HIDE DEF Threads
<1> QED BY <1>1, <1>3, <1>5, <1>6, <1>7, WakeIInv

\* notify_all moves the stopper and every sleeping worker.
LEMMA NotifyAllIInv == ASSUME IInv, NEW t \in Stoppers, NotifyAll(t) PROVE IInv'
<1> USE ThreadAssumption DEF Threads
<1>1. /\ stopped' = stopped /\ dropped' = dropped /\ completed' = completed
      /\ mu' = mu /\ UNCHANGED <<q, task, ran>> /\ pc[t] = "notify_all"
  BY DEF NotifyAll
<1>2. \A u \in Threads :
        \/ u = t /\ pc'[u] = (IF t \in Submitters THEN "accepted" ELSE "join")
        \/ u \in Workers /\ pc[u] = "asleep" /\ pc'[u] = "lock"
        \/ u # t /\ pc'[u] = pc[u]
  BY DEF NotifyAll, Asleep
<1>3. pc' \in [Threads -> WorkerLabels \cup SubmitLabels \cup StopLabels]
  BY DEF NotifyAll, IInv, LabelsOK, WorkerLabels, StopLabels
<1>4. t \in Threads
  OBVIOUS
<1> HIDE DEF Threads
<1> QED BY <1>1, <1>2, <1>3, <1>4, WakeIInv

\* A worker takes the head of the queue: the task changes place.
LEMMA TakeIInv == ASSUME IInv, NEW w \in Workers, Take(w) PROVE IInv'
<1> USE ThreadAssumption DEF Threads
<1>1. /\ stopped' = stopped /\ dropped' = dropped /\ completed' = completed
      /\ ran' = ran /\ mu' = Nobody /\ pc[w] = "take"
  BY DEF Take
<1>2. stopped' \in BOOLEAN /\ (stopped <=> stopped')
  BY <1>1, Zenon DEF IInv, PoolTyped
<1>3. q \in Seq(Submitters) /\ q # <<>> /\ Len(q) \in Nat
  <2>1. q # <<>>
    BY <1>1, Zenon DEF Take, MayExit, IInv, LocalOK
  <2> QED BY <2>1 DEF IInv, PoolTyped
<1>4. PICK h \in Submitters : h = q[1] /\ task' = [task EXCEPT ![w] = h]
  <2>1. Head(q) = q[1] /\ q[1] \in Submitters
    BY <1>3
  <2> QED BY <2>1, ZenonT(60) DEF Take
<1>5. /\ q' \in Seq(Submitters) /\ Len(q') = Len(q) - 1
      /\ \A i \in 1..Len(q') : q'[i] = q[i + 1]
  BY <1>3 DEF Take, Popped
<1>6. \A u \in Threads : pc'[u] = IF u = w THEN "run" ELSE pc[u]
  BY DEF Take, Goto, IInv, PoolTyped
<1>7. \A v \in Workers : task'[v] = IF v = w THEN h ELSE task[v]
  BY <1>4 DEF IInv, PoolTyped
<1>8. \A v \in Workers : pc[v] # "exit"
  BY <1>3 DEF IInv, NoneAbandoned
<1>9. mu = w /\ \A u \in Threads \ {w} : pc[u] \notin {"block", "take", "push"}
  BY <1>1, ZenonT(60) DEF IInv, MutexOK
<1>10. PoolTyped'
  <2>1. pc' \in [Threads -> {"lock", "block", "asleep", "take", "run", "exit",
                             "idle", "push", "notify", "accepted", "refused",
                             "notify_all", "join", "joined", "returned"}]
    BY DEF Take, Goto, IInv, PoolTyped
  <2>2. Len(q') <= queue_cap
    BY <1>3, <1>5, CapAssumption DEF IInv, PoolTyped
  <2>3. task' \in [Workers -> Submitters \cup {Nobody}]
    BY <1>4 DEF IInv, PoolTyped
  <2> QED BY <1>1, <1>2, <1>5, <2>1, <2>2, <2>3, ZenonT(60) DEF IInv, PoolTyped
<1>11. LabelsOK'
  BY <1>6 DEF IInv, LabelsOK, WorkerLabels
<1>12. MutexOK'
  BY <1>1, <1>6, <1>9, ZenonT(60) DEF MutexOK
<1>13. LocalOK'
  <2>1. (\A v \in Workers : task[v] # Nobody <=> pc[v] = "run")'
    BY <1>4, <1>6, <1>7, ZenonT(60) DEF IInv, LocalOK
  <2>2. (\A s \in Stoppers : pc[s] = "joined" =>
           \A v \in Workers : pc[v] = "exit")'
    BY <1>6, <1>8 DEF IInv, LocalOK
  <2> QED BY <1>6, <1>9, <2>1, <2>2, ZenonT(60) DEF LocalOK
<1>14. NoneAbandoned'
  BY <1>6, <1>8, ZenonT(60) DEF NoneAbandoned
<1>15. TaskOnce'
  <2>1. \A i \in 2..Len(q) : q[i] # h
    BY <1>3, <1>4, SMTT(60) DEF IInv, TaskOnce
  <2>2. \A s \in Submitters : Queued(s) <=> Queued(s)' \/ s = h
    <3> TAKE s \in Submitters
    <3>1. ASSUME NEW i \in 1..Len(q), q[i] = s PROVE Queued(s)' \/ s = h
      <4>1. CASE i = 1
        BY <1>4, <3>1, <4>1
      <4>2. CASE i # 1
        <5>1. i - 1 \in 1..Len(q') /\ q'[i - 1] = s
          BY <1>3, <1>5, <3>1, <4>2
        <5> QED BY <5>1 DEF Queued
      <4> QED BY <4>1, <4>2
    <3>2. ASSUME NEW i \in 1..Len(q'), q'[i] = s PROVE Queued(s)
      <4>1. i + 1 \in 1..Len(q) /\ q[i + 1] = s
        BY <1>3, <1>5, <3>2
      <4> QED BY <4>1 DEF Queued
    <3>3. 1 \in 1..Len(q)
      BY <1>3
    <3> QED BY <1>4, <3>1, <3>2, <3>3, SMTT(60) DEF Queued
  <2>3. ~Queued(h)'
    <3> SUFFICES ASSUME NEW i \in 1..Len(q'), q'[i] = h PROVE FALSE
      BY DEF Queued
    <3>1. i + 1 \in 2..Len(q)
      BY <1>3, <1>5
    <3> QED BY <1>5, <2>1, <3>1, ZenonT(60)
  <2>4. Queued(h)
    BY <1>4, <2>2, ZenonT(60)
  <2>5. \A v \in Workers : task[v] # h /\ task[w] = Nobody
    BY <1>1, <1>4, <2>4 DEF IInv, TaskOnce, Running, LocalOK
  <2>6. \A s \in Submitters : Running(s)' <=> Running(s) \/ s = h
    BY <1>4, <1>7, <2>5 DEF Running
  <2>7. \A s \in Submitters : Accepted(s)' <=> Accepted(s)
    BY <1>6, ZenonT(60) DEF Accepted
  <2>8. \A s \in Submitters :
          /\ ran'[s] <= 1
          /\ Accepted(s)' <=> Queued(s)' \/ Running(s)' \/ ran'[s] = 1
          /\ Queued(s)' => ~Running(s)' /\ ran'[s] = 0
          /\ Running(s)' => ran'[s] = 0
    BY <1>1, <2>2, <2>3, <2>4, <2>6, <2>7, ZenonT(60) DEF IInv, TaskOnce
  <2>9. \A i, j \in 1..Len(q') : q'[i] = q'[j] => i = j
    <3> TAKE i, j \in 1..Len(q')
    <3>1. i + 1 \in 1..Len(q) /\ j + 1 \in 1..Len(q)
      BY <1>3, <1>5
    <3> QED BY <1>5, <3>1, SMTT(60) DEF IInv, TaskOnce
  <2>10. \A u, v \in Workers : task'[u] = task'[v] /\ task'[u] # Nobody => u = v
    BY <1>4, <1>7, <2>5 DEF IInv, TaskOnce
  <2> QED BY <2>8, <2>9, <2>10 DEF TaskOnce, Queued, Running, Accepted
<1> QED BY <1>10, <1>11, <1>12, <1>13, <1>14, <1>15, SMTT(60) DEF IInv

\* A worker finishes its task.
LEMMA RunIInv == ASSUME IInv, NEW w \in Workers, Run(w) PROVE IInv'
<1> USE ThreadAssumption DEF Threads
<1>1. /\ stopped' = stopped /\ dropped' = dropped /\ completed' = completed + 1
      /\ q' = q /\ mu' = mu /\ pc[w] = "run"
  BY DEF Run
<1>2. stopped' \in BOOLEAN /\ (stopped <=> stopped')
  BY <1>1, Zenon DEF IInv, PoolTyped
<1>3. PICK h \in Submitters : h = task[w]
  BY <1>1 DEF IInv, PoolTyped, LocalOK
<1>4. /\ \A v \in Workers : task'[v] = IF v = w THEN Nobody ELSE task[v]
      /\ \A s \in Submitters : ran'[s] = IF s = h THEN ran[h] + 1 ELSE ran[s]
  BY <1>3 DEF Run, IInv, PoolTyped
<1>5. \A u \in Threads : pc'[u] = IF u = w THEN "lock" ELSE pc[u]
  BY ZenonT(60) DEF Run, Goto, IInv, PoolTyped
<1>6. PoolTyped'
  <2>1. pc' \in [Threads -> {"lock", "block", "asleep", "take", "run", "exit",
                             "idle", "push", "notify", "accepted", "refused",
                             "notify_all", "join", "joined", "returned"}]
    BY DEF Run, Goto, IInv, PoolTyped
  <2>2. task' \in [Workers -> Submitters \cup {Nobody}]
    BY DEF Run, IInv, PoolTyped
  <2>3. ran' \in [Submitters -> Nat]
    BY <1>3, SMTT(60) DEF Run, IInv, PoolTyped
  <2> QED BY <1>1, <1>2, <2>1, <2>2, <2>3, SMTT(60) DEF IInv, PoolTyped
<1>7. LabelsOK' /\ MutexOK'
  BY <1>1, <1>5, ZenonT(60) DEF IInv, LabelsOK, MutexOK, WorkerLabels
<1>8. LocalOK'
  <2>1. (\A v \in Workers : task[v] # Nobody <=> pc[v] = "run")'
    BY <1>4, <1>5, ZenonT(60) DEF IInv, LocalOK
  <2>2. (\A s \in Stoppers : pc[s] = "joined" =>
           \A v \in Workers : pc[v] = "exit")'
    BY <1>1, <1>5, ZenonT(60) DEF IInv, LocalOK
  <2>3. (\A v \in Workers : pc[v] = "take" => stopped \/ q # <<>>)'
    BY <1>1, <1>2, <1>5, ZenonT(60) DEF IInv, LocalOK
  <2>4. (\A s \in Submitters : pc[s] = "push" => Len(q) < queue_cap)'
    BY <1>1, <1>5, ZenonT(60) DEF IInv, LocalOK
  <2> QED BY <2>1, <2>2, <2>3, <2>4, ZenonT(60) DEF LocalOK
<1>9. NoneAbandoned'
  BY <1>1, <1>2, <1>5, ZenonT(60) DEF IInv, NoneAbandoned
<1>10. TaskOnce'
  <2>1. Running(h) /\ ran[h] = 0 /\ ~Queued(h)
    BY <1>3, ZenonT(60) DEF IInv, TaskOnce, Running
  <2>2. \A s \in Submitters : Running(s)' <=> Running(s) /\ s # h
    BY <1>3, <1>4, SMTT(60) DEF IInv, TaskOnce, Running
  <2>3. \A s \in Submitters : /\ Accepted(s)' <=> Accepted(s)
                              /\ Queued(s)' <=> Queued(s)
    BY <1>1, <1>5, ZenonT(60) DEF Accepted, Queued
  <2>4. \A s \in Submitters :
          /\ ran'[s] <= 1
          /\ Accepted(s)' <=> Queued(s)' \/ Running(s)' \/ ran'[s] = 1
          /\ Queued(s)' => ~Running(s)' /\ ran'[s] = 0
          /\ Running(s)' => ran'[s] = 0
    <3>1. \A s \in Submitters :
            /\ ran[s] <= 1
            /\ Accepted(s) <=> Queued(s) \/ Running(s) \/ ran[s] = 1
            /\ Queued(s) => ~Running(s) /\ ran[s] = 0
            /\ Running(s) => ran[s] = 0
      BY ZenonT(60) DEF IInv, TaskOnce
    <3> QED BY <1>3, <1>4, <2>1, <2>2, <2>3, <3>1, SMTT(60)
  <2>5. \A u, v \in Workers : task'[u] = task'[v] /\ task'[u] # Nobody => u = v
    BY <1>4, ZenonT(60) DEF IInv, TaskOnce
  <2>6. \A i, j \in 1..Len(q') : q'[i] = q'[j] => i = j
    BY <1>1, ZenonT(60) DEF IInv, TaskOnce
  <2> QED BY <2>4, <2>5, <2>6, ZenonT(60) DEF TaskOnce, Queued, Running, Accepted
<1> QED BY <1>6, <1>7, <1>8, <1>9, <1>10, ZenonT(60) DEF IInv

\* A submitter queues its task: the queue has room, and no worker has left.
LEMMA PushIInv == ASSUME IInv, NEW s \in Submitters, Push(s) PROVE IInv'
<1> USE ThreadAssumption DEF Threads
<1>1. /\ stopped' = stopped /\ dropped' = dropped /\ completed' = completed
      /\ task' = task /\ ran' = ran /\ mu' = Nobody /\ pc[s] = "push"
  BY DEF Push
<1>2. stopped' \in BOOLEAN /\ (stopped <=> stopped')
  BY <1>1, Zenon DEF IInv, PoolTyped
<1>3. q \in Seq(Submitters) /\ Len(q) \in Nat
  BY DEF IInv, PoolTyped
<1>4. /\ q' \in Seq(Submitters) /\ Len(q') = Len(q) + 1 /\ q' # <<>>
      /\ \A i \in 1..Len(q) : q'[i] = q[i]
      /\ q'[Len(q) + 1] = s
  BY <1>3 DEF Push
<1>5. \A u \in Threads : pc'[u] = IF u = s THEN "notify" ELSE pc[u]
  BY DEF Push, Goto, IInv, PoolTyped
<1>6. mu = s /\ \A u \in Threads \ {s} : pc[u] \notin {"block", "take", "push"}
  BY <1>1 DEF IInv, MutexOK
<1>7. \A w \in Workers : pc[w] # "exit"
  BY <1>1, ZenonT(60) DEF IInv, NoneAbandoned
<1>8. PoolTyped'
  <2>1. pc' \in [Threads -> {"lock", "block", "asleep", "take", "run", "exit",
                             "idle", "push", "notify", "accepted", "refused",
                             "notify_all", "join", "joined", "returned"}]
    BY ZenonT(60) DEF Push, Goto, IInv, PoolTyped
  <2>2. Len(q') <= queue_cap
    BY <1>1, <1>3, <1>4, CapAssumption, SMTT(60) DEF IInv, LocalOK
  <2> QED BY <1>1, <1>2, <1>4, <2>1, <2>2, ZenonT(60) DEF IInv, PoolTyped
<1>9. LabelsOK'
  BY <1>5, ZenonT(60) DEF IInv, LabelsOK, SubmitLabels
<1>10. MutexOK'
  BY <1>1, <1>5, <1>6, ZenonT(60) DEF MutexOK
<1>11. LocalOK'
  BY <1>1, <1>5, <1>6, ZenonT(60) DEF IInv, LocalOK
<1>12. NoneAbandoned'
  BY <1>5, <1>7, ZenonT(60) DEF NoneAbandoned
<1>13. TaskOnce'
  <2>1. ~Accepted(s) /\ Accepted(s)'
    BY <1>1, <1>5, ZenonT(60) DEF Accepted
  <2>2. ~Queued(s) /\ ~Running(s) /\ ran[s] = 0
    BY <2>1 DEF IInv, TaskOnce, PoolTyped
  <2>3. \A u \in Submitters : Queued(u)' <=> Queued(u) \/ u = s
    <3> TAKE u \in Submitters
    <3>1. \A i \in 1..Len(q') : i \in 1..Len(q) \/ i = Len(q) + 1
      BY <1>3, <1>4
    <3>2. \A i \in 1..Len(q) : i \in 1..Len(q')
      BY <1>3, <1>4
    <3>3. Len(q) + 1 \in 1..Len(q')
      BY <1>3, <1>4, SMTT(60)
    <3> QED BY <1>4, <3>1, <3>2, <3>3 DEF Queued
  <2>4. \A u \in Submitters : /\ Accepted(u)' <=> Accepted(u) \/ u = s
                              /\ Running(u)' <=> Running(u)
    BY <1>1, <1>5, <2>1, ZenonT(60) DEF Accepted, Running
  <2>5. \A u \in Submitters :
          /\ ran'[u] <= 1
          /\ Accepted(u)' <=> Queued(u)' \/ Running(u)' \/ ran'[u] = 1
          /\ Queued(u)' => ~Running(u)' /\ ran'[u] = 0
          /\ Running(u)' => ran'[u] = 0
    BY <1>1, <2>2, <2>3, <2>4, ZenonT(60) DEF IInv, TaskOnce
  <2>6. \A i, j \in 1..Len(q') : q'[i] = q'[j] => i = j
    <3>1. \A i \in 1..Len(q) : q[i] # s
      BY <2>2, ZenonT(60) DEF Queued
    <3> QED BY <1>3, <1>4, <3>1, SMTT(60) DEF IInv, TaskOnce
  <2>7. \A u, v \in Workers : task'[u] = task'[v] /\ task'[u] # Nobody => u = v
    BY <1>1 DEF IInv, TaskOnce
  <2> QED BY <2>5, <2>6, <2>7, ZenonT(60) DEF TaskOnce, Queued, Running, Accepted
<1> QED BY <1>8, <1>9, <1>10, <1>11, <1>12, <1>13 DEF IInv

\* Every step, and every stuttering step, preserves the inductive invariant.
LEMMA StepIInv == IInv /\ [PoolNext]_poolvars => IInv'
<1> SUFFICES ASSUME IInv, [PoolNext]_poolvars PROVE IInv'
  BY ZenonT(60)
<1>1. CASE UNCHANGED poolvars
  BY <1>1, SMTT(60) DEF poolvars, IInv, PoolTyped, LabelsOK, MutexOK, LocalOK, NoneAbandoned,
     TaskOnce, Accepted, Queued, Running
<1>2. CASE PoolNext
  BY <1>2, WorkerMovesIInv, TakeIInv, RunIInv, SubmitMovesIInv, PushIInv,
     NotifyOneIInv, StopMovesIInv, NotifyAllIInv
  DEF PoolNext, WorkerStep, SubmitStep, StopStep
<1> QED BY <1>1, <1>2

\* For any number of threads and any queue capacity, thread_pool.cpp keeps its
\* types, never leaves an accepted task behind, and runs none twice.
THEOREM TasksSafe == PoolSpec => [](PoolTyped /\ NoneAbandoned /\ TaskOnce)
<1>1. IInv => PoolTyped /\ NoneAbandoned /\ TaskOnce
  BY DEF IInv
<1> QED BY InitIInv, StepIInv, <1>1, PTL DEF PoolSpec

\* When a stop() has joined the workers, every accepted task has run.
THEOREM Drained == PoolSpec => []StopDrains
<1>1. IInv => StopDrains
  <2> SUFFICES ASSUME IInv, NEW t \in Stoppers, pc[t] = "joined",
                      NEW s \in Submitters, Accepted(s)
               PROVE  ran[s] = 1
    BY SMTT(60) DEF StopDrains
  <2>1. \A w \in Workers : pc[w] = "exit"
    BY SMTT(60) DEF IInv, LocalOK
  <2>2. q = <<>>
    BY <2>1, ThreadAssumption DEF IInv, NoneAbandoned
  <2>3. ~Queued(s)
    BY <2>2, SMTT(60) DEF Queued
  <2>4. ~Running(s)
    BY <2>1, ThreadAssumption DEF Running, IInv, LocalOK
  <2> QED BY <2>3, <2>4 DEF IInv, TaskOnce
<1> QED BY InitIInv, StepIInv, <1>1, PTL DEF PoolSpec

-------------------------------------------------------------------------------
GuardInv == TypeOK /\ WindowExact /\ HighestIsMax /\ WordsExact

\* A distance inside the window is its own position: the mask of index_of
\* changes nothing on the calls the guard makes.
LEMMA IndexInWindow ==
    ASSUME NEW high \in Nat, NEW seq \in Nat, seq <= high, high - seq < kWindow
    PROVE  index_of(seq, high) = high - seq
<1>1. high - seq \in Nat /\ kWindow \in Nat \ {0}
  BY WindowAssumption
<1>2. ASSUME NEW x \in Nat, NEW k \in Nat \ {0}, x < k PROVE x % k = x
  BY <1>2
<1> QED BY <1>1, <1>2 DEF index_of

\* Division with remainder, and that it is unique.
LEMMA DivMod ==
    ASSUME NEW w \in Nat \ {0}, NEW p \in Int
    PROVE  /\ p \div w \in Int /\ p % w \in 0..w - 1 /\ p = (p \div w) * w + (p % w)
           /\ \A i \in Int, b \in 0..w - 1 :
                  p = i * w + b => p \div w = i /\ p % w = b
<1> DEFINE d == p \div w
           r == p % w
<1>1. d \in Int /\ r \in 0..w - 1 /\ p = d * w + r
  OBVIOUS
<1>2. ASSUME NEW x \in Int, NEW y \in Int, x > y PROVE x * w - y * w >= w
  <2>1. x - y - 1 \in Nat
    BY <1>2
  <2>2. (x - y - 1) * w \in Nat
    BY <2>1
  <2>3. (x - y - 1) * w = x * w - y * w - w
    OBVIOUS
  <2> QED BY <2>2, <2>3
<1> HIDE DEF d, r
<1>3. ASSUME NEW i \in Int, NEW b \in 0..w - 1, p = i * w + b
      PROVE  d = i /\ r = b
  <2>1. d * w - i * w = b - r
    BY <1>1, <1>3
  <2>2. ~(d > i) /\ ~(i > d)
    BY <1>1, <1>2, <2>1
  <2> QED BY <1>1, <2>1, <2>2
<1> QED BY <1>1, <1>3 DEF d, r

\* The word and the bit of a position.
LEMMA WordOf ==
    ASSUME NEW p \in Positions
    PROVE  /\ p \div WordBits \in Words /\ p % WordBits \in Bits
           /\ p = (p \div WordBits) * WordBits + (p % WordBits)
<1> DEFINE n == kWindow \div WordBits
           i == p \div WordBits
<1>1. /\ WordBits \in Nat \ {0} /\ kWindow \in Nat \ {0}
      /\ kWindow = n * WordBits + (kWindow % WordBits)
      /\ n \in Int /\ i \in Int
  BY WordAssumption, WindowAssumption, DivMod DEF Positions
<1>2. kWindow = n * WordBits
  BY <1>1, WordAssumption
<1>3. /\ p = i * WordBits + (p % WordBits)
      /\ p % WordBits \in 0..WordBits - 1 /\ p \in Int /\ 0 <= p /\ p < kWindow
  BY <1>1, WindowAssumption, DivMod DEF Positions
<1> HIDE DEF n, i
<1>4. i >= 0
  <2>1. ASSUME i < 0 PROVE i * WordBits <= 0 - WordBits
    <3>1. 0 - 1 - i \in Nat
      BY <1>1, <2>1
    <3>2. (0 - 1 - i) * WordBits \in Nat
      BY <1>1, <3>1
    <3>3. (0 - 1 - i) * WordBits = 0 - WordBits - i * WordBits
      BY <1>1
    <3> QED BY <1>1, <3>2, <3>3
  <2> QED BY <1>1, <1>3, <2>1
<1>5. i < n
  <2>1. ASSUME i >= n PROVE i * WordBits >= n * WordBits
    <3>1. i - n \in Nat
      BY <1>1, <2>1
    <3>2. (i - n) * WordBits \in Nat
      BY <1>1, <3>1
    <3>3. (i - n) * WordBits = i * WordBits - n * WordBits
      BY <1>1
    <3> QED BY <1>1, <3>2, <3>3
  <2> QED BY <1>1, <1>2, <1>3, <2>1
<1> QED BY <1>1, <1>3, <1>4, <1>5 DEF Words, Bits, n, i

\* The two shifts of advance_to do to the words what the shift by the whole distance
\* does to the bitmap.
LEMMA ShiftMirrors ==
    ASSUME NEW w \in [Words -> SUBSET Bits], NEW bm \in SUBSET Positions,
           Mirrors(w, bm), NEW shift \in Nat
    PROVE  /\ advance_words(w, shift) \in [Words -> SUBSET Bits]
           /\ Mirrors(advance_words(w, shift), advance_to(bm, shift))
<1> DEFINE ws == shift \div WordBits
           bs == shift % WordBits
           w1 == IF ws > 0 THEN shift_words(w, ws) ELSE w
           w2 == IF bs > 0 THEN shift_bits(w1, bs) ELSE w1
<1>1. /\ WordBits \in Nat \ {0} /\ kWindow \in Nat \ {0}
      /\ ws \in Nat /\ bs \in 0..WordBits - 1 /\ shift = ws * WordBits + bs
  <2>1. WordBits \in Nat \ {0} /\ kWindow \in Nat \ {0}
    BY WordAssumption, WindowAssumption
  <2>2. ASSUME NEW k \in Nat \ {0}
        PROVE  /\ shift \div k \in Nat /\ shift % k \in 0..k - 1
               /\ shift = (shift \div k) * k + (shift % k)
    <3>1. /\ shift \div k \in Int /\ shift % k \in 0..k - 1
          /\ shift = (shift \div k) * k + (shift % k)
      OBVIOUS
    <3>2. shift \div k >= 0
      OBVIOUS
    <3> QED BY <3>1, <3>2
  <2> QED BY <2>1, <2>2, ZenonT(60)
<1>2. CASE shift >= kWindow
  <2>1. advance_words(w, shift) = NoBits /\ advance_to(bm, shift) = {}
    BY <1>2 DEF advance_words, advance_to
  <2> QED BY <2>1, WordOf DEF NoBits, Mirrors
<1>3. CASE ~(shift >= kWindow)
  <2>1. advance_words(w, shift) = w2
    BY <1>3 DEF advance_words
  <2>2. \A p : p \in advance_to(bm, shift) <=> p \in Positions /\ p - shift \in bm
    BY <1>3 DEF advance_to
  <2> HIDE DEF ws, bs
  <2>3. /\ w1 \in [Words -> SUBSET Bits]
        /\ \A i \in Words : w1[i] = IF i - ws >= 0 THEN w[i - ws] ELSE {}
    <3>1. CASE ws > 0
      BY <1>1, <3>1 DEF shift_words, Words
    <3>2. CASE ws = 0
      BY <1>1, <3>2 DEF Words
    <3> QED BY <1>1, <3>1, <3>2
  <2> HIDE DEF w1
  <2>4. /\ w2 \in [Words -> SUBSET Bits]
        /\ \A i \in Words : w2[i] =
              {b \in Bits : b - bs \in w1[i]} \cup
              (IF i > 0 THEN {b \in Bits : b + WordBits - bs \in w1[i - 1]} ELSE {})
    <3>1. CASE bs > 0
      BY <1>1, <2>3, <3>1 DEF shift_bits
    <3>2. CASE bs = 0
      <4>1. \A i \in Words, b \in Bits : b + WordBits - bs \notin Bits /\ b - bs = b
        BY <1>1, <3>2 DEF Bits
      <4>2. \A i \in Words : i > 0 => i - 1 \in Words
        BY <1>1 DEF Words
      <4> QED BY <1>1, <2>3, <3>2, <4>1, <4>2
    <3> QED BY <1>1, <3>1, <3>2
  <2> HIDE DEF w2
  <2>5. ASSUME NEW p \in Positions
        PROVE  p - shift \in bm <=> p % WordBits \in w2[p \div WordBits]
    <3> DEFINE i == p \div WordBits
               b == p % WordBits
    <3>1. i \in Words /\ b \in Bits /\ p = i * WordBits + b
      BY WordOf
    <3>2. /\ i \in Nat /\ b \in 0..WordBits - 1 /\ bs \in 0..WordBits - 1 /\ ws \in Nat
          /\ shift = ws * WordBits + bs /\ WordBits \in Nat \ {0} /\ p \in Nat
      BY <1>1, <3>1 DEF Words, Bits, Positions
    <3> SUFFICES p - shift \in bm <=> b \in w2[i]
      OBVIOUS
    <3> HIDE DEF i, b
    <3>3. ASSUME NEW j \in Int, NEW c \in 0..WordBits - 1, p - shift = j * WordBits + c
          PROVE  p - shift \in bm <=> j >= 0 /\ c \in w[j]
      <4>1. (p - shift) \div WordBits = j /\ (p - shift) % WordBits = c
        <5> DEFINE d == p - shift
        <5>1. d \in Int /\ d = j * WordBits + c
          BY <3>2, <3>3
        <5> HIDE DEF d
        <5>2. d \div WordBits = j /\ d % WordBits = c
          BY <5>1, <3>2, <3>3, DivMod, ZenonT(60)
        <5> QED BY <5>2 DEF d
      <4>2. CASE j >= 0
        <5>1. j * WordBits \in Nat
          BY <3>2, <4>2
        <5>2. p - shift >= 0
          BY <3>2, <3>3, <5>1
        <5>3. p - shift \in Positions
          BY <1>1, <3>2, <5>2 DEF Positions
        <5> QED BY <4>1, <4>2, <5>3 DEF Mirrors
      <4>3. CASE j < 0
        <5>1. (0 - 1 - j) * WordBits \in Nat
          BY <3>2, <4>3
        <5>2. (0 - 1 - j) * WordBits = 0 - WordBits - j * WordBits
          BY <3>2
        <5>3. p - shift < 0
          BY <3>2, <3>3, <5>1, <5>2, SMTT(60)
        <5> QED BY <4>3, <5>3 DEF Positions
      <4> QED BY <4>2, <4>3
    <3>4. i > 0 => i - 1 \in Words
      <4>1. kWindow \div WordBits \in Int
        BY <1>1, DivMod
      <4> QED BY <3>1, <3>2, <4>1, SMTT(60) DEF Words
    <3>5. CASE b >= bs
      <4>1. p - shift = (i - ws) * WordBits + (b - bs)
        BY <3>1, <3>2
      <4>2. b - bs \in 0..WordBits - 1 /\ i - ws \in Int
        BY <3>2, <3>5
      <4>3. p - shift \in bm <=> i - ws >= 0 /\ b - bs \in w[i - ws]
        BY <3>3, <4>1, <4>2, SMTT(60)
      <4>4. b + WordBits - bs \notin Bits
        BY <3>2, <3>5, SMTT(60) DEF Bits
      <4>5. b \in w2[i] <=> b - bs \in w1[i]
        BY <2>3, <2>4, <3>1, <3>4, <4>4, ZenonT(60)
      <4> QED BY <2>3, <3>1, <4>3, <4>5, ZenonT(60)
    <3>6. CASE b < bs
      <4>1. p - shift = (i - ws - 1) * WordBits + (b + WordBits - bs)
        BY <3>1, <3>2
      <4>2. b + WordBits - bs \in 0..WordBits - 1 /\ i - ws - 1 \in Int
        BY <3>2, <3>6
      <4>3. p - shift \in bm <=> i - ws - 1 >= 0 /\ b + WordBits - bs \in w[i - ws - 1]
        BY <3>3, <4>1, <4>2, ZenonT(60)
      <4>4. b - bs \notin Bits
        BY <3>2, <3>6, SMTT(60) DEF Bits
      <4>5. b \in w2[i] <=> i > 0 /\ b + WordBits - bs \in w1[i - 1]
        BY <2>3, <2>4, <3>1, <3>4, <4>4, ZenonT(60)
      <4>6. i - 1 - ws = i - ws - 1 /\ (i - ws - 1 >= 0 => i > 0)
        BY <3>2
      <4> QED BY <2>3, <3>4, <4>3, <4>5, <4>6, ZenonT(60)
    <3>7. b >= bs \/ b < bs
      BY <3>2
    <3> QED BY <3>5, <3>6, <3>7
  <2> QED BY <2>1, <2>2, <2>4, <2>5 DEF Mirrors
<1> QED BY <1>2, <1>3

\* Setting a bit of a word sets that position.
LEMMA SetMirrors ==
    ASSUME NEW w \in [Words -> SUBSET Bits], NEW bm \in SUBSET Positions,
           Mirrors(w, bm), NEW idx \in Positions
    PROVE  /\ set_word_bit(w, idx) \in [Words -> SUBSET Bits]
           /\ Mirrors(set_word_bit(w, idx), bm \cup {idx})
<1>1. idx \div WordBits \in Words /\ idx % WordBits \in Bits
  BY WordOf
<1>2. ASSUME NEW p \in Positions
      PROVE  /\ p \div WordBits \in Words
             /\ p \div WordBits = idx \div WordBits /\ p % WordBits = idx % WordBits => p = idx
  BY WordOf
<1>3. set_word_bit(w, idx) \in [Words -> SUBSET Bits]
  BY <1>1 DEF set_word_bit
<1>4. ASSUME NEW i \in Words, NEW b
      PROVE  b \in set_word_bit(w, idx)[i] <=>
                b \in w[i] \/ (i = idx \div WordBits /\ b = idx % WordBits)
  BY <1>1 DEF set_word_bit
<1> QED BY <1>2, <1>3, <1>4 DEF Mirrors

\* The guard starts in it.
LEMMA InitGuard == Init => GuardInv
<1> SUFFICES ASSUME Init PROVE GuardInv
  OBVIOUS
<1>1. words \in [Words -> SUBSET Bits] /\ WordsExact
  BY WordOf DEF Init, NoBits, WordsExact, Mirrors
<1> QED BY <1>1, WindowAssumption, SeqAssumption, CallsAssumption
        DEF Init, GuardInv, TypeOK, WindowExact, HighestIsMax, Positions

\* One call of check_and_update or reset preserves the inductive invariant.
LEMMA StepGuard == GuardInv /\ [Next]_vars => GuardInv'
<1> SUFFICES ASSUME GuardInv, [Next]_vars PROVE GuardInv'
  OBVIOUS
<1> USE WindowAssumption, SeqAssumption, CallsAssumption DEF GuardInv, Positions, too_old
<1>1. CASE reset
  <2>1. words' \in [Words -> SUBSET Bits] /\ WordsExact'
    BY <1>1, WordOf DEF reset, NoBits, WordsExact, Mirrors
  <2> QED BY <1>1, <2>1 DEF reset, TypeOK, WindowExact, HighestIsMax
<1>2. ASSUME NEW seq \in 0..MaxSeq, seq # 0, CallsLeft, AcceptAbove(seq)
      PROVE  GuardInv'
  <2>1. index_of(seq, seq) = 0
    BY IndexInWindow
  <2>2. bitmap' = advance_to(bitmap, seq - highest) \cup {0}
    BY <1>2, <2>1, ZenonT(60) DEF AcceptAbove, set_bit
  <2>w. words' \in [Words -> SUBSET Bits] /\ WordsExact'
    <3> DEFINE w == advance_words(words, seq - highest)
               bm == advance_to(bitmap, seq - highest)
    <3>1. /\ words \in [Words -> SUBSET Bits] /\ bitmap \in SUBSET Positions
          /\ Mirrors(words, bitmap) /\ seq - highest \in Nat /\ 0 \in Positions
      BY <1>2 DEF AcceptAbove, TypeOK, WordsExact
    <3>2. w \in [Words -> SUBSET Bits] /\ Mirrors(w, bm)
      BY <3>1, ShiftMirrors
    <3>3. bm \in SUBSET Positions
      BY DEF advance_to
    <3>4. words' = set_word_bit(w, 0)
      BY <1>2, <2>1 DEF AcceptAbove
    <3> HIDE DEF w, bm
    <3>5. words' \in [Words -> SUBSET Bits] /\ Mirrors(words', bm \cup {0})
      BY <3>1, <3>2, <3>3, <3>4, SetMirrors, ZenonT(60)
    <3> QED BY <2>2, <3>5, ZenonT(60) DEF WordsExact, Mirrors, bm
  <2>3. TypeOK'
    <3>1. bitmap' \subseteq Positions
      BY <2>2 DEF advance_to, Positions
    <3>2. /\ highest' \in 0..MaxSeq /\ seen' \subseteq 1..MaxSeq
          /\ accepted' \in 0..MaxCalls
          /\ UNCHANGED <<rejected_replay, rejected_too_old>>
      BY <1>2 DEF AcceptAbove, Accept, CallsLeft, TypeOK
    <3> QED BY <2>w, <3>1, <3>2 DEF TypeOK
  <2>4. WindowExact'
    <3> SUFFICES ASSUME NEW p \in Positions
                 PROVE  p \in bitmap' <=> highest' - p \in seen'
      BY DEF WindowExact
    <3>1. highest' = seq /\ seen' = seen \cup {seq} /\ seq \notin seen
      BY <1>2 DEF AcceptAbove, Accept, HighestIsMax, TypeOK
    <3>2. CASE p = 0
      BY <3>1, <3>2, <2>2 DEF TypeOK
    <3>3. CASE p # 0 /\ seq - highest >= kWindow
      BY <3>1, <3>3, <2>2 DEF TypeOK, HighestIsMax, advance_to
    <3>4. CASE p # 0 /\ seq - highest < kWindow
      <4>1. p \in bitmap' <=> p - (seq - highest) \in bitmap
        BY <3>4, <2>2, <1>2, SMTT(60) DEF advance_to, TypeOK, AcceptAbove
      <4>2. CASE p - (seq - highest) \in Positions
        <5>1. highest - (p - (seq - highest)) = seq - p
          BY DEF TypeOK
        <5> QED BY <4>1, <4>2, <5>1, <3>1, <3>4, SMTT(60) DEF WindowExact, TypeOK
      <4>3. CASE p - (seq - highest) \notin Positions
        <5>1. seq - p > highest
          BY <4>3, <3>4, <1>2, SMTT(60) DEF TypeOK, AcceptAbove
        <5> QED BY <4>1, <4>3, <5>1, <3>1, <3>4, SMTT(60) DEF HighestIsMax, TypeOK
      <4> QED BY <4>2, <4>3, ZenonT(60)
    <3> QED BY <3>2, <3>3, <3>4 DEF TypeOK
  <2>5. HighestIsMax'
    BY <1>2, SMTT(60) DEF AcceptAbove, Accept, HighestIsMax, TypeOK
  <2> QED BY <2>3, <2>4, <2>5, <2>w, ZenonT(60)
<1>3. ASSUME NEW seq \in 0..MaxSeq, seq # 0, CallsLeft, AcceptWithin(seq)
      PROVE  GuardInv'
  <2>1. index_of(seq, highest) = highest - seq
    BY <1>3, IndexInWindow DEF AcceptWithin, TypeOK
  <2>2. words' \in [Words -> SUBSET Bits] /\ WordsExact'
    <3>1. /\ words \in [Words -> SUBSET Bits] /\ bitmap \in SUBSET Positions
          /\ Mirrors(words, bitmap) /\ highest - seq \in Positions
      BY <1>3 DEF AcceptWithin, TypeOK, WordsExact
    <3>2. /\ words' = set_word_bit(words, highest - seq)
          /\ bitmap' = bitmap \cup {highest - seq}
      BY <1>3, <2>1 DEF AcceptWithin, set_bit
    <3>3. words' \in [Words -> SUBSET Bits] /\ Mirrors(words', bitmap \cup {highest - seq})
      BY <3>1, <3>2, SetMirrors, ZenonT(60)
    <3> QED BY <3>2, <3>3 DEF WordsExact, Mirrors
  <2> QED
    BY <1>3, <2>1, <2>2, SMTT(60) DEF AcceptWithin, Accept, CallsLeft, set_bit, TypeOK,
                            WindowExact, HighestIsMax
<1>4. ASSUME NEW seq \in 0..MaxSeq, CallsLeft,
             RejectTooOld(seq) \/ RejectReplay(seq)
      PROVE  GuardInv'
  <2>1. UNCHANGED <<bitmap, words, highest, seen>>
    BY <1>4 DEF RejectTooOld, RejectReplay
  <2>2. /\ rejected_too_old' \in 0..MaxCalls
        /\ rejected_replay' \in 0..MaxCalls
        /\ accepted' \in 0..MaxCalls
    <3>1. CASE RejectTooOld(seq)
      BY <1>4, <3>1 DEF RejectTooOld, CallsLeft, TypeOK
    <3>2. CASE RejectReplay(seq)
      BY <1>4, <3>2, SMTT(60) DEF RejectReplay, CallsLeft, TypeOK
    <3> QED BY <1>4, <3>1, <3>2, ZenonT(60)
  <2> QED BY <2>1, <2>2 DEF TypeOK, WindowExact, HighestIsMax, WordsExact, Mirrors
<1>5. CASE UNCHANGED vars
  BY <1>5 DEF vars, TypeOK, WindowExact, HighestIsMax, WordsExact, Mirrors
<1> QED
  BY <1>1, <1>2, <1>3, <1>4, <1>5 DEF Next, check_and_update

\* The bitmap of replay_guard.hpp mirrors the accepted numbers inside the
\* window, and highest_ is the largest of them, after any calls.
THEOREM WindowCorrect == Spec => [](TypeOK /\ WindowExact /\ HighestIsMax /\ WordsExact)
<1>1. GuardInv => TypeOK /\ WindowExact /\ HighestIsMax /\ WordsExact
  BY DEF GuardInv
<1> QED BY InitGuard, StepGuard, <1>1, PTL DEF Spec

\* An acceptance is of a number that was not accepted before and that no
\* accepted number leaves a window or more behind.
LEMMA AcceptIsFresh ==
    ASSUME GuardInv, NEW seq \in 0..MaxSeq, seq # 0,
           AcceptAbove(seq) \/ AcceptWithin(seq)
    PROVE  /\ seq \in 1..MaxSeq
           /\ seq \notin seen
           /\ \A t \in seen : t - seq < kWindow
           /\ seen' = seen \cup {seq}
           /\ accepted' = accepted + 1
<1> USE WindowAssumption, SeqAssumption DEF GuardInv, TypeOK, HighestIsMax, too_old
<1>1. CASE AcceptAbove(seq)
  BY <1>1, SMTT(60) DEF AcceptAbove, Accept
<1>2. CASE AcceptWithin(seq)
  <2>1. index_of(seq, highest) = highest - seq
    BY <1>2, IndexInWindow, SMTT(60) DEF AcceptWithin
  <2>2. highest - seq \in Positions /\ highest - seq \notin bitmap
    BY <1>2, <2>1 DEF AcceptWithin, test_bit, Positions
  <2>3. highest - (highest - seq) = seq
    OBVIOUS
  <2>4. seq \notin seen
    BY <2>2, <2>3 DEF WindowExact
  <2> QED BY <1>2, <2>4, SMTT(60) DEF AcceptWithin, Accept
<1> QED BY <1>1, <1>2, ZenonT(60)

\* check_and_update never accepts one number twice between two resets: the
\* accept counter equals the number of distinct accepted numbers.
THEOREM NeverTwice == Spec => []AcceptedOnce
<1> DEFINE J == GuardInv /\ AcceptedOnce
<1>1. Init => J
  BY InitGuard, FS_EmptySet DEF Init, AcceptedOnce
<1>2. J /\ [Next]_vars => J'
  <2> SUFFICES ASSUME GuardInv, AcceptedOnce, [Next]_vars PROVE AcceptedOnce'
    BY StepGuard
  <2>1. IsFiniteSet(seen)
    <3>1. IsFiniteSet(1..MaxSeq) /\ seen \subseteq 1..MaxSeq
      BY FS_Interval, SeqAssumption DEF GuardInv, TypeOK
    <3> QED BY <3>1, FS_Subset, ZenonT(60)
  <2>2. ASSUME NEW seq \in 0..MaxSeq, seq # 0,
               AcceptAbove(seq) \/ AcceptWithin(seq)
        PROVE  AcceptedOnce'
    BY <2>1, <2>2, AcceptIsFresh, FS_AddElement, ZenonT(60) DEF AcceptedOnce
  <2>3. ASSUME NEW seq \in 0..MaxSeq, RejectTooOld(seq) \/ RejectReplay(seq)
        PROVE  AcceptedOnce'
    BY <2>3 DEF RejectTooOld, RejectReplay, AcceptedOnce
  <2>4. CASE reset
    BY <2>4, FS_EmptySet DEF reset, AcceptedOnce
  <2>5. CASE UNCHANGED vars
    BY <2>5 DEF vars, AcceptedOnce
  <2> QED BY <2>2, <2>3, <2>4, <2>5 DEF Next, check_and_update
<1> QED BY <1>1, <1>2, PTL DEF Spec

\* would_accept agrees with the reference definition of a fresh number that
\* the window covers.
THEOREM WouldAcceptCorrect == Spec => []WouldAcceptExact
<1>1. GuardInv => WouldAcceptExact
  <2> SUFFICES ASSUME GuardInv, NEW s \in 0..MaxSeq
               PROVE  would_accept(s) <=>
                        s # 0 /\ s \notin seen /\ highest - s < kWindow
    BY DEF WouldAcceptExact
  <2> USE WindowAssumption, SeqAssumption DEF GuardInv, TypeOK, too_old
  <2>1. CASE s > highest
    BY <2>1 DEF would_accept, HighestIsMax
  <2>2. CASE s <= highest /\ highest - s >= kWindow
    BY <2>2 DEF would_accept
  <2>3. CASE s <= highest /\ highest - s < kWindow
    <3>1. index_of(s, highest) = highest - s
      BY <2>3, IndexInWindow
    <3>2. highest - s \in Positions /\ highest - (highest - s) = s
      BY <2>3, SMTT(60) DEF Positions
    <3>3. test_bit(bitmap, s, highest) <=> s \in seen
      BY <3>1, <3>2 DEF test_bit, WindowExact
    <3> QED BY <2>3, <3>3 DEF would_accept
  <2> QED BY <2>1, <2>2, <2>3
<1> QED BY <1>1, InitGuard, StepGuard, PTL DEF Spec

\* The guard of replay_guard.hpp at both levels, for every window, word width and number
\* range: bitmap, words, counters and would_accept agree with the history.
THEOREM GuardCorrect == Spec => []GuardExact
BY WindowCorrect, NeverTwice, WouldAcceptCorrect, PTL DEF GuardExact

\* The guard implements AntiReplay: every acceptance is a delivery the
\* abstract filter allows, every other call is a stutter or a reset.
THEOREM GuardImplementsAntiReplay == Spec => ImplementsAntiReplay
<1>1. Init => AR!Init
  BY DEF Init, AR!Init
<1>2. GuardInv /\ [Next]_vars => [AR!Next]_seen
  <2> SUFFICES ASSUME GuardInv, [Next]_vars PROVE [AR!Next]_seen
    OBVIOUS
  <2>1. ASSUME NEW seq \in 0..MaxSeq, seq # 0,
               AcceptAbove(seq) \/ AcceptWithin(seq)
        PROVE  AR!Next
    BY <2>1, AcceptIsFresh DEF AR!Next, AR!Deliver
  <2>2. ASSUME NEW seq \in 0..MaxSeq, RejectTooOld(seq) \/ RejectReplay(seq)
        PROVE  UNCHANGED seen
    BY <2>2 DEF RejectTooOld, RejectReplay
  <2>3. CASE reset
    BY <2>3 DEF reset, AR!Next, AR!Reset
  <2>4. CASE UNCHANGED vars
    BY <2>4 DEF vars
  <2> QED BY <2>1, <2>2, <2>3, <2>4 DEF Next, check_and_update
<1> QED BY <1>1, <1>2, InitGuard, StepGuard, PTL
        DEF Spec, ImplementsAntiReplay, AR!Spec
===============================================================================
