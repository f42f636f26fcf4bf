---------------------------- MODULE SnapshotManager ---------------------------
(***************************************************************************)
(* snapshot_manager.cpp: the background loop and the controllers that call *)
(* start() and stop().  mu is the owner of mu_.  stop() notifies without   *)
(* the lock, so the loop can miss it; its wait has a timeout.  save_now    *)
(* serializes and writes without the lock and takes it for the counters.   *)
(***************************************************************************)
EXTENDS Integers, FiniteSets

CONSTANTS Controllers, Nobody,
          MaxCalls    \* bound: start() and stop() calls

VARIABLES running, mu,
          thread,     \* thread_: joinable or not
          loop,       \* where the loop is; "none" when no thread runs
          pc,         \* per controller
          calls, dead \* history: std::terminate was reached

vars == <<running, mu, thread, loop, pc, calls, dead>>

Init ==
    /\ running = FALSE /\ mu = Nobody /\ thread = FALSE /\ loop = "none"
    /\ pc = [c \in Controllers |-> "idle"]
    /\ calls = 0 /\ dead = FALSE

Goto(c, label) == pc' = [pc EXCEPT ![c] = label]
Call(c) ==
    /\ pc[c] = "idle" /\ ~dead
    /\ calls < MaxCalls /\ calls' = calls + 1

\* The variant does not look whether a thread runs already.
Start_always(c) ==
    /\ Call(c)
    /\ running' = TRUE /\ Goto(c, "spawn")
    /\ UNCHANGED <<mu, thread, loop, dead>>
Start(c) ==
    /\ Call(c)
    /\ running' = TRUE
    /\ Goto(c, IF running THEN "idle" ELSE "spawn")
    /\ UNCHANGED <<mu, thread, loop, dead>>

\* Assigning a new thread to one that is still joinable ends the program.
Spawn(c) ==
    /\ pc[c] = "spawn" /\ ~dead
    /\ dead' = thread
    /\ thread' = TRUE
    /\ loop' = IF thread THEN loop ELSE "lock"
    /\ Goto(c, "idle")
    /\ UNCHANGED <<running, mu, calls>>

Stop(c) ==
    /\ Call(c)
    /\ running' = FALSE
    /\ Goto(c, IF running THEN "notify" ELSE "idle")
    /\ UNCHANGED <<mu, thread, loop, dead>>

\* Only a thread that is asleep hears it.
Notify(c) ==
    /\ pc[c] = "notify" /\ ~dead
    /\ loop' = IF loop = "asleep" THEN "lock" ELSE loop
    /\ Goto(c, "join")
    /\ UNCHANGED <<running, mu, thread, calls, dead>>

\* The variant detaches the thread.
Join_detached(c) ==
    /\ pc[c] = "join" /\ ~dead
    /\ thread' = FALSE
    /\ Goto(c, "idle")
    /\ UNCHANGED <<running, mu, loop, calls, dead>>
Join(c) ==
    /\ pc[c] = "join" /\ ~dead
    /\ thread => loop = "none"
    /\ thread' = FALSE
    /\ Goto(c, "idle")
    /\ UNCHANGED <<running, mu, loop, calls, dead>>
-------------------------------------------------------------------------------
LoopGoto(from, to) == loop = from /\ ~dead /\ loop' = to
Quiet == UNCHANGED <<running, thread, pc, calls, dead>>

\* loop: take the lock, at the start, after a save and when woken.
Lock == LoopGoto("lock", "while") /\ mu = Nobody /\ mu' = "loop" /\ Quiet

\* Leave, or find the predicate of the wait false.
While ==
    /\ loop = "while" /\ ~dead
    /\ IF running THEN loop' = "block" /\ UNCHANGED mu
                  ELSE loop' = "none" /\ mu' = Nobody
    /\ Quiet

Block == LoopGoto("block", "asleep") /\ mu' = Nobody /\ Quiet

\* Wake up for no reason, or after interval_ms.  The variant has no timeout.
Spurious == LoopGoto("asleep", "lock") /\ UNCHANGED mu /\ Quiet
NoTimeout == FALSE /\ UNCHANGED vars
WaitEnds == LoopGoto("asleep", "timeout") /\ UNCHANGED mu /\ Quiet

\* After a timeout, with the lock: out if stopped, else unlock and save.
Due ==
    /\ loop = "timeout" /\ ~dead /\ mu = Nobody
    /\ loop' = IF running THEN "save" ELSE "none"
    /\ UNCHANGED mu /\ Quiet

\* save_now ends with the lock taken for the counters.
Save == LoopGoto("save", "lock") /\ mu = Nobody /\ UNCHANGED mu /\ Quiet

LoopStep == Lock \/ While \/ Block \/ WaitEnds \/ Due \/ Save
ControlStep(c) == Spawn(c) \/ Notify(c) \/ Join(c)

Next ==
    \/ LoopStep \/ Spurious
    \/ \E c \in Controllers : Start(c) \/ Stop(c) \/ ControlStep(c)

Spec == Init /\ [][Next]_vars

\* Threads run and the timeout of the wait passes.
FairSpec ==
    /\ Spec
    /\ WF_vars(LoopStep)
    /\ \A c \in Controllers : WF_vars(ControlStep(c))
-------------------------------------------------------------------------------
\* One controller: no thread is ever assigned over a running one, however
\* start() and stop() alternate.
NeverTerminates == ~dead

\* One controller: between calls, the background thread runs exactly when
\* running() says so; after a stop() has returned nothing is saved any more.
QuietAfterStop ==
    \A c \in Controllers : pc[c] = "idle" =>
        /\ running <=> thread
        /\ ~running => loop = "none"

\* A stop() returns even if the loop misses its notification: the wait times
\* out.
StopReturns == \A c \in Controllers : pc[c] = "join" ~> pc[c] = "idle"
===============================================================================
