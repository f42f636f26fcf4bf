------------------------------- MODULE EventLoop ------------------------------
(***************************************************************************)
(* event_loop.cpp and listener.cpp: one thread polls descriptors and calls *)
(* their callbacks; other threads post tasks and stop the loop.  What a    *)
(* callback or a task does to the loop is any of Effects.  A registration  *)
(* is its generation, 0 when the descriptor has none; Lfd is the           *)
(* listener's descriptor, Fds the ones the process can still open.  The    *)
(* events asked for and the flags passed on are left out.                  *)
(***************************************************************************)
EXTENDS Integers, Sequences, SequencesExt, FiniteSets

CONSTANTS Fds, Lfd, MaxPosts, MaxStops, MaxRuns, MaxClients, MaxSignals

VARIABLES running, pc, entries, ready, local, posted, listening, backlog,
          \* history: posts made, tasks run, registrations made, clients that came,
          \* stop() since run() began, a callback called after its removal; and bounds.
          made, ran, gens, clients, asked, stray, stops, runs, signals

loop == <<running, pc, entries, ready, local, posted, listening, backlog>>
past == <<made, ran, gens, clients, asked, stray, stops, runs, signals>>
lvars == <<loop, past>>

All == Fds \cup {Lfd}
Registered == {fd \in All : entries[fd] # 0}
Free == {fd \in Fds : entries[fd] = 0}

\* Listener::start and attach come before the loop runs.
LInit ==
    /\ running = FALSE /\ pc = "out" /\ ready = {} /\ local = <<>> /\ posted = <<>>
    /\ entries = [fd \in All |-> IF fd = Lfd THEN 1 ELSE 0]
    /\ listening = TRUE /\ backlog = 0
    /\ made = 0 /\ ran = <<>> /\ gens = 1 /\ clients = 0
    /\ asked = FALSE /\ stray = FALSE /\ stops = 0 /\ runs = 0 /\ signals = 0
-------------------------------------------------------------------------------
add(fd) ==
    /\ entries[fd] = 0
    /\ entries' = [entries EXCEPT ![fd] = gens + 1] /\ gens' = gens + 1

remove(fd) == entries' = [entries EXCEPT ![fd] = 0]

\* post_mu_ makes it one step.
post_body ==
    /\ made < MaxPosts
    /\ posted' = Append(posted, made + 1) /\ made' = made + 1

stop_body ==
    /\ stops < MaxStops
    /\ running' = FALSE /\ stops' = stops + 1 /\ asked' = (asked \/ pc # "out")

\* Listener::stop on the loop's thread.
listener_stop == listening /\ listening' = FALSE /\ remove(Lfd)

\* What a callback or a task may do; the closed descriptor's number is free again.
Effects ==
    \/ UNCHANGED <<entries, posted, made, running, stops, asked, listening>>
    \/ \E fd \in Registered \ {Lfd} :
          remove(fd) /\ UNCHANGED <<posted, made, running, stops, asked, listening>>
    \/ post_body /\ UNCHANGED <<entries, running, stops, asked, listening>>
    \/ stop_body /\ UNCHANGED <<entries, posted, made, listening>>
    \/ listener_stop /\ UNCHANGED <<posted, made, running, stops, asked>>
-------------------------------------------------------------------------------
run ==
    /\ pc = "out" /\ runs < MaxRuns
    /\ running' = TRUE /\ pc' = "check" /\ runs' = runs + 1 /\ asked' = FALSE
    /\ UNCHANGED <<entries, ready, local, posted, listening, backlog,
                   made, ran, gens, clients, stray, stops, signals>>

\* The variant reads running_ once, before the loop.
check_hoisted ==
    /\ pc = "check" /\ pc' = "swap"
    /\ UNCHANGED <<running, entries, ready, local, posted, listening, backlog, past>>

check ==
    /\ pc = "check" /\ pc' = IF running THEN "swap" ELSE "out"
    /\ UNCHANGED <<running, entries, ready, local, posted, listening, backlog, past>>

drain_swap ==
    /\ pc = "swap" /\ pc' = "drain" /\ local' = posted /\ posted' = <<>>
    /\ UNCHANGED <<running, entries, ready, listening, backlog, past>>

\* The variant leaves the loop over the tasks when one throws.
AfterTask_abort(threw) == IF threw THEN <<>> ELSE Tail(local)

\* A task that throws is counted, and the next one runs.
AfterTask(threw) == Tail(local)

drain_task ==
    /\ pc = "drain" /\ local # <<>>
    /\ ran' = Append(ran, Head(local))
    /\ \E threw \in BOOLEAN : local' = AfterTask(threw)
    /\ Effects
    /\ UNCHANGED <<pc, ready, backlog, gens, clients, stray, runs, signals>>

drain_done ==
    /\ pc = "drain" /\ local = <<>>
    /\ pc' = IF Registered = {} THEN "check" ELSE "poll"
    /\ UNCHANGED <<running, entries, ready, local, posted, listening, backlog, past>>

\* poll sees the registrations of this moment.  The listener is ready as long as a
\* client waits, any other descriptor as its peer likes; nobody ready is a timeout.
poll ==
    /\ pc = "poll"
    /\ \E some \in SUBSET (Registered \ {Lfd}) :
          LET up == some \cup IF backlog > 0 THEN Registered \cap {Lfd} ELSE {}
          IN  /\ ready' = {[fd |-> fd, gen |-> entries[fd]] : fd \in up}
              /\ pc' = IF up = {} THEN "check" ELSE "dispatch"
    /\ UNCHANGED <<running, entries, local, posted, listening, backlog, past>>

\* A signal interrupts poll, which returns -1.
poll_interrupted ==
    /\ pc = "poll" /\ signals < MaxSignals /\ signals' = signals + 1 /\ pc' = "check"
    /\ UNCHANGED <<running, entries, ready, local, posted, listening, backlog,
                   made, ran, gens, clients, asked, stray, stops, runs>>

\* The variant calls what was registered when poll was called.
Callback_polled(r) == r.gen

\* Looked up again, in case an earlier callback of this round removed it.
Callback(r) == entries[r.fd]

dispatch ==
    /\ pc = "dispatch"
    /\ \E r \in ready :
          /\ ready' = ready \ {r}
          /\ stray' = (stray \/ (Callback(r) # 0 /\ Callback(r) # entries[r.fd]))
          /\ IF Callback(r) = 0
             THEN UNCHANGED <<pc, entries, posted, made, running, stops, asked, listening>>
             ELSE IF r.fd = Lfd
             THEN /\ pc' = "accept"
                  /\ UNCHANGED <<entries, posted, made, running, stops, asked, listening>>
             ELSE pc' = pc /\ Effects
    /\ UNCHANGED <<local, backlog, ran, gens, clients, runs, signals>>

round_done ==
    /\ pc = "dispatch" /\ ready = {} /\ pc' = "check"
    /\ UNCHANGED <<running, entries, ready, local, posted, listening, backlog, past>>

\* The listener's callback: accept until nobody waits (EAGAIN) or until the process
\* is out of descriptors; a client is handed to the owner, who registers it.
accept ==
    /\ pc = "accept"
    /\ IF backlog > 0 /\ Free # {}
       THEN /\ \E fd \in Free : add(fd)
            /\ backlog' = backlog - 1 /\ UNCHANGED pc
       ELSE pc' = "dispatch" /\ UNCHANGED <<entries, gens, backlog>>
    /\ UNCHANGED <<running, ready, local, posted, listening,
                   made, ran, clients, asked, stray, stops, runs, signals>>
-------------------------------------------------------------------------------
\* Other threads and the network.
post ==
    /\ post_body
    /\ UNCHANGED <<running, pc, entries, ready, local, listening, backlog,
                   ran, gens, clients, asked, stray, stops, runs, signals>>

stop ==
    /\ stop_body
    /\ UNCHANGED <<pc, entries, ready, local, posted, listening, backlog,
                   made, ran, gens, clients, stray, runs, signals>>

client ==
    /\ listening /\ clients < MaxClients
    /\ clients' = clients + 1 /\ backlog' = backlog + 1
    /\ UNCHANGED <<running, pc, entries, ready, local, posted, listening,
                   made, ran, gens, asked, stray, stops, runs, signals>>

Thread == check \/ drain_swap \/ drain_task \/ drain_done \/ poll \/ dispatch \/ round_done \/ accept
LNext == Thread \/ run \/ poll_interrupted \/ post \/ stop \/ client
-------------------------------------------------------------------------------
\* Tasks posted from any thread run once each and in the order of their posting,
\* whichever of them throw and however often the loop is stopped and run again; and a
\* callback is never called once remove() took it away, although the round that calls
\* it polled before the removal (event_loop.cpp 46-62, 77-95).
LoopSound ==
    /\ ran \o local \o posted = [i \in 1..made |-> i]
    /\ ~stray

\* While the loop runs, a posted task is run; a client that waits is accepted unless
\* the listener stops or no descriptor is free; and once run() has begun, stop() ends it.
\* A stop() that comes before run() has begun is not remembered.
LoopServes ==
    /\ \A i \in 1..MaxPosts : (made >= i /\ running) ~> (Len(ran) >= i \/ ~running)
    /\ (backlog > 0 /\ running) ~> (backlog = 0 \/ ~running \/ ~listening \/ Free = {})
    /\ asked ~> pc = "out"
===============================================================================
