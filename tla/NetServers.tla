------------------------------ MODULE NetServers ------------------------------
(***************************************************************************)
(* tcp_server.cpp as main.cpp runs it, and admin_http.cpp: a thread        *)
(* accepts one client at a time and serves it, and something else stops    *)
(* it.  TcpServer::stop is called by the SIGINT handler on the thread of   *)
(* run itself, so it is one step between any two of run's; an interrupted  *)
(* call is restarted with the same arguments.  AdminHttpServer::stop is    *)
(* called by other threads and interleaves with run.  kind says which      *)
(* server this is; requests and responses are left out but for when they   *)
(* are there.                                                              *)
(***************************************************************************)
EXTENDS Integers, FiniteSets

CONSTANTS Stoppers, MaxArrivals, MaxRounds

\* lfd: the listening socket; fdv: the member listen_fd_ / server_fd_ is not -1;
\* arg: accept was called with a descriptor.  cur: the client being served, and
\* rounds the calls of recv made for it.
VARIABLES kind, running, pc, lfd, fdv, arg, waiting, cur, rounds, spc,
          \* history
          won, heard, closes, arrivals

server == <<kind, running, pc, lfd, fdv, arg, waiting, cur, rounds>>
nvars == <<server, spc, won, heard, closes, arrivals>>

NInit ==
    /\ kind \in {"tcp", "admin"}
    /\ running = FALSE /\ pc = "new" /\ lfd = "none" /\ fdv = FALSE /\ arg = FALSE
    /\ waiting = 0 /\ cur = "none" /\ rounds = 0
    /\ spc = [s \in Stoppers |-> "idle"]
    /\ won = {} /\ heard = FALSE /\ closes = 0 /\ arrivals = 0

Rest == <<spc, won, heard, arrivals>>
-------------------------------------------------------------------------------
\* AdminHttpServer::start: no thread exists before its end.
admin_start ==
    /\ kind = "admin" /\ pc = "new"
    /\ \/ pc' = "loop" /\ running' = TRUE /\ lfd' = "open" /\ fdv' = TRUE
       \/ pc' = "failed_start" /\ UNCHANGED <<running, lfd, fdv>>
    /\ UNCHANGED <<kind, arg, waiting, cur, rounds, closes, Rest>>

\* TcpServer::run up to the loop; a failure closes the socket, leaves its number in
\* server_fd_ and throws.
tcp_socket ==
    /\ kind = "tcp" /\ pc = "new"
    /\ \/ pc' = "bind" /\ lfd' = "open" /\ fdv' = TRUE
       \/ pc' = "threw" /\ UNCHANGED <<lfd, fdv>>
    /\ UNCHANGED <<kind, running, arg, waiting, cur, rounds, closes, Rest>>

tcp_bind ==
    /\ kind = "tcp" /\ pc = "bind"
    /\ \/ fdv /\ pc' = "up" /\ UNCHANGED <<lfd, closes>>
       \/ /\ pc' = "threw" /\ lfd' = "closed"
          /\ closes' = closes + IF fdv THEN 1 ELSE 0
    /\ UNCHANGED <<kind, running, fdv, arg, waiting, cur, rounds, Rest>>

tcp_up ==
    /\ kind = "tcp" /\ pc = "up" /\ running' = TRUE /\ pc' = "loop"
    /\ UNCHANGED <<kind, lfd, fdv, arg, waiting, cur, rounds, closes, Rest>>
-------------------------------------------------------------------------------
while_running ==
    /\ pc = "loop"
    /\ IF running THEN pc' = "accept" /\ arg' = fdv ELSE pc' = "done" /\ UNCHANGED arg
    /\ UNCHANGED <<kind, running, lfd, fdv, waiting, cur, rounds, closes, Rest>>

accept_client ==
    /\ pc = "accept" /\ arg /\ lfd = "open" /\ waiting > 0
    /\ waiting' = waiting - 1 /\ cur' = "quiet" /\ rounds' = 0 /\ pc' = "recv"
    /\ UNCHANGED <<kind, running, lfd, fdv, arg, closes, Rest>>

\* The variant goes on without asking whether it was stopped.
AfterError_continue == "accept"

AfterError == IF running THEN "loop" ELSE "done"

\* Shut down or closed: accept fails at once.
accept_error ==
    /\ pc = "accept" /\ (~arg \/ lfd # "open") /\ pc' = AfterError
    /\ UNCHANGED <<kind, running, lfd, fdv, arg, waiting, cur, rounds, closes, Rest>>

\* TcpServer reads once; read_request reads until the blank line, the end of the
\* stream or MaxRounds calls.
recv ==
    /\ pc = "recv" /\ cur # "quiet" /\ rounds' = rounds + 1
    /\ IF cur = "gone"
       THEN pc' = (IF kind = "tcp" THEN "close" ELSE "reply") /\ UNCHANGED cur
       ELSE IF kind = "admin" /\ cur = "part" /\ rounds + 1 < MaxRounds
       THEN pc' = pc /\ cur' = "quiet"
       ELSE pc' = "reply" /\ UNCHANGED cur
    /\ UNCHANGED <<kind, running, lfd, fdv, arg, waiting, closes, Rest>>

\* The handler's answer is sent, or its exception caught; the send to a client that
\* left fails without a signal.
reply ==
    /\ pc = "reply" /\ pc' = "close"
    /\ UNCHANGED <<kind, running, lfd, fdv, arg, waiting, cur, rounds, closes, Rest>>

close_client ==
    /\ pc = "close" /\ cur' = "none" /\ pc' = "loop"
    /\ UNCHANGED <<kind, running, lfd, fdv, arg, waiting, rounds, closes, Rest>>
-------------------------------------------------------------------------------
\* TcpServer::stop in the signal handler; heard: run had set running_ before.
tcp_stop(s) ==
    /\ kind = "tcp" /\ spc[s] = "idle" /\ spc' = [spc EXCEPT ![s] = "returned"]
    /\ running' = FALSE /\ heard' = (heard \/ running)
    /\ fdv' = FALSE
    /\ lfd' = IF fdv THEN "closed" ELSE lfd
    /\ closes' = closes + IF fdv THEN 1 ELSE 0
    /\ UNCHANGED <<kind, pc, arg, waiting, cur, rounds, won, arrivals>>

admin_exchange(s) ==
    /\ kind = "admin" /\ spc[s] = "idle"
    /\ spc' = [spc EXCEPT ![s] = IF running THEN "shutdown" ELSE "returned"]
    /\ won' = IF running THEN won \cup {s} ELSE won
    /\ running' = FALSE /\ heard' = (heard \/ running)
    /\ UNCHANGED <<kind, pc, lfd, fdv, arg, waiting, cur, rounds, closes, arrivals>>

admin_shutdown(s) ==
    /\ spc[s] = "shutdown" /\ spc' = [spc EXCEPT ![s] = "close"] /\ lfd' = "shut"
    /\ UNCHANGED <<kind, running, pc, fdv, arg, waiting, cur, rounds, won, heard, closes, arrivals>>

admin_close(s) ==
    /\ spc[s] = "close" /\ spc' = [spc EXCEPT ![s] = "clear"]
    /\ lfd' = "closed" /\ closes' = closes + 1
    /\ UNCHANGED <<kind, running, pc, fdv, arg, waiting, cur, rounds, won, heard, arrivals>>

admin_clear(s) ==
    /\ spc[s] = "clear" /\ spc' = [spc EXCEPT ![s] = "join"] /\ fdv' = FALSE
    /\ UNCHANGED <<kind, running, pc, lfd, arg, waiting, cur, rounds, won, heard, closes, arrivals>>

\* The variant does not wait.
Joined_detached == TRUE

Joined == pc = "done"

admin_join(s) ==
    /\ spc[s] = "join" /\ Joined /\ spc' = [spc EXCEPT ![s] = "returned"]
    /\ UNCHANGED <<server, won, heard, closes, arrivals>>

Stop(s) ==
    \/ tcp_stop(s) \/ admin_exchange(s)
    \/ admin_shutdown(s) \/ admin_close(s) \/ admin_clear(s) \/ admin_join(s)
-------------------------------------------------------------------------------
arrive ==
    /\ lfd = "open" /\ pc \notin {"new", "bind"} /\ arrivals < MaxArrivals
    /\ arrivals' = arrivals + 1 /\ waiting' = waiting + 1
    /\ UNCHANGED <<kind, running, pc, lfd, fdv, arg, cur, rounds, spc, won, heard, closes>>

\* The client being served sends a part or the whole of its request, or leaves.
speak ==
    /\ cur = "quiet" /\ cur' \in {"part", "whole", "gone"}
    /\ UNCHANGED <<kind, running, pc, lfd, fdv, arg, waiting, rounds, spc, won, heard, closes, arrivals>>

Serve ==
    \/ admin_start \/ tcp_socket \/ tcp_bind \/ tcp_up
    \/ while_running \/ accept_client \/ accept_error \/ recv \/ reply \/ close_client
Stopping == \E s \in Stoppers : spc[s] # "idle" /\ Stop(s)
NNext == Serve \/ arrive \/ speak \/ \E s \in Stoppers : Stop(s)
-------------------------------------------------------------------------------
\* The stop() that found the admin server running returns with its thread over and no
\* client half served, however many call stop() at once; and the listening descriptor
\* is closed once, but for a TcpServer whose bind failed: run closes it and leaves its
\* number to be closed again by stop() (tcp_server.cpp 30-40, admin_http.cpp 93-115).
StopQuiesces ==
    /\ \A s \in won : spc[s] = "returned" => pc = "done" /\ cur = "none"
    /\ closes > 1 => pc = "threw" /\ closes = 2

\* A server that was stopped after it began to run ends, and so does every stop(), as
\* long as the client being served says something or leaves: accept fails on the
\* closed socket and the flag is looked at again.  A stop() that comes before running_
\* is set is not heard: TcpServer::run then accepts on -1 for ever.
StopEnds ==
    /\ heard ~> pc = "done"
    /\ \A s \in Stoppers : (s \in won) ~> (spc[s] = "returned")
===============================================================================
