------------------------------- MODULE Serve --------------------------------
(***************************************************************************)
(* The life of a relay process: psst relay start with and without --json   *)
(* (psst-cli) and psst-relay, around serve_with_router_factory.  Module    *)
(* Relay has what happens to requests in between; here there are the       *)
(* stages of serving, the announcement of readiness, the listener's        *)
(* permits, the shutdown deadline, and what the process writes and exits   *)
(* with.                                                                   *)
(***************************************************************************)
EXTENDS Naturals, Sequences

CONSTANTS Fronts,          \* how the process is started: "json", "human", "daemon"
          MaxConnections   \* RelayConfig.max_connections

ServeAssumption ==
    Fronts \subseteq {"json", "human", "daemon"} /\ MaxConnections \in Nat \ {0}

VARIABLES
    front,      \* how it was started
    pc,         \* where the front end is
    stage,      \* where serve is
    error,      \* what serve returned
    worker,     \* the store worker's thread
    bound,      \* the listener is bound
    startup,    \* the oneshot channel of the announcement
    accept,     \* LimitedTcpListener::accept: waits for a permit, for a client, or sleeps
    conns,      \* open connections, each with its permit
    permits,    \* free permits of the connection semaphore
    signal,     \* the shutdown watch channel
    refusing,   \* begin_shutdown was called
    out,        \* what was written: stream and form
    exit        \* the exit code, or Running

vars == <<front, pc, stage, error, worker, bound, startup, accept, conns, permits, signal, refusing, out, exit>>

Running == 99
ended == exit # Running

\* Errors of serve, by the downcast that recognises them.
map_relay_serve_error(e) ==
    CASE e = "ShutdownTimedOut" -> 7
      [] e \in {"ConfigError", "FutureSchema"} -> 3
      [] e = "AddrInUse" -> 4
      [] e \in {"PermissionDenied", "Database", "Io", "WorkerStore"} -> 8
      [] e = "WorkerPanicked" -> 70

\* process_result_for_serve_error: the timeout ends the process at once.
process_result_for_serve_error(e) == IF e = "ShutdownTimedOut" THEN 3 ELSE 1

-----------------------------------------------------------------------------
Init ==
    /\ front \in Fronts
    /\ pc = "configure" /\ stage = "none" /\ error = "none" /\ worker = "none"
    /\ bound = FALSE /\ startup = "pending" /\ accept = "permit" /\ conns = 0 /\ permits = MaxConnections
    /\ signal = FALSE /\ refusing = FALSE
    /\ out = <<>> /\ exit = Running

Say(stream, form) == out' = Append(out, <<stream, form>>)
Exit(code) == exit' = code /\ pc' = "ended"

server == <<stage, error, worker, bound, startup, accept, conns, permits, refusing>>
net == <<accept, conns, permits>>

\* Configuration (resolve_config, relay_config, create_dir_all, init_tracing): a flaw is
\* answered by the front end.
ConfigureFails ==
    /\ ~ended /\ pc = "configure" /\ front # "daemon"
    /\ \E code \in {3, 8} : Exit(code)
    /\ Say("stderr", IF front = "json" THEN "failure" ELSE "text")
    /\ UNCHANGED <<front, server, signal>>

\* configuration and init_tracing in psst-relay.
DaemonConfigureFails ==
    /\ ~ended /\ pc = "configure" /\ front = "daemon"
    /\ Exit(2) /\ Say("stderr", "text")
    /\ UNCHANGED <<front, server, signal>>

Configure ==
    /\ ~ended /\ pc = "configure"
    /\ pc' = IF front = "json" THEN "startup" ELSE "serving"
    /\ stage' = "open"
    /\ UNCHANGED <<front, error, worker, bound, startup, net, signal, refusing, out, exit>>

\* Ctrl-C, or the loss of the task that waits for it: the watch channel changes or closes.
Signal ==
    /\ ~ended /\ pc # "configure" /\ ~signal
    /\ signal' = TRUE
    /\ UNCHANGED <<front, pc, server, out, exit>>

Returned(e) == stage' = "returned" /\ error' = e /\ startup' = IF startup = "pending" THEN "dropped" ELSE startup

\* The early returns of serve: validation, the store, the listener's address.
StartFails ==
    /\ ~ended
    /\ \/ stage = "open" /\ \E e \in {"ConfigError", "FutureSchema", "Database"} : Returned(e)
       \/ stage = "bind" /\ \E e \in {"AddrInUse", "PermissionDenied"} : Returned(e)
    /\ UNCHANGED <<front, pc, worker, bound, net, signal, refusing, out, exit>>

Open ==
    /\ ~ended /\ stage = "open"
    /\ worker' = "running" /\ stage' = "bind"
    /\ UNCHANGED <<front, pc, error, bound, startup, net, signal, refusing, out, exit>>

Bind ==
    /\ ~ended /\ stage = "bind"
    /\ bound' = TRUE /\ startup' = "sent" /\ stage' = "serving"
    /\ UNCHANGED <<front, pc, error, worker, net, signal, refusing, out, exit>>

-----------------------------------------------------------------------------
\* LimitedTcpListener.  The accept loop runs while the server does.
Accepting == ~ended /\ stage = "serving"

elsewhere == <<front, pc, stage, error, worker, bound, startup, signal, refusing, out, exit>>

Acquire ==
    /\ Accepting /\ accept = "permit" /\ permits > 0
    /\ accept' = "client" /\ permits' = permits - 1
    /\ UNCHANGED <<elsewhere, conns>>

Accept ==
    /\ Accepting /\ accept = "client"
    /\ accept' = "permit" /\ conns' = conns + 1
    /\ UNCHANGED <<elsewhere, permits>>

\* The listener fails: the permit is held through a second's sleep.
AcceptFails ==
    /\ Accepting /\ accept = "client"
    /\ accept' = "asleep"
    /\ UNCHANGED <<elsewhere, conns, permits>>

\* The loop goes round; the permit is dropped with its scope.
Wake ==
    /\ Accepting /\ accept = "asleep"
    /\ accept' = "permit" /\ permits' = permits + 1
    /\ UNCHANGED <<elsewhere, conns>>

\* LimitedTcpStream is dropped: a client goes, or its last answer is out.
Disconnect ==
    /\ ~ended /\ conns > 0
    /\ conns' = conns - 1 /\ permits' = permits + 1
    /\ UNCHANGED <<elsewhere, accept>>

-----------------------------------------------------------------------------
\* The shutdown notice: the worker refuses at the moment HTTP begins to drain.
BeginShutdown ==
    /\ ~ended /\ stage = "serving" /\ signal
    /\ stage' = "draining" /\ refusing' = TRUE
    /\ UNCHANGED <<front, pc, error, worker, bound, startup, net, signal, out, exit>>

LeaveServer ==
    /\ stage' = "joining" /\ refusing' = TRUE
    /\ conns' = 0 /\ accept' = "permit" /\ permits' = MaxConnections
    /\ UNCHANGED <<front, pc, worker, bound, startup, signal, out, exit>>

\* axum::serve returns because it has drained, or with an error of its own.
ServerEnds == ~ended /\ stage = "draining" /\ conns = 0 /\ LeaveServer /\ UNCHANGED error

ServerFails == ~ended /\ stage \in {"serving", "draining"} /\ LeaveServer /\ error' = "Io"

\* The worker finishes its operation, rejects the rest, checkpoints, or fails to.
WorkerStops ==
    /\ ~ended /\ worker = "running" /\ refusing
    /\ worker' \in {"stopped", "failed", "panicked"}
    /\ UNCHANGED <<front, pc, stage, error, bound, startup, net, signal, refusing, out, exit>>

\* join_worker_until: the worker's failure comes before the server's.
JoinWorker ==
    /\ ~ended /\ stage = "joining"
    /\ worker \in {"stopped", "failed", "panicked"}
    /\ Returned(CASE worker = "failed" -> "WorkerStore" [] worker = "panicked" -> "WorkerPanicked" [] OTHER -> error)
    /\ UNCHANGED <<front, pc, worker, bound, net, signal, refusing, out, exit>>

\* The one deadline of the drain and the join.
Deadline ==
    /\ ~ended /\ stage \in {"draining", "joining"}
    /\ Returned("ShutdownTimedOut")
    /\ UNCHANGED <<front, pc, worker, bound, net, signal, refusing, out, exit>>

-----------------------------------------------------------------------------
\* run_relay_json_until.

StartupFailed ==
    /\ ~ended /\ front = "json" /\ pc = "startup" /\ startup = "dropped" /\ stage = "returned"
    /\ Say("stderr", "failure")
    /\ Exit(map_relay_serve_error(error))
    /\ UNCHANGED <<front, server, signal>>

\* The startup envelope; when it cannot be written the serving task is aborted.
Announce ==
    /\ ~ended /\ front = "json" /\ pc = "startup" /\ startup = "sent"
    /\ \/ Say("stdout", "success") /\ pc' = "serving" /\ UNCHANGED exit
       \/ Exit(70) /\ UNCHANGED out
    /\ UNCHANGED <<front, server, signal>>

EndJson ==
    /\ ~ended /\ front = "json" /\ pc = "serving" /\ stage = "returned"
    /\ CASE error = "none" -> Exit(0) /\ UNCHANGED out
         [] error = "ShutdownTimedOut" -> Exit(process_result_for_serve_error(error)) /\ UNCHANGED out
         [] OTHER -> Say("stderr", "text") /\ Exit(map_relay_serve_error(error))
    /\ UNCHANGED <<front, server, signal>>

\* run_relay_until and handle_relay_error.
EndHuman ==
    /\ ~ended /\ front = "human" /\ stage = "returned"
    /\ CASE error = "none" -> Say("stdout", "text") /\ Exit(0)
         [] error = "ShutdownTimedOut" -> Exit(process_result_for_serve_error(error)) /\ UNCHANGED out
         [] OTHER -> Say("stderr", "text") /\ Exit(map_relay_serve_error(error))
    /\ UNCHANGED <<front, server, signal>>

\* main of psst-relay.
EndDaemon ==
    /\ ~ended /\ front = "daemon" /\ stage = "returned"
    /\ Exit(IF error = "none" THEN 0 ELSE process_result_for_serve_error(error))
    /\ UNCHANGED <<front, server, signal, out>>

Ending == StartupFailed \/ Announce \/ EndJson \/ EndHuman \/ EndDaemon
Serving == StartFails \/ Open \/ Bind \/ BeginShutdown \/ ServerEnds \/ JoinWorker
Listening == Acquire \/ Accept \/ AcceptFails \/ Wake

Next ==
    \/ ConfigureFails \/ DaemonConfigureFails \/ Configure \/ Signal
    \/ Serving \/ ServerFails \/ WorkerStops \/ Deadline
    \/ Listening \/ Disconnect
    \/ Ending

\* Tasks are polled, timers fire; clients and the worker's operation owe nothing.
Fairness == /\ WF_vars(Configure) /\ WF_vars(Serving) /\ WF_vars(Ending)
            /\ WF_vars(Deadline) /\ WF_vars(Wake) /\ WF_vars(Acquire)

Spec == Init /\ [][Next]_vars
FairSpec == Spec /\ Fairness

-----------------------------------------------------------------------------
Wrote(stream, form) == \E i \in DOMAIN out : out[i] = <<stream, form>>

\* The startup envelope is written only after the database is open and the listener is bound
\* (serve_with_router_factory sends the announcement, run_relay_json_until waits for it).
AnnouncedWhenReady == Wrote("stdout", "success") => worker # "none" /\ bound

\* With --json a relay process writes at most one document in its life: no second one at its
\* end, and after the startup envelope a failure is told in plain words (run_relay_json_until).
OneJsonDocument ==
    front = "json" => /\ ~(Wrote("stdout", "success") /\ Wrote("stderr", "failure"))
                      /\ Len(SelectSeq(out, LAMBDA o : o[2] # "text")) <= 1

\* There are never more connections than max_connections, and no error of accept gives a permit
\* back twice (LimitedTcpListener::accept).
ConnectionsAreBounded == conns <= MaxConnections /\ permits <= MaxConnections

\* Exit code 0 means the worker has ended after its checkpoint and no connection is left; a
\* timeout, a failed checkpoint or a failed server is never reported as a clean end.
ZeroMeansCheckpointed == exit = 0 => worker = "stopped" /\ conns = 0 /\ error = "none"

\* Once Ctrl-C has come the process ends, even if a client keeps its connection or the worker's
\* operation never returns: one deadline covers the drain and the join.
ShutdownEnds == signal ~> ended

\* Errors of accept, however many, do not use up the permits: a running server without
\* connections always comes back to wait for a client.
ListensAgain == stage = "serving" /\ conns = 0 ~> (accept = "client" \/ conns > 0 \/ stage # "serving" \/ ended)

\* Exit class 3 of psst relay start says that the configuration was at fault.
ExitClassTellsCause ==
    front \in {"json", "human"} /\ exit = 3 =>
        stage = "none" \/ error \in {"ConfigError", "FutureSchema"}

\* What holds of a relay process at every moment.
ServeInvariant ==
    AnnouncedWhenReady /\ OneJsonDocument /\ ConnectionsAreBounded /\ ZeroMeansCheckpointed
=============================================================================
