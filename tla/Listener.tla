------------------------------ MODULE Listener ------------------------------
(***************************************************************************)
(* Connections and admission of the relay (psst-relay/lib.rs):             *)
(* LimitedTcpListener, which gives each connection a permit for its        *)
(* lifetime, and the layers around every route: the deadline, and inside   *)
(* it the admission semaphore, whose permit a request holds until its      *)
(* handler returns or is dropped.  Module Relay has what handlers do; here *)
(* a handler is a long poll (of a watcher) or a short command.             *)
(*                                                                         *)
(* External: clients, which connect, keep connections alive, close them at *)
(* any moment and connect again; the kernel's queue of connections; hyper, *)
(* which drops the future of a request whose client is gone, and closes    *)
(* idle connections once shutdown began.                                   *)
(***************************************************************************)
EXTENDS Integers, Sequences, FiniteSets, SequencesExt

CONSTANTS Watcher,         \* clients whose requests are long polls
          Caller,          \* clients whose requests are short
          MaxConnections,  \* RelayConfig.max_connections
          MaxInFlight      \* RelayConfig.max_in_flight_requests

LimitAssumption == MaxConnections \in Nat \ {0} /\ MaxInFlight \in Nat \ {0}

VARIABLES conn,      \* "none", "backlog" (in the kernel), "open"
          request,   \* "none", "queued" for admission, "running"
          accepting, \* LimitedTcpListener::accept: "acquire", "accept", "sleep", "gone"
          sockets,   \* free permits of the connection semaphore
          admission, \* free permits of the admission semaphore
          waiting,   \* its queue of waiting requests, which tokio serves in order
          closing    \* graceful shutdown began

listenerVars == <<conn, request, accepting, sockets, admission, waiting, closing>>

Client == Watcher \cup Caller
Open == {c \in Client : conn[c] = "open"}
Running == {c \in Client : request[c] = "running"}

ListenerInit ==
  /\ conn = [c \in Client |-> "none"]
  /\ request = [c \in Client |-> "none"]
  /\ accepting = "acquire"
  /\ sockets = MaxConnections
  /\ admission = MaxInFlight
  /\ waiting = << >>
  /\ closing = FALSE

-----------------------------------------------------------------------------
(* Accepting *)

\* External: a client connects; the kernel queues it.
Connect(c) ==
  /\ conn[c] = "none"
  /\ ~closing
  /\ conn' = [conn EXCEPT ![c] = "backlog"]
  /\ UNCHANGED <<request, accepting, sockets, admission, waiting, closing>>

AcquireSocket ==
  /\ accepting = "acquire"
  /\ sockets > 0
  /\ sockets' = sockets - 1
  /\ accepting' = "accept"
  /\ UNCHANGED <<conn, request, admission, waiting, closing>>

\* The stream owns the permit; axum calls accept again.
Accept(c) ==
  /\ accepting = "accept"
  /\ conn[c] = "backlog"
  /\ conn' = [conn EXCEPT ![c] = "open"]
  /\ accepting' = "acquire"
  /\ UNCHANGED <<request, sockets, admission, waiting, closing>>

\* The permit is held through the pause of a second.
AcceptFails ==
  /\ accepting = "accept"
  /\ accepting' = "sleep"
  /\ UNCHANGED <<conn, request, sockets, admission, waiting, closing>>

\* The next round of the loop drops the permit.
PauseEnds ==
  /\ accepting = "sleep"
  /\ sockets' = sockets + 1
  /\ accepting' = "acquire"
  /\ UNCHANGED <<conn, request, admission, waiting, closing>>

-----------------------------------------------------------------------------
(* Requests *)

\* A request on an idle connection reaches the layers; with keep-alive the same
\* connection carries one after another.
Arrive(c) ==
  /\ conn[c] = "open"
  /\ request[c] = "none"
  /\ ~closing
  /\ request' = [request EXCEPT ![c] = "queued"]
  /\ waiting' = Append(waiting, c)
  /\ UNCHANGED <<conn, accepting, sockets, admission, closing>>

Admit ==
  /\ waiting # << >>
  /\ admission > 0
  /\ admission' = admission - 1
  /\ request' = [request EXCEPT ![Head(waiting)] = "running"]
  /\ waiting' = Tail(waiting)
  /\ UNCHANGED <<conn, accepting, sockets, closing>>

\* The future of admit_request is done or dropped, and what it holds with it.
EndRequest(c) ==
  /\ request' = [request EXCEPT ![c] = "none"]
  /\ waiting' = SelectSeq(waiting, LAMBDA d : d # c)
  /\ admission' = admission + (IF request[c] = "running" THEN 1 ELSE 0)

\* After the answer a closing server closes the connection.
CloseIfClosing(c) ==
  /\ conn' = [conn EXCEPT ![c] = IF closing THEN "none" ELSE @]
  /\ sockets' = sockets + (IF closing THEN 1 ELSE 0)

\* The handler returns: a long poll at mail, at its wait, or at shutdown.
HandlerReturns(c) ==
  /\ request[c] = "running"
  /\ EndRequest(c)
  /\ CloseIfClosing(c)
  /\ UNCHANGED <<accepting, closing>>

\* Faulty: the layers are swapped and the deadline returns a permit not taken.
DeadlineReleases(c) ==
  /\ request[c] # "none"
  /\ request' = [request EXCEPT ![c] = "none"]
  /\ waiting' = SelectSeq(waiting, LAMBDA d : d # c)
  /\ admission' = admission + 1
  /\ CloseIfClosing(c)
  /\ UNCHANGED <<accepting, closing>>

\* request_deadline answers 408; its clock started before admission.
Deadline(c) ==
  /\ request[c] # "none"
  /\ EndRequest(c)
  /\ CloseIfClosing(c)
  /\ UNCHANGED <<accepting, closing>>

\* The client goes away: a stream that was accepted is dropped with its permit.
Disconnect(c) ==
  /\ conn[c] # "none"
  /\ conn' = [conn EXCEPT ![c] = "none"]
  /\ sockets' = sockets + (IF conn[c] = "open" THEN 1 ELSE 0)
  /\ EndRequest(c)
  /\ UNCHANGED <<accepting, closing>>

-----------------------------------------------------------------------------
(* Shutdown *)

\* axum drops the future of accept, and the permit it may hold.
BeginClose ==
  /\ ~closing
  /\ closing' = TRUE
  /\ accepting' = "gone"
  /\ sockets' = sockets + (IF accepting = "acquire" THEN 0 ELSE 1)
  /\ conn' = [c \in Client |-> IF conn[c] = "backlog" THEN "none" ELSE conn[c]]
  /\ UNCHANGED <<request, admission, waiting>>

CloseIdle(c) ==
  /\ closing
  /\ conn[c] = "open"
  /\ request[c] = "none"
  /\ CloseIfClosing(c)
  /\ UNCHANGED <<request, accepting, admission, waiting, closing>>

\* The server is done when every connection is.
Drained ==
  /\ closing
  /\ Open = {}
  /\ UNCHANGED listenerVars

ListenerNext ==
  \/ \E c \in Client :
       \/ Connect(c)
       \/ Accept(c)
       \/ Arrive(c)
       \/ HandlerReturns(c)
       \/ Deadline(c)
       \/ Disconnect(c)
       \/ CloseIdle(c)
  \/ AcquireSocket
  \/ AcceptFails
  \/ PauseEnds
  \/ Admit
  \/ BeginClose
  \/ Drained

ListenerSpec == ListenerInit /\ [][ListenerNext]_listenerVars

\* The accept loop, the executor and the deadline's timer make progress, accept
\* does not fail for ever, and hyper closes what is idle.  Nothing is assumed of
\* handlers or of clients.
ListenerFairness ==
  /\ WF_listenerVars(AcquireSocket)
  /\ WF_listenerVars(PauseEnds)
  /\ WF_listenerVars(Admit)
  /\ \A c \in Client : /\ SF_listenerVars(Accept(c))
                       /\ WF_listenerVars(Deadline(c))
                       /\ WF_listenerVars(CloseIdle(c))

FairListenerSpec == ListenerSpec /\ ListenerFairness

-----------------------------------------------------------------------------
\* States are what their comments say, and only a request that is queued waits.
ListenerTypeOK ==
  /\ conn \in [Client -> {"none", "backlog", "open"}]
  /\ request \in [Client -> {"none", "queued", "running"}]
  /\ accepting \in {"acquire", "accept", "sleep", "gone"}
  /\ ToSet(waiting) = {c \in Client : request[c] = "queued"}
  /\ \A c \in Client : request[c] # "none" => conn[c] = "open"

\* LimitedTcpListener bounds the sockets whatever accept, clients and shutdown
\* do, and once all are closed every permit is back.
SocketsAreBounded ==
  /\ Cardinality(Open) + sockets <= MaxConnections
  /\ closing /\ Open = {} => sockets = MaxConnections

\* No request leaves without the permit it took, whether its handler returns,
\* its deadline passes or its client disconnects while it is queued or running.
AdmissionIsExact == admission + Cardinality(Running) = MaxInFlight

\* W-205: with fewer watchers than permits, long polls alone never keep a
\* command from being admitted.
WatchersAloneBlockNobody ==
  /\ Cardinality(Watcher) < MaxInFlight
  /\ \E c \in Caller : request[c] = "queued"
  /\ admission = 0
  => Running \cap Caller # {}

\* Every request ends, also one behind long polls that never return: its
\* deadline covers the time it waits for admission.
RequestEnds == \A c \in Client : (request[c] # "none") ~> (request[c] = "none")

\* A client stays in the kernel's queue only while every socket is in use:
\* failed accepts and dropped connections do not use up the permits.
BacklogIsServed ==
  \A c \in Client : (conn[c] = "backlog")
                      ~> (conn[c] # "backlog" \/ Cardinality(Open) = MaxConnections)

\* Once shutdown began every connection closes, with nobody's help: the server
\* future that serve waits for completes although clients keep theirs alive.
ShutdownDrains == closing ~> Open = {}

\* What holds of sockets and requests at every moment.
ListenerInvariant ==
  ListenerTypeOK /\ SocketsAreBounded /\ AdmissionIsExact /\ WatchersAloneBlockNobody
=============================================================================
