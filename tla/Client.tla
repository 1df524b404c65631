------------------------------- MODULE Client -------------------------------
(***************************************************************************)
(* The typed client (psst-client/src/lib.rs) calling a relay over a        *)
(* network that loses requests and answers.                                *)
(*                                                                         *)
(* Each caller makes one call.  An attempt takes one of MaxInFlight        *)
(* permits, is sent, and ends with an answer, a transport error or the     *)
(* call's timeout; reads and deduplicated calls are repeated up to         *)
(* MaxAttempts times after a back-off.  At the relay an attempt passes the *)
(* checks of its handler (Http) and becomes a command of the store's       *)
(* worker, which the handler may stop waiting for: such a command, and one *)
(* whose caller has gone, still runs.                                      *)
(***************************************************************************)
EXTENDS Http, Integers, FiniteSets

CONSTANTS Caller,        \* concurrent calls of one client
          Called,        \* the operations they may call
          MaxInFlight,   \* ClientConfig.max_in_flight
          MaxAttempts    \* RetryPolicy.max_attempts

\* The bounds new_with_sleeper accepts.
ConfigAssumption ==
    /\ Called \subseteq Operation
    /\ MaxInFlight \in 1..1024
    /\ MaxAttempts \in 1..10

VARIABLES call,      \* per caller: operation, flaws, place, attempt, result
          wire,      \* per caller and attempt: where the attempt is
          answer,    \* per caller: what has come back for its last attempt
          permits,   \* free permits of the in_flight semaphore
          effects    \* per caller: how often the relay has carried out the call

vars == <<call, wire, answer, permits, effects>>

-----------------------------------------------------------------------------
(***************************************************************************)
(* Results and answers.                                                    *)
(***************************************************************************)

Pending == [kind |-> "Pending"]
Ok == [kind |-> "Ok"]
Err(kind) == [kind |-> kind]
Api(code) == [kind |-> "Api", code |-> code]
RetryExhausted(last) == [kind |-> "RetryExhausted", last |-> last]

None == [status |-> 0, code |-> "none"]
Broken == [status |-> 0, code |-> "broken"]     \* reqwest::Error: no answer comes

-----------------------------------------------------------------------------
(***************************************************************************)
(* The operations: retry class, local checks, and what a lost answer       *)
(* means.                                                                  *)
(***************************************************************************)

Safe == {"health", "ready", "list_squads", "describe_squad", "roster",
         "inbox", "transcript"}
Deduplicated == {"send", "acknowledge"}
Issued == {"join", "resume"}
Never == Operation \ (Safe \cup Deduplicated)

\* What may be wrong with a request of op; its credential is typed.
FlawsOf(op) == {Route[op][i] : i \in DOMAIN Route[op]} \ {"credential"}

\* attempts of execute_inner; the issued calls make one attempt.
Attempts(op) == IF op \in Never THEN 1 ELSE MaxAttempts

\* The flaws with which the client itself answers InvalidRequest: validate()
\* of the request, and squad_path.
LocalChecks(op) ==
    CASE op \in {"create_squad", "heartbeat", "acknowledge"} -> {"content"}
      [] op \in {"join", "resume"} -> {"content", "path"}
      [] op = "send" -> {"content", "body"}
      [] op = "inbox" -> {"query"}
      [] op = "transcript" -> {"query", "path"}
      [] op \in {"describe_squad", "leave", "archive_squad", "roster"} -> {"path"}
      [] OTHER -> {}

\* The map_err of join, resume and leave.
AsReported(op, result) ==
    IF op \in Issued \cup {"leave"} /\ result.kind \in {"Transport", "Timeout"}
    THEN Err("OutcomeUnknown")
    ELSE result

\* decode: a deadline's status is a timeout, a failure is an error envelope
\* whose code agrees with its status, or else unexpected.
Decode(reply) ==
    CASE reply = Broken -> Err("Transport")
      [] reply.status = 408 -> Err("Timeout")
      [] reply.status = 200 -> Ok
      [] reply.code = "none" -> Err("UnexpectedHttp")
      [] http_status(reply.code) # reply.status -> Err("UnexpectedHttp")
      [] OTHER -> Api(reply.code)

\* retryable_api and transport_retryable, with the statuses that are retried.
WorthRetrying(result) ==
    \/ result.kind \in {"Transport", "Timeout"}
    \/ /\ result.kind = "Api"
       /\ result.code \in RetryableCode
       /\ http_status(result.code) \in {429, 500, 503}

-----------------------------------------------------------------------------
(***************************************************************************)
(* The client.                                                             *)
(***************************************************************************)

Init == /\ call = [c \in Caller |-> [op |-> "none", flaws |-> {}, pc |-> "idle",
                                     attempt |-> 0, result |-> Pending]]
        /\ wire = [c \in Caller |-> [n \in 1..MaxAttempts |-> "none"]]
        /\ answer = [c \in Caller |-> None]
        /\ permits = MaxInFlight
        /\ effects = [c \in Caller |-> 0]

Finished(record, result) ==
    [record EXCEPT !.pc = "done", !.result = AsReported(record.op, result)]

\* One turn of execute_inner's loop: without a free permit the call ends.
Attempt(c, record, n) ==
    IF permits = 0
    THEN /\ call' = [call EXCEPT ![c] = Finished(record, Err("ClientBusy"))]
         /\ UNCHANGED <<wire, answer, permits, effects>>
    ELSE /\ call' = [call EXCEPT ![c] =
                        [record EXCEPT !.pc = "waiting", !.attempt = n]]
         /\ wire' = [wire EXCEPT ![c][n] = "sent"]
         /\ answer' = [answer EXCEPT ![c] = None]
         /\ permits' = permits - 1
         /\ UNCHANGED effects

Begin(c, op, flaws) ==
    /\ call[c].pc = "idle"
    /\ LET record == [call[c] EXCEPT !.op = op, !.flaws = flaws]
       IN  IF flaws \cap LocalChecks(op) # {}
           THEN /\ call' = [call EXCEPT ![c] = Finished(record, Err("InvalidRequest"))]
                /\ UNCHANGED <<wire, answer, permits, effects>>
           ELSE Attempt(c, record, 1)

\* The sleeper has slept the back-off.
Retry(c) ==
    /\ call[c].pc = "backoff"
    /\ Attempt(c, call[c], call[c].attempt + 1)

\* The attempt's answer or transport error; the permit is dropped in every
\* case, before the back-off too.
Receive(c) ==
    /\ call[c].pc = "waiting"
    /\ answer[c] # None
    /\ LET result == Decode(answer[c])
           last == call[c].attempt = Attempts(call[c].op)
           again == WorthRetrying(result)
       IN  call' = [call EXCEPT ![c] =
                CASE again /\ last /\ Attempts(call[c].op) > 1 ->
                        Finished(@, RetryExhausted(result))
                  [] again /\ ~last -> [@ EXCEPT !.pc = "backoff"]
                  [] OTHER -> Finished(@, result)]
    /\ permits' = permits + 1
    /\ UNCHANGED <<wire, answer, effects>>

\* The timeout around the whole call, attempts and back-offs together.
Timeout(c) ==
    /\ call[c].pc \in {"waiting", "backoff"}
    /\ call' = [call EXCEPT ![c] = Finished(@, Err("Timeout"))]
    /\ permits' = IF call[c].pc = "waiting" THEN permits + 1 ELSE permits
    /\ UNCHANGED <<wire, answer, effects>>

-----------------------------------------------------------------------------
(***************************************************************************)
(* The network and the relay.                                              *)
(***************************************************************************)

\* The caller still waits for an answer to its n-th attempt.
Awaited(c, n) ==
    call[c].pc = "waiting" /\ call[c].attempt = n /\ answer[c] = None

\* What the client hears, if it still listens.
Answer(c, n, reply) ==
    answer' = IF Awaited(c, n) THEN [answer EXCEPT ![c] = reply] ELSE answer

\* The connection fails: before the request has reached the relay, or after,
\* when the relay knows nothing of it.
Lose(c, n) ==
    /\ Awaited(c, n)
    /\ answer' = [answer EXCEPT ![c] = Broken]
    /\ wire' = [wire EXCEPT ![c][n] = IF @ = "sent" THEN "ended" ELSE @]
    /\ UNCHANGED <<call, permits, effects>>

\* A handler drops a request that nobody waits for.
Abandon(c, n) ==
    /\ wire[c][n] = "sent"
    /\ ~Awaited(c, n)
    /\ wire' = [wire EXCEPT ![c][n] = "ended"]
    /\ UNCHANGED <<call, answer, permits, effects>>

\* The handler: its checks, then the command is queued unless the queue is
\* full or the worker gone.  The health check has no command.
Handle(c, n) ==
    /\ wire[c][n] = "sent"
    /\ LET refusals == Refusals(call[c].op, call[c].flaws)
       IN  CASE refusals # {} ->
                  /\ wire' = [wire EXCEPT ![c][n] = "ended"]
                  /\ Answer(c, n, ApiFailure(CHOOSE code \in refusals : TRUE))
             [] refusals = {} /\ call[c].op = "health" ->
                  /\ wire' = [wire EXCEPT ![c][n] = "ended"]
                  /\ Answer(c, n, Success)
             [] OTHER ->
                  \/ wire' = [wire EXCEPT ![c][n] = "queued"] /\ UNCHANGED answer
                  \/ \E error \in {"Full", "Unavailable"} :
                       /\ wire' = [wire EXCEPT ![c][n] = "ended"]
                       /\ Answer(c, n, IF call[c].op = "ready" THEN NotReady
                                       ELSE ApiFailure(DispatchCode(error)))
    /\ UNCHANGED <<call, permits, effects>>

\* Faulty: the retries of a send carry a key of their own.
CarriedOutAgain(op, before) ==
    IF op \in Safe THEN 0 ELSE before + 1

\* The store: reads change nothing, and a repeated send or acknowledgement
\* finds the first one's row (Store: OneMessagePerKey).
CarriedOut(op, before) ==
    CASE op \in Safe -> 0
      [] op \in Deduplicated -> 1
      [] OTHER -> before + 1

\* What the store may refuse a command with.  A send whose message is stored
\* is answered before the lifecycle checks.
StoreError(c) ==
    {"DatabaseBusy", "InternalError"} \cup
        (IF call[c].op = "send" /\ effects[c] > 0 THEN {} ELSE {"NotMember"})

\* The worker runs the command, whether or not somebody waits for it.
Execute(c, n) ==
    /\ wire[c][n] = "queued"
    /\ wire' = [wire EXCEPT ![c][n] = "ended"]
    /\ \/ /\ effects' = [effects EXCEPT ![c] = CarriedOut(call[c].op, @)]
          /\ Answer(c, n, Success)
       \/ \E error \in StoreError(c) :
            /\ Answer(c, n, IF call[c].op = "ready" THEN NotReady
                            ELSE ApiFailure(DispatchCode(error)))
            /\ UNCHANGED effects
    /\ UNCHANGED <<call, permits>>

\* dispatch has waited request_timeout for the worker: the command stays.
DispatchTimeout(c, n) ==
    /\ wire[c][n] = "queued"
    /\ Awaited(c, n)
    /\ Answer(c, n, IF call[c].op = "ready" THEN NotReady
                    ELSE ApiFailure(DispatchCode("Timeout")))
    /\ UNCHANGED <<call, wire, permits, effects>>

\* request_deadline drops the handler: a request still waiting for admission
\* goes with it, a queued command stays.
RequestDeadline(c, n) ==
    /\ wire[c][n] \in {"sent", "queued"}
    /\ Awaited(c, n)
    /\ Answer(c, n, DeadlineExpired)
    /\ wire' = [wire EXCEPT ![c][n] = IF @ = "sent" THEN "ended" ELSE @]
    /\ UNCHANGED <<call, permits, effects>>

Next ==
    \/ \E c \in Caller :
        \/ \E op \in Called : \E flaws \in SUBSET FlawsOf(op) : Begin(c, op, flaws)
        \/ Retry(c)
        \/ Receive(c)
        \/ Timeout(c)
    \/ \E c \in Caller, n \in 1..MaxAttempts :
        \/ Lose(c, n)
        \/ Abandon(c, n)
        \/ Handle(c, n)
        \/ Execute(c, n)
        \/ DispatchTimeout(c, n)
        \/ RequestDeadline(c, n)

Spec == Init /\ [][Next]_vars

-----------------------------------------------------------------------------
(***************************************************************************)
(* The error a person or an agent is shown (psst-application/src/error.rs  *)
(* after the capture of a send's error in session.rs).                     *)
(***************************************************************************)

ShownError(result) ==
    CASE result.kind = "Api" -> result.code
      [] result.kind = "Transport" -> "RelayUnavailable"
      [] result.kind = "Timeout" -> "RelayTimeout"
      [] result.kind = "ClientBusy" -> "LocalLock"
      [] result.kind = "InvalidRequest" -> "InvalidInput"
      [] result.kind = "UnexpectedHttp" -> "RelayProtocol"
      [] OTHER -> result.kind

\* StoredClientError::capture and restore: the transport error of an owned
\* send becomes OutcomeUnknown, its timeout stays a timeout.
Captured(op, result) ==
    IF op = "send" /\ result.kind = "Transport" THEN Err("OutcomeUnknown") ELSE result

ShownCode(c) ==
    LET result == call[c].result
    IN  ShownError(Captured(call[c].op,
            IF result.kind = "RetryExhausted" THEN result.last ELSE result))

-----------------------------------------------------------------------------
(***************************************************************************)
(* Properties.                                                             *)
(***************************************************************************)

\* Calls stay within their attempts and the client within its permits.
TypeOK ==
    /\ \A c \in Caller :
        /\ call[c].op \in Operation \cup {"none"}
        /\ call[c].flaws \subseteq Flaw
        /\ call[c].pc \in {"idle", "waiting", "backoff", "done"}
        /\ call[c].attempt \in 0..MaxAttempts
    /\ wire \in [Caller -> [1..MaxAttempts -> {"none", "sent", "queued", "ended"}]]
    /\ permits \in 0..MaxInFlight
    /\ effects \in [Caller -> 0..MaxAttempts]

Done(c) == call[c].pc = "done"

\* The commands of a call that the worker may still run.
Outstanding(c) == {n \in 1..MaxAttempts : wire[c][n] \in {"sent", "queued"}}

\* However often a send or an acknowledgement is repeated, and whichever of
\* its attempts are lost, late or carried out after the caller has gone, it
\* takes effect once: one prepared send is one message.
RepeatsTakeEffectOnce ==
    \A c \in Caller : call[c].op \in Deduplicated => effects[c] <= 1

\* A call that is not idempotent (create, join, resume, leave, archive,
\* heartbeat) is never carried out twice, also when its answer was lost.
UnsafeCallsRunOnce ==
    \A c \in Caller : call[c].op \in Never => effects[c] <= 1

\* A success is reported only for a call the relay has carried out.
SuccessIsTrue ==
    \A c \in Caller :
        call[c].result = Ok /\ call[c].op \notin Safe => effects[c] = 1

\* A semantic refusal, or an internal error, that a call of one attempt
\* reports is final: the call has had no effect and none of its commands can
\* still run.  (A busy store's answer is not final: the command it gave up
\* waiting for is still queued.)
RefusalsAreFinal ==
    \A c \in Caller :
        /\ Done(c)
        /\ call[c].op \in Never
        /\ call[c].result.kind \in {"Api", "ClientBusy", "InvalidRequest"}
        /\ call[c].result.kind = "Api" => call[c].result.code \notin RetryableCode
        => effects[c] = 0 /\ Outstanding(c) = {}

\* The permits are exactly the calls that wait for the relay: none is lost by
\* a timeout or a retry, and a call that backs off holds none.
PermitsAreExact ==
    permits = MaxInFlight - Cardinality({c \in Caller : call[c].pc = "waiting"})

\* A request the relay's handler would refuse is refused by the client
\* before it takes a permit: the two sets of checks agree.
FlawedRequestsStayLocal ==
    \A c \in Caller :
        call[c].attempt > 0 => Refusals(call[c].op, call[c].flaws) = {}

\* Only a call the relay has not decided is repeated: after an answer that
\* is neither a loss, a timeout nor a retryable error no attempt follows.
DecidedCallsAreNotRepeated ==
    [][\A c \in Caller :
        /\ answer[c] \notin {None, Broken}
        /\ answer[c].status \notin {408, 429, 503}
        => call'[c].attempt = call[c].attempt]_vars

\* A send that has been carried out is reported as sent or as
\* outcome_unknown.
CommittedSendIsNotDenied ==
    \A c \in Caller :
        Done(c) /\ call[c].op = "send" /\ effects[c] = 1 =>
            \/ call[c].result = Ok
            \/ ShownCode(c) = "OutcomeUnknown"

\* A retry never repeats an effect, whichever attempts are lost, late or still
\* queued; a success or a refusal that a call reports is true, and permits are
\* returned (psst-client's execute loop against the relay's handlers).
CallsAreTruthful ==
    /\ TypeOK /\ RepeatsTakeEffectOnce /\ UnsafeCallsRunOnce /\ PermitsAreExact
    /\ SuccessIsTrue /\ RefusalsAreFinal /\ FlawedRequestsStayLocal
=============================================================================
