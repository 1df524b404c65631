-------------------------------- MODULE Http --------------------------------
(***************************************************************************)
(* The relay's HTTP surface (psst-relay/src/lib.rs) and the error codes of *)
(* the wire protocol (psst-protocol/src/error.rs), as tables: what each    *)
(* handler checks, in the order in which it checks it, before it hands a   *)
(* command to the store's worker, and what a failure of the worker becomes *)
(* on the wire.                                                            *)
(*                                                                         *)
(* A request is abstracted to the set of its flaws:                        *)
(*   "content"     the body's validate() refuses a value                   *)
(*   "body"        the message body is longer than MessageBody::MAX_BYTES  *)
(*   "query"       limit or wait is out of its range                       *)
(*   "path"        the squad in the path is not a SquadName                *)
(*   "credential"  no single well-formed Authorization header              *)
(***************************************************************************)
EXTENDS Integers, Sequences

Flaw == {"content", "body", "query", "path", "credential"}

-----------------------------------------------------------------------------
(***************************************************************************)
(* The handlers: the checks each one makes before its command is queued.   *)
(***************************************************************************)

health == << >>
ready == << >>
list_squads == << >>
create_squad == << "content" >>
describe_squad == << "path" >>
join_squad == << "content", "path" >>
resume_squad == << "content", "credential", "path" >>
leave_squad == << "credential", "path" >>
archive_squad == << "credential", "path" >>
roster == << "path", "credential" >>
heartbeat == << "content", "credential" >>
send_message == << "body", "content", "credential" >>
inbox == << "query", "credential" >>
acknowledge_messages == << "content", "credential" >>
transcript == << "query", "credential", "path" >>

\* The routes of the relay, by the client's name of the operation.
Route == [health |-> health, ready |-> ready, list_squads |-> list_squads,
          create_squad |-> create_squad, describe_squad |-> describe_squad,
          join |-> join_squad, resume |-> resume_squad, leave |-> leave_squad,
          archive_squad |-> archive_squad, roster |-> roster,
          heartbeat |-> heartbeat, send |-> send_message, inbox |-> inbox,
          acknowledge |-> acknowledge_messages, transcript |-> transcript]

Operation == DOMAIN Route

\* The code of a check that fails.
CheckCode(flaw) ==
    CASE flaw = "body"       -> "PayloadTooLarge"
      [] flaw = "credential" -> "NotFound"
      [] OTHER               -> "InvalidRequest"

\* The codes with which the handler of op may refuse a request with these
\* flaws before anything is queued: the first failing check decides.
Refusals(op, flaws) ==
    {CheckCode(Route[op][i]) : i \in
        {j \in DOMAIN Route[op] :
            /\ Route[op][j] \in flaws
            /\ \A k \in 1..(j - 1) : Route[op][k] \notin flaws}}

-----------------------------------------------------------------------------
(***************************************************************************)
(* The wire errors.                                                        *)
(***************************************************************************)

ApiErrorCode == {"InvalidRequest", "NotFound", "SquadArchived", "NotMember",
                 "NameInUse", "LeaseExpired", "RecipientNotFound",
                 "IdempotencyConflict", "PayloadTooLarge", "RateLimited",
                 "DatabaseBusy", "InternalError"}

http_status(code) ==
    CASE code = "InvalidRequest"                     -> 400
      [] code = "NotMember"                          -> 403
      [] code \in {"NotFound", "RecipientNotFound"}  -> 404
      [] code = "PayloadTooLarge"                    -> 413
      [] code = "RateLimited"                        -> 429
      [] code = "InternalError"                      -> 500
      [] code = "DatabaseBusy"                       -> 503
      [] OTHER                                       -> 409

\* A failed dispatch as a wire code: a full queue, a worker that has gone or
\* does not answer in time, or the store's own error.
DispatchCode(error) ==
    CASE error = "Full" -> "RateLimited"
      [] error \in {"Unavailable", "Timeout"} -> "DatabaseBusy"
      [] error = "InvalidStateTransition" -> "InternalError"
      [] OTHER -> error

RetryableCode == {"RateLimited", "DatabaseBusy"}

\* The answers of the relay: an ApiFailure's envelope, a success, the bare
\* status of the deadline, and the readiness report of a store that fails.
ApiFailure(code) == [status |-> http_status(code), code |-> code]
Success == [status |-> 200, code |-> "none"]
DeadlineExpired == [status |-> 408, code |-> "none"]
NotReady == [status |-> 503, code |-> "none"]
=============================================================================
