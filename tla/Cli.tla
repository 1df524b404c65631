-------------------------------- MODULE Cli ---------------------------------
(***************************************************************************)
(* One-shot commands of psst (psst-cli): each is a process that resolves   *)
(* its configuration, opens the profile's session, makes its calls, stops  *)
(* the runtime, and writes one answer with an exit code.                   *)
(*                                                                         *)
(* The session runtime appears by what its calls return and by whether     *)
(* they took effect at the relay: a success did, a definite refusal did    *)
(* not, an unknown outcome either way (module Client).  The person or      *)
(* script at the shell repeats a failed command when the answer calls it   *)
(* retryable.                                                              *)
(***************************************************************************)
EXTENDS Naturals, Sequences, FiniteSets

CONSTANTS Message,   \* mail that may arrive for the profile
          Names,     \* the commands given
          Heeds,     \* the caller repeats a send only after an answer of NotSent
          MaxRuns    \* bound: processes started

CliAssumption ==
    /\ Heeds \in BOOLEAN /\ MaxRuns \in Nat \ {0}
    /\ "done" \notin Message

VARIABLES
    pc,        \* where the process is; "shell" when there is none
    cmd,       \* the command: its name, --json, --ack with ids, listen --ack
    profile,   \* the profile on disk: bound, unbound, or with a leave journal
    result,    \* Result<Value, LocalErrorCode>
    got,       \* the messages of the response
    effect,    \* what the process has changed at the relay: messages acknowledged, or "done"
    out,       \* what it has written: stream and form
    exit,      \* its exit code
    broken,    \* a write failed
    cancelled, \* Ctrl-C ended a listen
    pending, acked, shown,   \* mail: unacknowledged, acknowledged, seen on stdout
    stored,    \* messages stored for the caller's present intent
    runs       \* processes started

cliVars == <<pc, cmd, profile, result, got, effect, out, exit, broken, cancelled, pending, acked, shown, stored, runs>>
mail == <<pending, acked, shown>>
process == <<cmd, out, exit, broken, runs>>

Public == {"Health", "SquadList", "SquadCreate", "SquadDescribe", "ConfigShowEffective", "HarnessStatus"}
Local == {"ConfigShowEffective", "HarnessStatus"}
Unsupported == {"ProfileList", "DatabaseInfo"}
Reads == {"SquadRoster", "Transcript", "Status"}
Protected == {"SquadLeave", "SquadArchive", "MessageSend", "Inbox", "Listen", "MessageAcknowledge"} \cup Reads \cup Unsupported

LocalErrorCode ==
    {"InvalidRequest", "NotFound", "NotMember", "NameInUse", "LeaseExpired", "RecipientNotFound",
     "IdempotencyConflict", "RateLimited", "DatabaseBusy", "InternalError", "InvalidInput",
     "InvalidConfiguration", "InvalidOrigin", "ProfileNotFound", "ProfileLocked",
     "ProfileOriginMismatch", "ProfileAlreadyBound", "ProfileUnbound", "ConfigRead", "ConfigWrite",
     "LocalRead", "LocalWrite", "LocalPermission", "LocalLock", "RelayUnavailable", "RelayTimeout",
     "RelayProtocol", "InvalidSession", "InactiveMembership", "UnknownRecipient", "DuplicateName",
     "SquadNotFound", "SquadArchived", "MessageNotFound", "Conflict", "AuthorityDenied",
     "PayloadTooLarge", "OutcomeUnknown", "Unsupported", "Internal"}

exit_class(code) ==
    CASE code \in {"InvalidInput", "PayloadTooLarge", "Unsupported", "InvalidRequest"} -> 2
      [] code \in {"InvalidConfiguration", "InvalidOrigin", "ProfileOriginMismatch", "ConfigRead"} -> 3
      [] code \in {"RelayUnavailable", "RelayTimeout", "ProfileNotFound", "ProfileUnbound", "SquadNotFound",
                   "MessageNotFound", "NotFound", "RateLimited", "DatabaseBusy"} -> 4
      [] code \in {"Conflict", "ProfileAlreadyBound", "DuplicateName", "SquadArchived", "InactiveMembership",
                   "NameInUse", "LeaseExpired", "IdempotencyConflict"} -> 5
      [] code \in {"AuthorityDenied", "InvalidSession", "UnknownRecipient", "NotMember", "RecipientNotFound"} -> 6
      [] code = "OutcomeUnknown" -> 7
      [] code \in {"ConfigWrite", "LocalRead", "LocalWrite", "LocalPermission"} -> 8
      [] code \in {"ProfileLocked", "LocalLock"} -> 9
      [] code \in {"RelayProtocol", "Internal", "InternalError"} -> 70

retryable(code) == code \in {"ProfileLocked", "LocalLock", "RelayUnavailable", "RelayTimeout",
                             "OutcomeUnknown", "RateLimited", "DatabaseBusy"}

\* map_client_error of a call's error, given by its kind or, for Api, by its code.
map_client_error(kind) ==
    CASE kind = "InvalidRequest" -> "InvalidInput"
      [] kind \in {"MalformedCredential", "MalformedResponse", "UnexpectedHttp"} -> "RelayProtocol"
      [] kind = "Transport" -> "RelayUnavailable"
      [] kind = "Timeout" -> "RelayTimeout"
      [] kind = "ResponseTooLarge" -> "PayloadTooLarge"
      [] kind = "ClientBusy" -> "LocalLock"
      [] kind \in LocalErrorCode -> kind

local_io(kind) ==
    CASE kind = "PermissionDenied" -> "LocalPermission"
      [] kind \in {"WouldBlock", "AddrInUse"} -> "ProfileLocked"
      [] kind = "AlreadyExists" -> "ProfileAlreadyBound"
      [] kind = "NotFound" -> "InvalidSession"
      [] OTHER -> "LocalRead"

\* Faulty: a shutdown that timed out is an error of the local machine.
SessionErrorLocal(error) ==
    CASE error \in {"ShutdownTimedOut", "NotReady"} -> "LocalRead"
      [] error = "RecoveryOutcomeUnknown" -> "OutcomeUnknown"
      [] error = "Unbound" -> "ProfileUnbound"
      [] error \in {"SendCapacity", "OperationCapacity"} -> "LocalLock"

\* The variants of SessionError that wrap no other error.
map_session_error(error) ==
    CASE error \in {"ShutdownTimedOut", "RecoveryOutcomeUnknown"} -> "OutcomeUnknown"
      [] error = "NotReady" -> "InvalidSession"
      [] error = "Unbound" -> "ProfileUnbound"
      [] error \in {"SendCapacity", "OperationCapacity"} -> "LocalLock"

\* What a call of the runtime may report without having reached the relay, or refused by it.
SessionRefusals == {map_session_error("NotReady"), map_session_error("OperationCapacity"),
             map_client_error("NotMember"), map_client_error("DatabaseBusy")}

\* What it reports when the relay may have carried it out.  DatabaseBusy is also the answer for a
\* command that timed out in the relay's queue; a repetition inside the client may find no permit;
\* the transport error of an owned send, but not its timeout, is captured as OutcomeUnknown.
Unknown(name) ==
    IF name \in {"SquadJoin", "SquadLeave"}
    THEN {map_client_error("OutcomeUnknown"), map_client_error("DatabaseBusy")}
    ELSE {map_client_error("Timeout"), map_client_error("ClientBusy"), map_client_error("DatabaseBusy"),
          map_client_error(IF name = "MessageSend" THEN "OutcomeUnknown" ELSE "Transport")}

\* The answers after which a send can be repeated: the process did not get as far.
NotSent == {local_io("AddrInUse"), map_client_error("Transport")}

-----------------------------------------------------------------------------
NoResult == "None"
OkResult == "Ok"

CliInit ==
    /\ pc = "shell" /\ result = NoResult /\ got = {} /\ effect = {} /\ out = <<>> /\ exit = 0
    /\ cmd = [name |-> NoResult, json |-> FALSE, ids |-> {}, all |-> FALSE]
    /\ profile \in {"bound", "unbound", "leaving"}
    /\ broken = FALSE /\ cancelled = FALSE
    /\ pending = {} /\ acked = {} /\ shown = {} /\ stored = 0 /\ runs = 0

Goto(label, r) == pc' = label /\ result' = r

Deliver ==
    /\ \E m \in Message \ (pending \cup acked) : pending' = pending \cup {m}
    /\ UNCHANGED <<pc, profile, result, got, effect, process, cancelled, acked, shown, stored>>

Start(command) ==
    /\ pc = "shell" /\ runs < MaxRuns
    /\ runs' = runs + 1
    /\ cmd' = command
    /\ Goto("open", NoResult)
    /\ got' = {} /\ effect' = {} /\ out' = <<>> /\ exit' = 0
    /\ broken' = FALSE /\ cancelled' = FALSE
    /\ UNCHANGED <<profile, mail>>

\* A new command; identifiers to acknowledge are ones the caller has been shown.
Invoke(name, json, ids, all) ==
    /\ name = "MessageAcknowledge" => ids # {}
    /\ ids # {} => name \in {"Inbox", "MessageAcknowledge"}
    /\ all => name = "Listen"
    /\ Start([name |-> name, json |-> json, ids |-> ids, all |-> all])
    /\ stored' = 0

\* The caller repeats a command whose failure was called retryable.
Repeat ==
    /\ result \in LocalErrorCode /\ retryable(result) /\ exit # 0 /\ ~broken
    /\ Heeds /\ cmd.name = "MessageSend" => result \in NotSent
    /\ Start(cmd)
    /\ UNCHANGED stored

\* resolve_config, and client(): nothing else has happened yet.
ResolveFails ==
    /\ pc = "open"
    /\ \E code \in {"InvalidConfiguration", "InvalidOrigin"} : Goto("emit", code)
    /\ UNCHANGED <<profile, got, effect, process, cancelled, mail, stored>>

\* execute: health, readiness, the public squad calls, and the two local reports.
ExecutePublic ==
    /\ pc = "open" /\ cmd.name \in Public
    /\ \/ Goto("emit", OkResult)
       \/ cmd.name \notin Local /\ \E code \in SessionRefusals \cup Unknown(cmd.name) : Goto("emit", code)
       \/ cmd.name = "HarnessStatus" /\ \E code \in {"InvalidSession", "LocalRead", "LocalPermission"} : Goto("emit", code)
    /\ UNCHANGED <<profile, got, effect, process, cancelled, mail, stored>>

\* open_session: an interrupted leave is finished first, or turns out not to have happened.
OpenSession ==
    /\ pc = "open" /\ cmd.name \in Protected
    /\ \/ profile # "bound" /\ profile' = "unbound" /\ Goto("emit", "ProfileUnbound")
       \/ profile # "unbound" /\ profile' = "bound" /\ Goto("call", NoResult)
       \/ /\ profile # "unbound"
          /\ \E code \in {local_io("AddrInUse"), local_io("NotFound"), local_io("Other"), "ProfileOriginMismatch",
                          map_client_error("Transport"), map_client_error("NotMember"),
                          map_session_error("RecoveryOutcomeUnknown")} : Goto("emit", code)
          /\ UNCHANGED profile
    /\ UNCHANGED <<got, effect, process, cancelled, mail, stored>>

-----------------------------------------------------------------------------
\* The calls.  After a refusal inside archive and roster the function returns
\* at once; every other result passes through the runtime's shutdown.
AfterRefusal(name) == IF name \in {"SquadArchive", "SquadRoster"} THEN "emit" ELSE "stop"

Refused ==
    /\ pc = "call" /\ cmd.name \in Protected \ (Unsupported \cup {"Status"})
    /\ \E code \in SessionRefusals :
          /\ cmd.name = "SquadLeave" => code # "NotMember"
          /\ Goto(AfterRefusal(cmd.name), code)
    /\ UNCHANGED <<profile, got, effect, process, cancelled, mail, stored>>

\* Failures of a body read from a file or stdin.
read_bounded_utf8 == {"PayloadTooLarge", "LocalRead", "LocalPermission", "InvalidInput"}

\* The wrong squad's name, an unknown command, a body that is too large or not UTF-8.
RefusedHere ==
    /\ pc = "call"
    /\ \/ cmd.name = "SquadArchive" /\ Goto("stop", "AuthorityDenied")
       \/ cmd.name \in Unsupported /\ Goto("stop", "Unsupported")
       \/ /\ cmd.name = "MessageSend"
          /\ \E code \in read_bounded_utf8 : Goto("stop", code)
    /\ UNCHANGED <<profile, got, effect, process, cancelled, mail, stored>>

Read ==
    /\ pc = "call" /\ cmd.name \in Reads
    /\ \/ Goto("stop", OkResult)
       \/ cmd.name # "Status" /\ \E code \in Unknown(cmd.name) : Goto(AfterRefusal(cmd.name), code)
    /\ UNCHANGED <<profile, got, effect, process, cancelled, mail, stored>>

\* execute_send and archive.
Mutate ==
    /\ pc = "call" /\ cmd.name \in {"MessageSend", "SquadArchive"}
    /\ \/ /\ effect' = {"done"}
          /\ stored' = stored + (IF cmd.name = "MessageSend" THEN 1 ELSE 0)
          /\ \/ Goto("stop", OkResult)
             \/ \E code \in Unknown(cmd.name) : Goto(AfterRefusal(cmd.name), code)
       \/ /\ UNCHANGED <<effect, stored>>
          /\ \E code \in Unknown(cmd.name) : Goto(AfterRefusal(cmd.name), code)
    /\ UNCHANGED <<profile, got, process, cancelled, mail>>

\* leave, and finish_leave: a leave that succeeded has stopped the runtime itself; one of a
\* membership that had ended clears the profile too; DatabaseBusy is taken for a refusal.
Leave ==
    /\ pc = "call" /\ cmd.name = "SquadLeave"
    /\ \/ profile' = "unbound" /\ effect' = {"done"} /\ Goto("emit", OkResult)
       \/ profile' = "unbound" /\ UNCHANGED effect /\ Goto("stop", map_client_error("NotMember"))
       \/ \E code \in Unknown(cmd.name) :
             /\ Goto("stop", code)
             /\ profile' = IF code = "DatabaseBusy" THEN profile ELSE "leaving"
             /\ effect' \in {{}, {"done"}}
    /\ UNCHANGED <<got, process, cancelled, mail, stored>>

\* execute_join, which opens no session: join_and_bind, then the runtime's shutdown.
Join ==
    /\ pc = "open" /\ cmd.name = "SquadJoin"
    /\ \/ /\ profile = "unbound"
          /\ \/ profile' = "bound" /\ effect' = {"done"} /\ Goto("stop", OkResult)
             \/ /\ \E code \in Unknown(cmd.name) : Goto("emit", code)
                /\ effect' \in {{}, {"done"}} /\ UNCHANGED profile
       \/ /\ \E code \in {"NameInUse", "ProfileLocked", "ProfileAlreadyBound", "OutcomeUnknown"} : Goto("emit", code)
          /\ UNCHANGED <<effect, profile>>
    /\ UNCHANGED <<got, process, cancelled, mail, stored>>

\* runtime.acknowledge(ids): all of them or none.
Acknowledge(ids, next) ==
    \/ /\ pending' = pending \ ids /\ acked' = acked \cup ids /\ effect' = effect \cup ids
       /\ \/ Goto(next, IF next = "stop" THEN OkResult ELSE result)
          \/ \E code \in Unknown(cmd.name) : Goto("stop", code)
    \/ /\ UNCHANGED <<pending, acked, effect>>
       /\ \E code \in Unknown(cmd.name) : Goto("stop", code)

\* execute_ack.
AcknowledgeIds ==
    /\ pc = "call" /\ cmd.name = "MessageAcknowledge"
    /\ Acknowledge(cmd.ids, "stop")
    /\ UNCHANGED <<profile, got, process, cancelled, shown, stored>>

\* execute_inbox: the acknowledgement comes before the reading.
AcknowledgeFirst ==
    /\ pc = "call" /\ cmd.name = "Inbox" /\ cmd.ids # {}
    /\ Acknowledge(cmd.ids, "fetch")
    /\ UNCHANGED <<profile, got, process, cancelled, shown, stored>>

Inbox ==
    /\ cmd.name = "Inbox" /\ (pc = "fetch" \/ (pc = "call" /\ cmd.ids = {}))
    /\ \/ got' = pending /\ Goto("stop", OkResult)
       \/ \E code \in Unknown("Inbox") : Goto("stop", code) /\ UNCHANGED got
    /\ UNCHANGED <<profile, effect, process, cancelled, mail, stored>>

\* execute_listen_until: polls until there is mail.
Poll ==
    /\ pc = "call" /\ cmd.name = "Listen"
    /\ \/ /\ pending # {} /\ got' = pending
          /\ IF cmd.all THEN Goto("ack", NoResult) ELSE Goto("stop", OkResult)
       \/ \E code \in Unknown("Listen") : Goto("stop", code) /\ UNCHANGED got
    /\ UNCHANGED <<profile, effect, process, cancelled, mail, stored>>

\* Ctrl-C wins the select: the poll is dropped, with whatever it had received.
Cancel ==
    /\ pc = "call" /\ cmd.name = "Listen"
    /\ cancelled' = TRUE
    /\ Goto("stop", OkResult)
    /\ UNCHANGED <<profile, got, effect, process, mail, stored>>

\* listen --ack: what was received is acknowledged, then returned.
AcknowledgeReceived ==
    /\ pc = "ack"
    /\ \/ Acknowledge(got, "stop")
       \/ (\E code \in SessionRefusals : Goto("stop", code)) /\ UNCHANGED <<pending, acked, effect>>
    /\ UNCHANGED <<profile, got, process, cancelled, shown, stored>>

-----------------------------------------------------------------------------
\* runtime.shutdown(): its failure replaces a success, never an error.
Stop ==
    /\ pc = "stop"
    /\ \/ Goto("emit", result)
       \/ Goto("emit", IF result = OkResult THEN map_session_error("ShutdownTimedOut") ELSE result)
    /\ UNCHANGED <<profile, got, effect, process, cancelled, mail, stored>>

\* emit_success and emit_failure.
Emissions(r, json) ==
    IF r = OkResult THEN << <<"stdout", IF json THEN "success" ELSE "text">> >>
              ELSE << <<"stderr", IF json THEN "failure" ELSE "text">> >>

\* write_bytes: a write that fails makes the exit code 70.
Emit ==
    /\ pc = "emit"
    /\ pc' = "shell"
    /\ \/ /\ out' = Emissions(result, cmd.json)
          /\ exit' = IF result = OkResult THEN 0 ELSE exit_class(result)
          /\ shown' = IF result = OkResult THEN shown \cup got ELSE shown
          /\ UNCHANGED broken
       \/ exit' = 70 /\ broken' = TRUE /\ UNCHANGED <<out, shown>>
    /\ UNCHANGED <<cmd, runs, profile, result, got, effect, cancelled, pending, acked, stored>>

CliNext ==
    \/ Deliver
    \/ \E name \in Names, json \in BOOLEAN, ids \in SUBSET (shown \cap pending), all \in BOOLEAN :
          Invoke(name, json, ids, all)
    \/ Repeat
    \/ ResolveFails \/ ExecutePublic \/ OpenSession
    \/ Refused \/ RefusedHere \/ Read \/ Mutate \/ Leave \/ Join
    \/ AcknowledgeIds \/ AcknowledgeFirst \/ Inbox
    \/ Poll \/ Cancel \/ AcknowledgeReceived
    \/ Stop \/ Emit

CliSpec == CliInit /\ [][CliNext]_cliVars

-----------------------------------------------------------------------------
Ended == pc = "shell" /\ runs > 0

\* A command is at one of execute's steps, and ends in one of the exit classes.
CliTypeOK ==
    /\ pc \in {"shell", "open", "call", "fetch", "ack", "stop", "emit"}
    /\ cmd \in [name : Names \cup {NoResult}, json : BOOLEAN, ids : SUBSET Message, all : BOOLEAN]
    /\ profile \in {"bound", "unbound", "leaving"}
    /\ result \in LocalErrorCode \cup {OkResult, NoResult}
    /\ got \subseteq Message /\ pending \subseteq Message /\ acked \subseteq Message /\ shown \subseteq Message
    /\ exit \in {0, 2, 3, 4, 5, 6, 7, 8, 9, 70}
    /\ stored \in Nat /\ runs \in 0..MaxRuns

\* A send that ends in the exit classes of usage, configuration, conflict, authority or local I/O
\* stored no message, although the runtime's shutdown, which may fail too, comes after it
\* (execute_protected).  The classes of an unavailable relay and of a local lock do not say so:
\* a timeout, a busy database and a client without permits are reported there as they are.
DefiniteFailureSentNothing ==
    Ended /\ cmd.name = "MessageSend" /\ exit \in {2, 3, 5, 6, 8} => effect = {}

\* In JSON mode a process that could write leaves exactly one document: a success on stdout
\* with exit code 0, or a failure on stderr with the failure's exit class (emit_success,
\* emit_failure), and this on every path through the command.
OneDocument ==
    Ended /\ cmd.json /\ ~broken =>
        \/ exit = 0 /\ result = OkResult /\ out = << <<"stdout", "success">> >>
        \/ exit # 0 /\ result \in LocalErrorCode /\ exit = exit_class(result) /\ out = << <<"stderr", "failure">> >>

\* A process acknowledges what its command line names, or with listen --ack what it received;
\* reading alone, and a listen ended by Ctrl-C, acknowledge nothing (execute_inbox,
\* execute_listen_until).
AcknowledgesOnlyAsAsked ==
    effect \cap Message \subseteq cmd.ids \cup (IF cmd.all /\ ~cancelled THEN got ELSE {})

\* A caller who repeats a send after profile_locked and relay_unavailable stores one message per
\* intent at most, although each process prepares a send of its own: the capture of a send's
\* transport error keeps relay_unavailable for sends that were not made.
OneMessagePerIntent == stored <= 1

\* A message is acknowledged only after it has been put before the consumer.
AckedWasShown == Ended => acked \subseteq shown

\* What holds of a caller's processes at every moment.
CliInvariant ==
    /\ CliTypeOK /\ DefiniteFailureSentNothing /\ OneDocument /\ AcknowledgesOnlyAsAsked
    /\ OneMessagePerIntent
=============================================================================
