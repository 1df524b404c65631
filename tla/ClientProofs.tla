---------------------------- MODULE ClientProofs ----------------------------
(***************************************************************************)
(* What a process of psst answers, for any mail, any commands and any      *)
(* number of processes of a caller who repeats a send only where none was  *)
(* made: its exit class and its document tell what happened, and it        *)
(* acknowledges only what it was asked to.                                 *)
(*                                                                         *)
(* The argument follows a command through execute: until it has made its   *)
(* calls it has no result and no effect; from then on a stored message     *)
(* means a success or one of the errors of a call that may have been       *)
(* carried out, and the runtime's shutdown can only turn the success into  *)
(* such an error; and what is written at the end is that result.           *)
(*                                                                         *)
(* Then the calls of the typed client under it, for any callers, attempts  *)
(* and permits: a retry repeats no effect, and what a call reports is      *)
(* true.  The argument follows a call and its attempts: a call that must   *)
(* not be repeated has one attempt, which is on the wire, with the worker  *)
(* or over, and its effect has happened only in the last case; and a       *)
(* refusal is sent only by what ends the attempt without an effect.        *)
(***************************************************************************)
EXTENDS Cli, Client, FiniteSetTheorems, TLAPS

-----------------------------------------------------------------------------
(* The inductive invariant. *)

Result == LocalErrorCode \cup {OkResult}

\* A command that is still at its calls has no result and, except between the
\* acknowledgement and the reading of an inbox, no effect.
Placed ==
    /\ pc \in {"open", "call", "fetch", "ack"} => result = NoResult /\ ~cancelled
    /\ pc \in {"open", "call", "ack"} => effect = {}
    /\ pc = "fetch" => cmd.name = "Inbox"
    /\ pc = "ack" => cmd.name = "Listen" /\ cmd.all
    /\ pc \in {"stop", "emit"} => result \in Result
    /\ cmd.all => cmd.name = "Listen"
    /\ pc # "shell" => ~broken
    /\ broken \in BOOLEAN /\ cancelled \in BOOLEAN

\* What a process that has ended has written, and with which exit code.
Answered ==
    Ended => \/ broken /\ exit = 70
             \/ /\ ~broken /\ result \in Result
                /\ exit = IF result = OkResult THEN 0 ELSE exit_class(result)
                /\ out = Emissions(result, cmd.json)

\* The answers of a send that may have been carried out.
MayHaveSent == {OkResult, "OutcomeUnknown", "RelayTimeout", "LocalLock", "DatabaseBusy"}

\* A send that stored a message has one of these answers; of a caller who heeds
\* them, no other send of the same intent stored one.
Sent ==
    /\ (Heeds /\ stored # 0) \/ (cmd.name = "MessageSend" /\ effect # {}) =>
         pc \in {"stop", "emit", "shell"} /\ result \in MayHaveSent
    /\ Heeds => OneMessagePerIntent
    /\ stored # 0 => cmd.name = "MessageSend"

Sound == CliTypeOK /\ Placed /\ Answered /\ Sent /\ AcknowledgesOnlyAsAsked

-----------------------------------------------------------------------------
(* The codes. *)

\* No code is a success, and the errors of a send that may have been carried out
\* are not those after which it is repeated.
LEMMA Codes ==
    /\ NoResult \notin LocalErrorCode /\ OkResult \notin LocalErrorCode /\ OkResult # NoResult
    /\ SessionRefusals \subseteq LocalErrorCode /\ read_bounded_utf8 \subseteq LocalErrorCode
    /\ \A name : Unknown(name) \subseteq LocalErrorCode
    /\ Unknown("MessageSend") \subseteq MayHaveSent /\ NotSent \cap MayHaveSent = {}
    /\ map_session_error("ShutdownTimedOut") = "OutcomeUnknown"
    /\ map_session_error("RecoveryOutcomeUnknown") = "OutcomeUnknown"
    /\ map_client_error("Transport") = "RelayUnavailable"
    /\ map_client_error("NotMember") = "NotMember"
    /\ local_io("AddrInUse") = "ProfileLocked" /\ local_io("NotFound") = "InvalidSession"
    /\ local_io("Other") = "LocalRead"
<1>1. /\ map_session_error("ShutdownTimedOut") = "OutcomeUnknown"
      /\ map_session_error("RecoveryOutcomeUnknown") = "OutcomeUnknown"
      /\ map_session_error("NotReady") = "InvalidSession"
      /\ map_session_error("OperationCapacity") = "LocalLock"
  BY DEF map_session_error
<1>2. /\ map_client_error("Transport") = "RelayUnavailable"
      /\ map_client_error("Timeout") = "RelayTimeout"
      /\ map_client_error("ClientBusy") = "LocalLock"
  BY DEF map_client_error, LocalErrorCode
<1>3. /\ map_client_error("NotMember") = "NotMember"
      /\ map_client_error("DatabaseBusy") = "DatabaseBusy"
      /\ map_client_error("OutcomeUnknown") = "OutcomeUnknown"
  BY DEF map_client_error, LocalErrorCode
<1>4. /\ local_io("AddrInUse") = "ProfileLocked" /\ local_io("NotFound") = "InvalidSession"
      /\ local_io("Other") = "LocalRead"
  BY DEF local_io
<1>5. SessionRefusals = {"InvalidSession", "LocalLock", "NotMember", "DatabaseBusy"}
  BY <1>1, <1>3 DEF SessionRefusals
<1>6. \A name : Unknown(name) \subseteq {"OutcomeUnknown", "RelayTimeout", "RelayUnavailable", "LocalLock",
                                        "DatabaseBusy"}
  BY <1>2, <1>3 DEF Unknown
<1>7. Unknown("MessageSend") \subseteq MayHaveSent /\ NotSent \cap MayHaveSent = {}
  BY <1>2, <1>3, <1>4 DEF Unknown, NotSent, MayHaveSent, OkResult
<1>8. /\ {"InvalidSession", "LocalLock", "NotMember", "DatabaseBusy", "OutcomeUnknown",
          "RelayTimeout", "RelayUnavailable"} \subseteq LocalErrorCode
      /\ read_bounded_utf8 \subseteq LocalErrorCode
      /\ NoResult \notin LocalErrorCode /\ OkResult \notin LocalErrorCode /\ OkResult # NoResult
  BY DEF LocalErrorCode, read_bounded_utf8, NoResult, OkResult
<1>9. SessionRefusals \subseteq LocalErrorCode /\ \A name : Unknown(name) \subseteq LocalErrorCode
  BY <1>5, <1>6, <1>8
<1> QED BY <1>1, <1>2, <1>3, <1>4, <1>7, <1>8, <1>9

\* Every code has an exit class that is not the success's; the errors of a send
\* that may have been carried out have those of an unavailable relay, of an
\* unknown outcome and of a lock.
LEMMA ExitClasses ==
    /\ \A code \in LocalErrorCode : exit_class(code) \in {2, 3, 4, 5, 6, 7, 8, 9, 70}
    /\ \A code \in MayHaveSent \ {OkResult} : exit_class(code) \in {4, 7, 9}
<1>1. \A code \in LocalErrorCode : exit_class(code) \in {2, 3, 4, 5, 6, 7, 8, 9, 70}
  BY DEF exit_class, LocalErrorCode
<1>2. \A code \in MayHaveSent \ {OkResult} : exit_class(code) \in {4, 7, 9}
  BY DEF exit_class, MayHaveSent
<1> QED BY <1>1, <1>2

-----------------------------------------------------------------------------
(* The steps. *)

Profile == {"bound", "unbound", "leaving"}

\* A caller begins with nothing.
LEMMA InitIsSound == CliAssumption /\ CliInit => Sound
<1> SUFFICES ASSUME CliAssumption, CliInit PROVE Sound
  OBVIOUS
<1>1. CliTypeOK
  BY DEF CliInit, CliTypeOK, CliAssumption
<1>2. Placed
  BY Zenon DEF CliInit, Placed
<1>4. Answered
  BY DEF CliInit, Answered, Ended
<1>3. Sent /\ AcknowledgesOnlyAsAsked
  BY DEF CliInit, Sent, AcknowledgesOnlyAsAsked, OneMessagePerIntent
<1> QED BY <1>1, <1>2, <1>3, <1>4 DEF Sound

\* A step without an effect: configuration, opening, refusals, readings, the
\* runtime's shutdown.
LEMMA QuietKeeps ==
    ASSUME Sound, NEW p \in {"call", "stop", "emit"}, NEW r, Goto(p, r),
           pc \in {"open", "call", "stop"},
           p = "call" => pc = "open" /\ r = NoResult,
           p # "call" => r \in Result,
           pc = "stop" => /\ p = "emit"
                          /\ result \in MayHaveSent => r \in MayHaveSent,
           profile' \in Profile,
           UNCHANGED <<got, effect, process, cancelled, mail, stored>>
    PROVE  Sound'
<1>1. CliTypeOK'
  BY DEF Sound, CliTypeOK, Goto, process, mail, Result, Profile
<1>2. Placed'
  BY DEF Sound, Placed, Goto, process, mail
<1>3. Answered'
  BY DEF Answered, Ended, Goto
<1>4. Sent'
  BY DEF Sound, Sent, OneMessagePerIntent, Goto, process, mail
<1>5. AcknowledgesOnlyAsAsked'
  BY DEF Sound, AcknowledgesOnlyAsAsked, OneMessagePerIntent, process, mail
<1> QED BY <1>1, <1>2, <1>3, <1>4, <1>5 DEF Sound

\* A join, a leave or an archive that took effect, or may have.
LEMMA EffectKeeps ==
    ASSUME Sound, CliAssumption, NEW p \in {"stop", "emit"}, NEW r \in Result, Goto(p, r),
           pc \in {"open", "call"}, cmd.name # "MessageSend",
           effect' \in {{}, {"done"}}, profile' \in Profile,
           UNCHANGED <<got, process, cancelled, mail, stored>>
    PROVE  Sound'
<1>1. CliTypeOK'
  BY DEF Sound, CliTypeOK, Goto, process, mail, Result, Profile
<1>2. Placed'
  BY DEF Sound, Placed, Goto, process, mail
<1>3. Answered'
  BY DEF Answered, Ended, Goto
<1>4. Sent'
  BY DEF Sound, Sent, OneMessagePerIntent, Goto, process, mail
<1>5. AcknowledgesOnlyAsAsked'
  BY DEF CliAssumption, AcknowledgesOnlyAsAsked
<1> QED BY <1>1, <1>2, <1>3, <1>4, <1>5 DEF Sound

\* A send: a message is stored at most once, and then the answer is a success
\* or one of the errors that leave it open.
LEMMA SendKeeps ==
    ASSUME Sound, CliAssumption, Mutate, cmd.name = "MessageSend"
    PROVE  Sound'
<1>1. /\ pc = "call" /\ pc' = "stop" /\ result' \in MayHaveSent
      /\ effect' \in {effect, {"done"}} /\ stored' \in {stored, stored + 1}
      /\ UNCHANGED <<profile, got, process, cancelled, mail>>
  BY Codes DEF Mutate, Goto, AfterRefusal, MayHaveSent
<1>2. (Heeds => stored = 0) /\ effect = {}
  BY <1>1 DEF Sound, Sent, Placed
<1>3. CliTypeOK'
  BY <1>1 DEF Sound, CliTypeOK, process, mail, MayHaveSent, LocalErrorCode
<1>4. Placed'
  BY <1>1 DEF Sound, Placed, process, mail, Result, MayHaveSent, LocalErrorCode
<1>5. Answered' /\ Sent'
  BY <1>1, <1>2 DEF Answered, Ended, Sent, OneMessagePerIntent, process
<1>6. AcknowledgesOnlyAsAsked'
  BY <1>1, <1>2 DEF CliAssumption, AcknowledgesOnlyAsAsked, OneMessagePerIntent
<1> QED BY <1>3, <1>4, <1>5, <1>6 DEF Sound

\* An acknowledgement, of what the command line names or of what was received,
\* that took effect or may have.
LEMMA AcknowledgeKeeps ==
    ASSUME Sound, NEW ids \in SUBSET Message, NEW p \in {"stop", "fetch"},
           pc \in {"call", "ack"}, cmd.name # "MessageSend",
           ids = cmd.ids \/ (ids = got /\ cmd.all),
           p = "fetch" => cmd.name = "Inbox",
           Acknowledge(ids, p),
           UNCHANGED <<profile, got, process, cancelled, shown, stored>>
    PROVE  Sound'
<1>1. /\ effect' \in {effect, effect \cup ids}
      /\ pending' \subseteq Message /\ acked' \subseteq Message
  BY DEF Acknowledge, Sound, CliTypeOK
<1>2. \/ pc' = "fetch" /\ cmd.name = "Inbox" /\ result' = NoResult
      \/ pc' = "stop" /\ result' \in Result
  <2>1. result = NoResult
    BY DEF Sound, Placed
  <2> QED BY <2>1, Codes DEF Acknowledge, Goto, Result
<1>3. effect = {} /\ ~cancelled /\ UNCHANGED <<cmd, out, exit, broken, runs>>
  BY DEF Sound, Placed, process
<1>4. CliTypeOK'
  BY <1>1, <1>2, <1>3 DEF Sound, CliTypeOK, Result
<1>5. Placed'
  BY <1>2, <1>3 DEF Sound, Placed
<1>6. Answered'
  BY <1>2 DEF Sound, Answered, Ended, OneMessagePerIntent
<1>7. Sent'
  BY <1>2, <1>3 DEF Sound, Sent, OneMessagePerIntent
<1>8. AcknowledgesOnlyAsAsked'
  BY <1>1, <1>3 DEF AcknowledgesOnlyAsAsked
<1> QED BY <1>4, <1>5, <1>6, <1>7, <1>8 DEF Sound

\* An inbox or a poll that returns what is pending, or fails; or Ctrl-C.
LEMMA ReceiveKeeps ==
    ASSUME Sound, Inbox \/ Poll \/ Cancel PROVE Sound'
<1>1. /\ got' \in {got, pending} /\ cancelled' \in BOOLEAN
      /\ UNCHANGED <<cmd, out, exit, broken, runs, profile, effect, pending, acked, shown, stored>>
  BY Zenon DEF Inbox, Poll, Cancel, Sound, Placed, process, mail
<1>2. \/ pc' = "stop" /\ result' \in Result
      \/ pc' = "ack" /\ result' = NoResult /\ cmd.name = "Listen" /\ cmd.all /\ ~cancelled' /\ effect = {}
  BY Codes DEF Inbox, Poll, Cancel, Goto, Sound, Placed, Result
<1>3. cmd.name \in {"Inbox", "Listen"} /\ (effect = {} \/ ~cmd.all)
  BY DEF Inbox, Poll, Cancel, Sound, Placed
<1>4. pc \in {"call", "fetch"}
  BY DEF Inbox, Poll, Cancel
<1>5. CliTypeOK'
  BY <1>1, <1>2 DEF Sound, CliTypeOK, Result
<1>6. Placed'
  BY <1>1, <1>2, <1>4 DEF Sound, Placed
<1>7. Answered'
  BY <1>1, <1>2 DEF Sound, Answered, Ended, OneMessagePerIntent
<1>8. Sent'
  BY <1>1, <1>3, <1>4 DEF Sound, Sent, OneMessagePerIntent
<1>9. AcknowledgesOnlyAsAsked'
  BY <1>1, <1>3 DEF Sound, AcknowledgesOnlyAsAsked
<1> QED BY <1>5, <1>6, <1>7, <1>8, <1>9 DEF Sound

\* A process starts with no result and no effect; what an earlier one of the
\* same intent stored is known from its answer.
LEMMA StartKeeps ==
    ASSUME Sound, CliAssumption, NEW command, Start(command),
           command \in [name : Names \cup {NoResult}, json : BOOLEAN, ids : SUBSET Message, all : BOOLEAN],
           command.all => command.name = "Listen", stored' \in Nat, Heeds => stored' = 0,
           stored' # 0 => command.name = "MessageSend"
    PROVE  Sound'
<1>1. CliTypeOK'
  <2>1. runs' \in 0..MaxRuns
    BY DEF Sound, CliTypeOK, Start, CliAssumption
  <2> QED BY <2>1 DEF Sound, CliTypeOK, Start, Goto, mail
<1>2. Placed'
  BY Zenon DEF Placed, Start, Goto
<1>3. Answered' /\ Sent'
  BY DEF Answered, Ended, Sent, OneMessagePerIntent, Start, Goto
<1>4. effect' = {} /\ AcknowledgesOnlyAsAsked'
  BY Zenon DEF AcknowledgesOnlyAsAsked, Start
<1> QED BY <1>1, <1>2, <1>3, <1>4 DEF Sound

\* Mail arrives.
LEMMA DeliverKeeps == Sound /\ Deliver => Sound'
<1> SUFFICES ASSUME Sound, Deliver PROVE Sound'
  OBVIOUS
<1>1. CliTypeOK'
  BY DEF Sound, CliTypeOK, Deliver, process
<1>2. Placed' /\ Sent'
  BY Zenon DEF Sound, Placed, Sent, OneMessagePerIntent, Deliver, process
<1>3. Answered'
  BY Zenon DEF Sound, Answered, Ended, Deliver, process
<1>4. AcknowledgesOnlyAsAsked'
  BY Zenon DEF Sound, AcknowledgesOnlyAsAsked, OneMessagePerIntent, Deliver, process
<1> QED BY <1>1, <1>2, <1>3, <1>4 DEF Sound

\* The answer is written, or cannot be.
LEMMA EmitKeeps == Sound /\ Emit => Sound'
<1> SUFFICES ASSUME Sound, Emit PROVE Sound'
  OBVIOUS
<1>1. /\ pc = "emit" /\ pc' = "shell" /\ result \in Result
      /\ UNCHANGED <<cmd, runs, profile, result, got, effect, cancelled, pending, acked, stored>>
  BY DEF Sound, Placed, Emit
<1>2. \/ /\ out' = Emissions(result, cmd.json)
         /\ exit' = IF result = OkResult THEN 0 ELSE exit_class(result)
         /\ shown' = IF result = OkResult THEN shown \cup got ELSE shown
         /\ broken' = broken
      \/ exit' = 70 /\ broken' = TRUE /\ shown' = shown
  BY Zenon DEF Emit
<1>3. exit' \in {0, 2, 3, 4, 5, 6, 7, 8, 9, 70} /\ broken' \in BOOLEAN
  BY <1>1, <1>2, ExitClasses, Zenon DEF Result, Sound, Placed
<1>4. CliTypeOK'
  BY <1>1, <1>2, <1>3 DEF Sound, CliTypeOK
<1>5. Placed' /\ Sent'
  BY <1>1, <1>3 DEF Sound, Placed, Sent, OneMessagePerIntent
<1>6. Answered'
  <2>1. ~broken
    BY <1>1 DEF Sound, Placed
  <2> QED BY <1>1, <1>2, <2>1, Zenon DEF Answered
<1>7. AcknowledgesOnlyAsAsked'
  BY <1>1 DEF Sound, AcknowledgesOnlyAsAsked, OneMessagePerIntent
<1> QED BY <1>4, <1>5, <1>6, <1>7 DEF Sound

-----------------------------------------------------------------------------
(* The theorem. *)

\* Every step keeps the invariant.
LEMMA NextKeeps ==
    ASSUME CliAssumption, Sound, [CliNext]_cliVars PROVE Sound'
<1>1. CASE Deliver
  BY <1>1, DeliverKeeps
<1>2. ASSUME NEW name \in Names, NEW json \in BOOLEAN, NEW ids \in SUBSET (shown \cap pending),
             NEW all \in BOOLEAN, Invoke(name, json, ids, all)
      PROVE  Sound'
  <2> DEFINE command == [name |-> name, json |-> json, ids |-> ids, all |-> all]
  <2>1. command \in [name : Names \cup {NoResult}, json : BOOLEAN, ids : SUBSET Message, all : BOOLEAN]
    BY DEF Sound, CliTypeOK
  <2>2. Start(command) /\ stored' = 0 /\ stored' \in Nat /\ (command.all => command.name = "Listen")
    BY <1>2 DEF Invoke
  <2> HIDE DEF command
  <2> QED BY <2>1, <2>2, StartKeeps
<1>3. CASE Repeat
  <2>1. stored' = stored /\ stored \in Nat /\ (stored # 0 => cmd.name = "MessageSend")
    BY <1>3 DEF Repeat, Sound, CliTypeOK, Sent
  <2>2. ASSUME Heeds, stored # 0 PROVE FALSE
    <3>1. result \in NotSent
      BY <1>3, <2>1, <2>2, Zenon DEF Repeat
    <3>2. result \in MayHaveSent
      BY <2>2, Zenon DEF Sound, Sent
    <3> QED BY <3>1, <3>2, Codes
  <2>3. cmd \in [name : Names \cup {NoResult}, json : BOOLEAN, ids : SUBSET Message, all : BOOLEAN]
        /\ (cmd.all => cmd.name = "Listen")
    BY DEF Sound, CliTypeOK, Placed
  <2> QED BY <1>3, <2>1, <2>3, <2>2, StartKeeps DEF Repeat
<1>4. CASE ResolveFails
  <2>1. PICK code \in {"InvalidConfiguration", "InvalidOrigin"} : Goto("emit", code)
    BY <1>4 DEF ResolveFails
  <2>2. code \in Result
    BY DEF Result, LocalErrorCode
  <2> QED BY <1>4, <2>1, <2>2, QuietKeeps DEF ResolveFails, Sound, CliTypeOK, Profile
<1>5. CASE ExecutePublic
  <2>1. PICK r \in Result : Goto("emit", r)
    <3>1. {"InvalidSession", "LocalRead", "LocalPermission", OkResult} \subseteq Result
      BY DEF Result, LocalErrorCode
    <3> QED BY <1>5, <3>1, Codes DEF ExecutePublic, Result
  <2> QED BY <1>5, <2>1, QuietKeeps DEF ExecutePublic, Sound, CliTypeOK, Profile
<1>6. CASE OpenSession
  <2>1. /\ pc = "open" /\ profile' \in Profile
        /\ UNCHANGED <<got, effect, process, cancelled, mail, stored>>
    <3>1. profile \in Profile
      BY Zenon DEF Sound, CliTypeOK, Profile
    <3>2. profile' \in {profile, "unbound", "bound"}
      BY <1>6, Zenon DEF OpenSession
    <3> QED BY <1>6, <3>1, <3>2, Zenon DEF OpenSession, Profile
  <2>2. \/ Goto("call", NoResult)
        \/ \E r \in Result : Goto("emit", r)
    <3>1. {"OutcomeUnknown", "ProfileUnbound", "ProfileLocked", "InvalidSession", "LocalRead",
           "ProfileOriginMismatch", "RelayUnavailable", "NotMember"} \subseteq Result
      BY DEF Result, LocalErrorCode
    <3> QED BY <1>6, <3>1, Codes, Zenon DEF OpenSession, Sound, CliTypeOK
  <2> QED BY <2>1, <2>2, QuietKeeps
<1>7. CASE Refused \/ RefusedHere \/ Read
  <2>1. /\ pc = "call" /\ profile' \in Profile
        /\ UNCHANGED <<got, effect, process, cancelled, mail, stored>>
    BY <1>7 DEF Refused, RefusedHere, Read, Sound, CliTypeOK, Profile
  <2>2. \E p \in {"stop", "emit"}, r \in Result : Goto(p, r)
    <3>1. {"AuthorityDenied", "Unsupported", OkResult} \subseteq Result
      BY DEF Result, LocalErrorCode
    <3> QED BY <1>7, <3>1, Codes DEF Refused, RefusedHere, Read, AfterRefusal, Result
  <2> QED BY <2>1, <2>2, QuietKeeps
<1>8. CASE Mutate
  <2>1. CASE cmd.name = "MessageSend"
    BY <1>8, <2>1, SendKeeps
  <2>2. CASE cmd.name # "MessageSend"
    <3>1. /\ pc = "call" /\ profile' \in Profile /\ stored' = stored
          /\ effect' \in {{}, {"done"}}
          /\ UNCHANGED <<got, process, cancelled, mail>>
      BY <1>8, <2>2 DEF Mutate, Sound, CliTypeOK, Placed, Profile
    <3>2. \E p \in {"stop", "emit"}, r \in Result : Goto(p, r)
      BY <1>8, Codes DEF Mutate, AfterRefusal, Result
    <3> QED BY <2>2, <3>1, <3>2, EffectKeeps
  <2> QED BY <2>1, <2>2
<1>9. CASE Leave \/ Join
  <2>1. /\ pc \in {"open", "call"} /\ profile' \in Profile /\ cmd.name # "MessageSend"
        /\ effect' \in {{}, {"done"}}
        /\ UNCHANGED <<got, process, cancelled, mail, stored>>
    BY <1>9 DEF Leave, Join, Sound, CliTypeOK, Placed, Profile
  <2>2. \E p \in {"stop", "emit"}, r \in Result : Goto(p, r)
    <3>1. {"NameInUse", "ProfileLocked", "ProfileAlreadyBound", "OutcomeUnknown", OkResult} \subseteq Result
      BY DEF Result, LocalErrorCode
    <3>2. map_client_error("NotMember") \in Result /\ Unknown(cmd.name) \subseteq Result
      BY Codes DEF Result, LocalErrorCode
    <3>3. CASE Leave
      BY <3>1, <3>2, <3>3, Zenon DEF Leave
    <3>4. CASE Join
      BY <3>1, <3>4, Codes, Zenon DEF Join, Result
    <3> QED BY <1>9, <3>3, <3>4
  <2> QED BY <2>1, <2>2, EffectKeeps
<1>10. CASE AcknowledgeIds \/ AcknowledgeFirst
  <2>1. cmd.ids \in SUBSET Message
    BY DEF Sound, CliTypeOK
  <2> QED BY <1>10, <2>1, AcknowledgeKeeps DEF AcknowledgeIds, AcknowledgeFirst
<1>11. CASE AcknowledgeReceived
  <2>1. got \in SUBSET Message /\ pc = "ack" /\ cmd.all /\ cmd.name = "Listen"
    BY <1>11 DEF AcknowledgeReceived, Sound, CliTypeOK, Placed
  <2>2. CASE Acknowledge(got, "stop")
    BY <1>11, <2>1, <2>2, AcknowledgeKeeps DEF AcknowledgeReceived
  <2>3. ASSUME NEW code \in SessionRefusals, Goto("stop", code), UNCHANGED <<pending, acked, effect>>
        PROVE  Sound'
    <3>1. code \in Result /\ UNCHANGED <<profile, got, cmd, out, exit, broken, runs, cancelled, shown, stored>>
      BY <1>11, Codes DEF AcknowledgeReceived, Result, process
    <3>2. pc' = "stop" /\ result' = code
      BY <2>3 DEF Goto
    <3>3. CliTypeOK'
      BY <2>3, <3>1, <3>2 DEF Sound, CliTypeOK, Result
    <3>4. Placed' /\ Answered'
      BY <2>1, <2>3, <3>1, <3>2 DEF Sound, Placed, Answered, Ended
    <3>5. Sent' /\ AcknowledgesOnlyAsAsked'
      BY <2>1, <2>3, <3>1, <3>2 DEF Sound, Sent, AcknowledgesOnlyAsAsked, OneMessagePerIntent
    <3> QED BY <3>3, <3>4, <3>5 DEF Sound
  <2> QED BY <1>11, <2>2, <2>3 DEF AcknowledgeReceived
<1>12. CASE Inbox \/ Poll \/ Cancel
  BY <1>12, ReceiveKeeps
<1>13. CASE Stop
  <2>1. /\ pc = "stop" /\ result \in Result /\ profile' \in Profile
        /\ UNCHANGED <<got, effect, process, cancelled, mail, stored>>
    BY <1>13 DEF Stop, Sound, CliTypeOK, Placed, Profile
  <2>2. PICK r \in Result : /\ Goto("emit", r)
                            /\ result \in MayHaveSent => r \in MayHaveSent
    <3>1. "OutcomeUnknown" \in Result \cap MayHaveSent
      BY DEF Result, LocalErrorCode, MayHaveSent
    <3> QED BY <1>13, <2>1, <3>1, Codes DEF Stop
  <2> QED BY <2>1, <2>2, QuietKeeps
<1>14. CASE Emit
  BY <1>14, EmitKeeps
<1>15. CASE UNCHANGED cliVars
  <2>1. CliTypeOK'
    BY <1>15 DEF Sound, CliTypeOK, cliVars
  <2>2. Placed' /\ Answered'
    BY <1>15 DEF Sound, Placed, Answered, Ended, cliVars
  <2>3. Sent' /\ AcknowledgesOnlyAsAsked'
    BY <1>15 DEF Sound, Sent, AcknowledgesOnlyAsAsked, OneMessagePerIntent, cliVars
  <2> QED BY <2>1, <2>2, <2>3 DEF Sound
<1> QED BY <1>1, <1>2, <1>3, <1>4, <1>5, <1>6, <1>7, <1>8, <1>9, <1>10, <1>11, <1>12, <1>13,
           <1>14, <1>15 DEF CliNext

Truthful == CliTypeOK /\ DefiniteFailureSentNothing /\ OneDocument /\ AcknowledgesOnlyAsAsked

\* The invariant says what is answered.
LEMMA SoundIsTruthful == Sound => Truthful
<1> SUFFICES ASSUME Sound PROVE Truthful
  OBVIOUS
<1>1. DefiniteFailureSentNothing
  <2> SUFFICES ASSUME Ended, cmd.name = "MessageSend", exit \in {2, 3, 5, 6, 8}, effect # {}
               PROVE  FALSE
    BY DEF DefiniteFailureSentNothing
  <2>1. result \in MayHaveSent
    BY DEF Sound, Sent
  <2>2. exit = IF result = OkResult THEN 0 ELSE exit_class(result)
    BY DEF Sound, Answered
  <2> QED BY <2>1, <2>2, ExitClasses
<1>2. OneDocument
  <2> SUFFICES ASSUME Ended, cmd.json, ~broken
               PROVE  \/ exit = 0 /\ result = OkResult /\ out = << <<"stdout", "success">> >>
                      \/ /\ exit # 0 /\ result \in LocalErrorCode /\ exit = exit_class(result)
                         /\ out = << <<"stderr", "failure">> >>
    BY DEF OneDocument
  <2>1. /\ result \in Result /\ exit = IF result = OkResult THEN 0 ELSE exit_class(result)
        /\ out = Emissions(result, cmd.json)
    BY Zenon DEF Sound, Answered
  <2>2. CASE result = OkResult
    BY <2>1, <2>2 DEF Emissions
  <2>3. CASE result # OkResult
    <3>1. result \in LocalErrorCode /\ exit = exit_class(result) /\ exit # 0
      BY <2>1, <2>3, ExitClasses DEF Result
    <3>2. out = << <<"stderr", "failure">> >>
      BY <2>1, <2>3 DEF Emissions
    <3> QED BY <3>1, <3>2
  <2> QED BY <2>2, <2>3
<1> QED BY <1>1, <1>2 DEF Sound, Truthful

\* Whatever a command meets on its way and whatever its caller repeats, its exit
\* class and its JSON document tell what happened: a send that ends in the class
\* of usage, configuration, conflict, authority or local I/O stored nothing,
\* whatever the relay answered and however the shutdown ended, every path writes one document, and only what was asked for
\* is acknowledged (execute_protected, emit_success, emit_failure).
THEOREM CommandsAnswerTruthfully ==
    ASSUME CliAssumption PROVE CliSpec => []Truthful
<1>1. CliInit => Sound
  BY InitIsSound
<1>2. Sound /\ [CliNext]_cliVars => Sound'
  BY NextKeeps
<1> QED BY <1>1, <1>2, SoundIsTruthful, PTL DEF CliSpec

\* Moreover a caller who repeats a send after profile_locked and after
\* relay_unavailable, and other commands after every retryable failure, stores
\* one message per intent at most: what may have been sent is never reported so
\* (retryable, map_client_error, map_session_error).
THEOREM CommandsKeepTheirInvariant ==
    ASSUME CliAssumption, Heeds PROVE CliSpec => []CliInvariant
<1>1. CliInit => Sound
  BY InitIsSound
<1>2. Sound /\ [CliNext]_cliVars => Sound'
  BY NextKeeps
<1>3. Sound => CliInvariant
  BY SoundIsTruthful DEF Sound, Sent, Truthful, CliInvariant
<1> QED BY <1>1, <1>2, <1>3, PTL DEF CliSpec

-----------------------------------------------------------------------------
(* The calls of the typed client.  The inductive invariant. *)

\* What can come back for an attempt.
WireReply == {None, Broken, Success, DeadlineExpired, NotReady}
             \cup {ApiFailure(code) : code \in ApiErrorCode}

\* A record of a call has the fields it had at first.
HasCallFields(r) ==
    DOMAIN r = {"op", "flaws", "pc", "attempt", "result"} /\ r = [f \in DOMAIN r |-> r[f]]

\* Every caller has a call, an answer, attempts and a count of effects.
CallsTyped ==
    /\ call = [c \in Caller |-> call[c]]
    /\ answer \in [Caller -> WireReply]
    /\ wire \in [Caller -> [1..MaxAttempts -> {"none", "sent", "queued", "ended"}]]
    /\ effects \in [Caller -> 0..1]

\* Where a call is.
CallPlaced(c) ==
    /\ HasCallFields(call[c])
    /\ call[c].op \in Operation \cup {"none"} /\ call[c].flaws \subseteq Flaw
    /\ call[c].pc \in {"idle", "waiting", "backoff", "done"}
    /\ call[c].attempt \in 0..MaxAttempts
    /\ call[c].pc # "idle" => call[c].op \in Operation
    /\ call[c].pc = "idle" => call[c].op = "none" /\ call[c].attempt = 0
    /\ call[c].pc # "done" => call[c].result = Pending
    /\ call[c].pc \in {"waiting", "backoff"} => call[c].attempt > 0
    /\ call[c].pc = "backoff" => call[c].attempt < Attempts(call[c].op)
    /\ call[c].op \in Never => call[c].attempt <= 1
    /\ \A n \in 1..MaxAttempts : wire[c][n] # "none" => n <= call[c].attempt
    /\ call[c].attempt > 0 => Refusals(call[c].op, call[c].flaws) = {}

\* A decision against the call that the relay will not take back.
RefusalCode(code) == code \in ApiErrorCode \ RetryableCode

\* A result that says the call has had no effect and will have none.
FinalKind(outcome) ==
    /\ outcome.kind \in {"Api", "ClientBusy", "InvalidRequest"}
    /\ outcome.kind = "Api" => outcome.code \notin RetryableCode

\* Nothing of the call has run or can still run.
NeverRun(c) == effects[c] = 0 /\ \A n \in 1..MaxAttempts : wire[c][n] \notin {"sent", "queued"}

\* What the relay has done for a call.
CallServed(c) ==
    /\ call[c].op \notin Deduplicated \cup Never => effects[c] = 0
    /\ call[c].op \in Never =>
         \A n \in 1..MaxAttempts : wire[c][n] \in {"sent", "queued"} => effects[c] = 0
    /\ answer[c] = Success /\ call[c].op \notin Safe => effects[c] = 1
    /\ call[c].result = Ok /\ call[c].op \notin Safe => effects[c] = 1
    /\ call[c].op \in Never /\ RefusalCode(answer[c].code) => NeverRun(c)
    /\ call[c].op \in Never /\ call[c].pc = "done" /\ FinalKind(call[c].result) => NeverRun(c)

\* The callers that wait for an answer hold the permits.
WaitingCallers == {c \in Caller : call[c].pc = "waiting"}

\* The permits that are not free are those of the waiting callers.
PermitsCounted ==
    /\ IsFiniteSet(WaitingCallers)
    /\ permits \in 0..MaxInFlight
    /\ permits = MaxInFlight - Cardinality(WaitingCallers)

\* The inductive invariant of the calls.
CallsSound == CallsTyped /\ (\A c \in Caller : CallPlaced(c) /\ CallServed(c)) /\ PermitsCounted

-----------------------------------------------------------------------------
\* What leave, join and resume report instead of a lost answer (AsReported)
\* is neither a success nor a refusal.
LEMMA OutcomesDiffer ==
    ASSUME NEW op, NEW x
    PROVE  /\ AsReported(op, x) = Ok => x = Ok
           /\ AsReported(op, x).kind \in {"Api", "ClientBusy", "InvalidRequest"} =>
                AsReported(op, x) = x
<1>1. CASE op \in Issued \cup {"leave"} /\ x.kind \in {"Transport", "Timeout"}
  BY <1>1, Zenon DEF AsReported, Ok, Err
<1>2. CASE ~(op \in Issued \cup {"leave"} /\ x.kind \in {"Transport", "Timeout"})
  BY <1>2, Zenon DEF AsReported
<1> QED BY <1>1, <1>2, Zenon

\* The answers of the relay differ in status or code.
LEMMA ReplyStatuses ==
    /\ None.status = 0 /\ None.code = "none"
    /\ Broken.status = 0 /\ Broken.code = "broken"
    /\ Success.status = 200 /\ Success.code = "none"
    /\ DeadlineExpired.status = 408 /\ DeadlineExpired.code = "none"
    /\ NotReady.status = 503 /\ NotReady.code = "none"
    /\ \A code \in ApiErrorCode :
         /\ ApiFailure(code).code = code
         /\ ApiFailure(code).status \in Int
         /\ ApiFailure(code).status \notin {0, 200, 408}
         /\ ApiFailure(code).status = http_status(code)
    /\ "none" \notin ApiErrorCode /\ "broken" \notin ApiErrorCode
<1>1. \A code \in ApiErrorCode : http_status(code) \in {400, 403, 404, 413, 429, 500, 503, 409}
  BY DEF http_status, ApiErrorCode
<1>2. \A code \in ApiErrorCode : ApiFailure(code).code = code /\ ApiFailure(code).status = http_status(code)
  BY Zenon DEF ApiFailure
<1>3. "none" \notin ApiErrorCode /\ "broken" \notin ApiErrorCode
  BY Zenon DEF ApiErrorCode
<1> QED BY <1>1, <1>2, <1>3 DEF None, Broken, Success, DeadlineExpired, NotReady

\* Only a success decodes to a success, and a refusal to that refusal (decode).
LEMMA Decoding ==
    ASSUME NEW reply \in WireReply
    PROVE  /\ Decode(reply) = Ok => reply = Success
           /\ Decode(reply).kind \in {"Api", "ClientBusy", "InvalidRequest"} =>
                Decode(reply) = Api(reply.code) /\ reply.code \in ApiErrorCode
<1>1. CASE reply \in {None, Broken}
  BY <1>1, ReplyStatuses DEF Decode, Ok, Err, Broken, None
<1>2. CASE reply = Success
  BY <1>2, ReplyStatuses DEF Decode, Ok, Err, Broken, Success
<1>3. CASE reply \in {DeadlineExpired, NotReady}
  BY <1>3, ReplyStatuses DEF Decode, Ok, Err, Broken, DeadlineExpired, NotReady
<1>4. CASE \E code \in ApiErrorCode : reply = ApiFailure(code)
  <2>1. PICK code \in ApiErrorCode : reply = ApiFailure(code)
    BY <1>4, Zenon
  <2>2. Decode(reply) = Api(code)
    BY <2>1, ReplyStatuses DEF Decode, Broken
  <2> QED BY <2>1, <2>2, ReplyStatuses DEF Api, Ok
<1> QED BY <1>1, <1>2, <1>3, <1>4, Zenon DEF WireReply

\* The three retry classes divide the operations of the client.
LEMMA RetryClasses ==
    /\ Safe \cup Deduplicated \cup Never = Operation
    /\ Safe \cap Never = {} /\ Safe \cap Deduplicated = {} /\ Deduplicated \cap Never = {}
    /\ "none" \notin Operation /\ "health" \in Safe /\ "ready" \in Safe
BY Zenon DEF Safe, Deduplicated, Never, Operation, Route

\* Whatever the route of an operation checks, the client has checked before,
\* except the credential.
LEMMA ChecksOfRoute ==
    ASSUME NEW op \in Operation
    PROVE  \A i \in DOMAIN Route[op] :
             Route[op][i] \in LocalChecks(op) \cup {"credential"} /\ Route[op][i] \in Flaw
<1>1. CASE op = "health"
  BY <1>1 DEF Route, health, LocalChecks, Flaw
<1>2. CASE op = "ready"
  BY <1>2 DEF Route, ready, LocalChecks, Flaw
<1>3. CASE op = "list_squads"
  BY <1>3 DEF Route, list_squads, LocalChecks, Flaw
<1>4. CASE op = "create_squad"
  BY <1>4 DEF Route, create_squad, LocalChecks, Flaw
<1>5. CASE op = "describe_squad"
  BY <1>5 DEF Route, describe_squad, LocalChecks, Flaw
<1>6. CASE op = "join"
  BY <1>6 DEF Route, join_squad, LocalChecks, Flaw
<1>7. CASE op = "resume"
  BY <1>7 DEF Route, resume_squad, LocalChecks, Flaw
<1>8. CASE op = "leave"
  BY <1>8 DEF Route, leave_squad, LocalChecks, Flaw
<1>9. CASE op = "archive_squad"
  BY <1>9 DEF Route, archive_squad, LocalChecks, Flaw
<1>10. CASE op = "roster"
  BY <1>10 DEF Route, roster, LocalChecks, Flaw
<1>11. CASE op = "heartbeat"
  BY <1>11 DEF Route, heartbeat, LocalChecks, Flaw
<1>12. CASE op = "send"
  BY <1>12 DEF Route, send_message, LocalChecks, Flaw
<1>13. CASE op = "inbox"
  BY <1>13 DEF Route, inbox, LocalChecks, Flaw
<1>14. CASE op = "acknowledge"
  BY <1>14 DEF Route, acknowledge_messages, LocalChecks, Flaw
<1>15. CASE op = "transcript"
  BY <1>15 DEF Route, transcript, LocalChecks, Flaw
<1> QED BY <1>1, <1>2, <1>3, <1>4, <1>5, <1>6, <1>7, <1>8, <1>9, <1>10, <1>11, <1>12, <1>13, <1>14, <1>15, Zenon DEF Operation, Route

\* A request that passes the client's own checks is refused by no check of its
\* handler.
LEMMA ChecksAgree ==
    ASSUME NEW op \in Operation, NEW flaws \in SUBSET FlawsOf(op)
    PROVE  /\ flaws \subseteq Flaw
           /\ flaws \cap LocalChecks(op) = {} => Refusals(op, flaws) = {}
<1>1. flaws \subseteq Flaw /\ flaws \subseteq LocalChecks(op)
  BY ChecksOfRoute DEF FlawsOf
<1>2. flaws \cap LocalChecks(op) = {} => flaws = {}
  BY <1>1, Zenon
<1>3. Refusals(op, {}) = {}
  BY Zenon DEF Refusals
<1> QED BY <1>1, <1>2, <1>3, Zenon

-----------------------------------------------------------------------------
\* The record of a call that ends (execute_issued).
LEMMA FinishedFields ==
    ASSUME NEW r, NEW x, HasCallFields(r)
    PROVE  /\ HasCallFields(Finished(r, x))
           /\ Finished(r, x).op = r.op /\ Finished(r, x).flaws = r.flaws
           /\ Finished(r, x).pc = "done" /\ Finished(r, x).attempt = r.attempt
           /\ Finished(r, x).result = AsReported(r.op, x)
BY Zenon DEF HasCallFields, Finished

\* A call that a step leaves alone stays as it should be.
LEMMA OtherCallsKeep ==
    ASSUME NEW d \in Caller, CallPlaced(d), CallServed(d),
           call'[d] = call[d], wire'[d] = wire[d], answer'[d] = answer[d],
           effects'[d] = effects[d]
    PROVE  CallPlaced(d)' /\ CallServed(d)'
BY Zenon DEF CallPlaced, CallServed, NeverRun, HasCallFields

\* A record whose next attempt may be made.
Startable(c, r) ==
    /\ HasCallFields(r) /\ r.op \in Operation /\ r.flaws \subseteq Flaw /\ r.result = Pending
    /\ Refusals(r.op, r.flaws) = {}
    /\ r.attempt \in 0..(MaxAttempts - 1)
    /\ r.op \in Never => r.attempt = 0
    /\ r.op \in Never \cup Safe => effects[c] = 0
    /\ answer[c] = Success => r.op \in Safe \/ effects[c] = 1
    /\ \A n \in 1..MaxAttempts : wire[c][n] # "none" => n <= r.attempt
    /\ call[c].pc # "waiting"

\* An attempt takes a free permit (try_acquire_owned).
LEMMA TakingPermit ==
    ASSUME ConfigAssumption, CallsSound, NEW c \in Caller, call[c].pc # "waiting",
           permits # 0, permits' = permits - 1,
           call' = [call EXCEPT ![c] = call'[c]], call'[c].pc = "waiting"
    PROVE  PermitsCounted'
<1>1. WaitingCallers' = WaitingCallers \cup {c} /\ c \notin WaitingCallers
  BY DEF CallsSound, CallsTyped, WaitingCallers
<1>2. IsFiniteSet(WaitingCallers') /\ Cardinality(WaitingCallers') = Cardinality(WaitingCallers) + 1
  BY <1>1, FS_AddElement, Zenon DEF CallsSound, PermitsCounted
<1>3. Cardinality(WaitingCallers) \in Nat
  BY FS_CardinalityType, Zenon DEF CallsSound, PermitsCounted
<1> QED BY <1>2, <1>3 DEF CallsSound, PermitsCounted, ConfigAssumption

\* An attempt that is over gives its permit back.
LEMMA GivingBack ==
    ASSUME ConfigAssumption, CallsSound, NEW c \in Caller, call[c].pc = "waiting",
           permits' = permits + 1,
           call' = [call EXCEPT ![c] = call'[c]], call'[c].pc # "waiting"
    PROVE  PermitsCounted'
<1>1. WaitingCallers' = WaitingCallers \ {c} /\ c \in WaitingCallers
  BY Zenon DEF CallsSound, CallsTyped, WaitingCallers
<1>2. IsFiniteSet(WaitingCallers') /\ Cardinality(WaitingCallers') = Cardinality(WaitingCallers) - 1
  BY <1>1, FS_RemoveElement, Zenon DEF CallsSound, PermitsCounted
<1>3. Cardinality(WaitingCallers) \in Nat /\ Cardinality(WaitingCallers') \in Nat
  BY <1>2, FS_CardinalityType, Zenon DEF CallsSound, PermitsCounted
<1> QED BY <1>2, <1>3 DEF CallsSound, PermitsCounted, ConfigAssumption

\* A call that ends between attempts holds no permit.
LEMMA KeepingPermits ==
    ASSUME CallsSound, NEW c \in Caller, call[c].pc # "waiting", UNCHANGED permits,
           call' = [call EXCEPT ![c] = call'[c]], call'[c].pc # "waiting"
    PROVE  PermitsCounted'
<1>1. WaitingCallers' = WaitingCallers
  BY Zenon DEF CallsSound, CallsTyped, WaitingCallers
<1> QED BY <1>1, Zenon DEF CallsSound, PermitsCounted

\* One turn of the loop of execute_inner, with or without a free permit.
LEMMA AttemptKeeps ==
    ASSUME ConfigAssumption, CallsSound, NEW c \in Caller, NEW r, Startable(c, r),
           Attempt(c, r, r.attempt + 1)
    PROVE  CallsSound'
<1> DEFINE n == r.attempt + 1
<1>0. /\ n \in 1..MaxAttempts /\ n \in 0..MaxAttempts /\ n > 0 /\ n # 0 /\ r.attempt \in 0..MaxAttempts
      /\ r.op \in Never => r.attempt <= 1 /\ n <= 1
      /\ \A k \in 1..MaxAttempts : (k <= r.attempt => k <= n) /\ (k = n => k <= n)
  BY DEF Startable, ConfigAssumption
<1>1. CASE permits = 0
  <2>1. call' = [call EXCEPT ![c] = Finished(r, Err("ClientBusy"))]
        /\ UNCHANGED <<wire, answer, permits, effects>>
    BY <1>1, Zenon DEF Attempt
  <2>2. call'[c] = Finished(r, Err("ClientBusy")) /\ \A d \in Caller \ {c} : call'[d] = call[d]
    BY <2>1, Zenon DEF CallsSound, CallsTyped
  <2>3. /\ HasCallFields(call'[c]) /\ call'[c].op = r.op /\ call'[c].flaws = r.flaws
        /\ call'[c].pc = "done" /\ call'[c].attempt = r.attempt
        /\ call'[c].result = AsReported(r.op, Err("ClientBusy"))
    BY <2>2, FinishedFields DEF Startable
  <2>4. call'[c].result # Ok
    BY <2>3, OutcomesDiffer, Zenon DEF Ok, Err
  <2>5. CallsTyped'
    BY <2>1, Zenon DEF CallsSound, CallsTyped
  <2>6. CallPlaced(c)'
    BY <1>0, <2>1, <2>3, Zenon DEF Startable, CallPlaced
  <2>7. r.op \in Never => NeverRun(c)'
    <3>1. r.op \in Never => \A k \in 1..MaxAttempts : wire[c][k] = "none"
      BY DEF Startable
    <3> QED BY <2>1, <3>1, Zenon DEF Startable, NeverRun
  <2>8. CallServed(c)'
    <3>1. r.op \notin Deduplicated \cup Never => r.op \in Safe
      BY RetryClasses, Zenon DEF Startable
    <3> QED BY <2>1, <2>3, <2>4, <2>7, <3>1, Zenon DEF Startable, CallServed, NeverRun
  <2>9. PermitsCounted'
    BY <2>1, <2>2, <2>3, KeepingPermits, Zenon DEF Startable
  <2> QED BY <2>1, <2>2, <2>5, <2>6, <2>8, <2>9, OtherCallsKeep, Zenon DEF CallsSound
<1>2. CASE permits # 0
  <2> DEFINE w == [r EXCEPT !.pc = "waiting", !.attempt = n]
  <2>1. /\ call' = [call EXCEPT ![c] = w]
        /\ wire' = [wire EXCEPT ![c][n] = "sent"]
        /\ answer' = [answer EXCEPT ![c] = None]
        /\ permits' = permits - 1 /\ UNCHANGED effects
    BY <1>2, Zenon DEF Attempt
  <2>2. call'[c] = w /\ \A d \in Caller \ {c} : call'[d] = call[d]
    BY <2>1, Zenon DEF CallsSound, CallsTyped
  <2>3. /\ HasCallFields(call'[c]) /\ call'[c].op = r.op /\ call'[c].flaws = r.flaws
        /\ call'[c].pc = "waiting" /\ call'[c].attempt = n /\ call'[c].result = Pending
    <3>1. HasCallFields(r) /\ r.result = Pending
      BY Zenon DEF Startable
    <3> HIDE DEF n
    <3> QED BY <2>2, <3>1, Zenon DEF HasCallFields
  <2>4. /\ answer'[c] = None /\ \A d \in Caller \ {c} : answer'[d] = answer[d]
        /\ \A d \in Caller \ {c} : wire'[d] = wire[d]
        /\ \A k \in 1..MaxAttempts : wire'[c][k] = IF k = n THEN "sent" ELSE wire[c][k]
    BY <1>0, <2>1, Zenon DEF CallsSound, CallsTyped
  <2>5. CallsTyped'
    <3>1. None \in WireReply
      BY Zenon DEF WireReply
    <3> QED BY <1>0, <2>1, <3>1, Zenon DEF CallsSound, CallsTyped
  <2>6. CallPlaced(c)'
    BY <1>0, <2>3, <2>4, Zenon DEF Startable, CallPlaced
  <2>7. CallServed(c)'
    <3>1. r.op \notin Deduplicated \cup Never => r.op \in Safe
      BY RetryClasses, Zenon DEF Startable
    <3>2. Pending # Ok /\ None # Success /\ ~RefusalCode(None.code)
      BY ReplyStatuses DEF Pending, Ok, RefusalCode
    <3> QED BY <2>1, <2>3, <2>4, <3>1, <3>2, Zenon DEF Startable, CallServed
  <2>8. PermitsCounted'
    BY <1>2, <2>1, <2>2, <2>3, TakingPermit, Zenon DEF Startable
  <2> QED BY <2>1, <2>2, <2>4, <2>5, <2>6, <2>7, <2>8, OtherCallsKeep, Zenon DEF CallsSound
<1> QED BY <1>1, <1>2, Zenon

\* A call begins: it fails a local check, or makes its first attempt.
LEMMA BeginKeeps ==
    ASSUME ConfigAssumption, CallsSound, NEW c \in Caller, NEW op \in Called,
           NEW flaws \in SUBSET FlawsOf(op), Begin(c, op, flaws)
    PROVE  CallsSound'
<1> DEFINE r == [call[c] EXCEPT !.op = op, !.flaws = flaws]
<1>0. op \in Operation
  BY Zenon DEF ConfigAssumption
<1>1. /\ CallPlaced(c) /\ CallServed(c) /\ call[c].pc = "idle" /\ call[c].op = "none"
      /\ call[c].attempt = 0 /\ call[c].result = Pending
  BY Zenon DEF Begin, CallsSound, CallPlaced
<1>2. HasCallFields(r) /\ r.op = op /\ r.flaws = flaws /\ r.attempt = 0 /\ r.result = Pending
  BY <1>1, Zenon DEF CallPlaced, HasCallFields
<1>3. effects[c] = 0 /\ answer[c] # Success
  <2>1. effects[c] = 0
    BY <1>1, RetryClasses, Zenon DEF CallServed
  <2>2. answer[c] = Success => effects[c] = 1
    BY <1>1, RetryClasses, Zenon DEF CallServed
  <2> QED BY <2>1, <2>2
<1>4. \A n \in 1..MaxAttempts : wire[c][n] = "none"
  BY <1>1 DEF CallPlaced
<1>5. CASE flaws \cap LocalChecks(op) # {}
  <2>1. call' = [call EXCEPT ![c] = Finished(r, Err("InvalidRequest"))]
        /\ UNCHANGED <<wire, answer, permits, effects>>
    BY <1>5, Zenon DEF Begin
  <2>2. call'[c] = Finished(r, Err("InvalidRequest")) /\ \A d \in Caller \ {c} : call'[d] = call[d]
    BY <2>1, Zenon DEF CallsSound, CallsTyped
  <2>3. /\ HasCallFields(call'[c]) /\ call'[c].op = op /\ call'[c].flaws = flaws
        /\ call'[c].pc = "done" /\ call'[c].attempt = 0
        /\ call'[c].result = AsReported(op, Err("InvalidRequest"))
    <3> HIDE DEF r
    <3> QED BY <1>2, <2>2, FinishedFields
  <2>4. call'[c].result # Ok
    BY <2>3, OutcomesDiffer, Zenon DEF Ok, Err
  <2>5. CallsTyped'
    BY <2>1, Zenon DEF CallsSound, CallsTyped
  <2>6. CallPlaced(c)'
    BY <1>0, <1>4, <2>1, <2>3, ChecksAgree DEF CallPlaced, ConfigAssumption
  <2>7. CallServed(c)'
    BY <1>3, <1>4, <2>1, <2>3, <2>4, Zenon DEF CallServed, NeverRun
  <2>8. PermitsCounted'
    BY <1>1, <2>1, <2>2, <2>3, KeepingPermits, Zenon
  <2> QED BY <2>1, <2>2, <2>5, <2>6, <2>7, <2>8, OtherCallsKeep, Zenon DEF CallsSound
<1>6. CASE flaws \cap LocalChecks(op) = {}
  <2>1. Attempt(c, r, r.attempt + 1)
    BY <1>2, <1>6 DEF Begin
  <2>2. Startable(c, r)
    BY <1>0, <1>1, <1>2, <1>3, <1>4, <1>6, ChecksAgree DEF Startable, ConfigAssumption
  <2> QED BY <2>1, <2>2, AttemptKeeps, Zenon
<1> QED BY <1>5, <1>6, Zenon

\* Only calls that may be repeated are, and within their attempts.
LEMMA RetryKeeps ==
    ASSUME ConfigAssumption, CallsSound, NEW c \in Caller, Retry(c)
    PROVE  CallsSound'
<1>1. CallPlaced(c) /\ CallServed(c) /\ call[c].pc = "backoff"
  BY Zenon DEF Retry, CallsSound
<1>2. Startable(c, call[c])
  <2>0. /\ call[c].attempt \in 0..MaxAttempts /\ call[c].attempt > 0
        /\ call[c].attempt < Attempts(call[c].op)
    BY <1>1, Zenon DEF CallPlaced
  <2>1. call[c].attempt \in 0..(MaxAttempts - 1) /\ call[c].op \notin Never
    BY <2>0 DEF Attempts, ConfigAssumption
  <2>2. call[c].op \in Safe => effects[c] = 0
    BY <1>1, RetryClasses, Zenon DEF CallServed
  <2> QED BY <1>1, <2>0, <2>1, <2>2, RetryClasses, Zenon DEF CallPlaced, CallServed, Startable
<1>3. Attempt(c, call[c], call[c].attempt + 1)
  BY Zenon DEF Retry
<1> QED BY <1>2, <1>3, AttemptKeeps, Zenon

\* A call that is over, with a result that is true.
LEMMA FinishKeeps ==
    ASSUME CallsSound, NEW c \in Caller, NEW x, call[c].op \in Operation,
           call' = [call EXCEPT ![c] = Finished(call[c], x)], UNCHANGED <<wire, answer, effects>>,
           x = Ok => call[c].op \in Safe \/ effects[c] = 1,
           FinalKind(x) => ~(call[c].op \in Never) \/ NeverRun(c)
    PROVE  /\ CallsTyped' /\ \A d \in Caller : CallPlaced(d)' /\ CallServed(d)'
           /\ call' = [call EXCEPT ![c] = call'[c]] /\ call'[c].pc = "done"
<1>1. CallPlaced(c) /\ CallServed(c)
  BY Zenon DEF CallsSound
<1>2. call'[c] = Finished(call[c], x) /\ \A d \in Caller \ {c} : call'[d] = call[d]
  BY Zenon DEF CallsSound, CallsTyped
<1>3. /\ HasCallFields(call'[c]) /\ call'[c].op = call[c].op /\ call'[c].flaws = call[c].flaws
      /\ call'[c].pc = "done" /\ call'[c].attempt = call[c].attempt
      /\ call'[c].result = AsReported(call[c].op, x)
  BY <1>1, <1>2, FinishedFields DEF CallPlaced
<1>4. call'[c].result = Ok => x = Ok
  BY <1>3, OutcomesDiffer, Zenon
<1>5. FinalKind(call'[c].result) => FinalKind(x)
  BY <1>3, OutcomesDiffer, Zenon DEF FinalKind
<1>6. CallsTyped'
  BY Zenon DEF CallsSound, CallsTyped
<1>7. CallPlaced(c)'
  BY <1>1, <1>3, Zenon DEF CallPlaced
<1>8. CallServed(c)'
  BY <1>1, <1>3, <1>4, <1>5, Zenon DEF CallServed, NeverRun
<1> QED BY <1>2, <1>3, <1>6, <1>7, <1>8, OtherCallsKeep, Zenon DEF CallsSound

\* An answer ends the call or sends it to its back-off.
LEMMA ReceiveKeepsCalls ==
    ASSUME ConfigAssumption, CallsSound, NEW c \in Caller, Receive(c)
    PROVE  CallsSound'
<1> DEFINE outcome == Decode(answer[c])
           last == call[c].attempt = Attempts(call[c].op)
           again == WorthRetrying(outcome)
<1>1. /\ CallPlaced(c) /\ CallServed(c) /\ call[c].pc = "waiting" /\ answer[c] \in WireReply
      /\ permits' = permits + 1 /\ UNCHANGED <<wire, answer, effects>> /\ call[c].op \in Operation
  BY Zenon DEF Receive, CallsSound, CallsTyped, CallPlaced
<1>2. CASE again /\ last /\ Attempts(call[c].op) > 1
  <2>1. call' = [call EXCEPT ![c] = Finished(call[c], RetryExhausted(outcome))]
    BY <1>2, Zenon DEF Receive
  <2>2. RetryExhausted(outcome) # Ok /\ ~FinalKind(RetryExhausted(outcome))
    BY Zenon DEF RetryExhausted, Ok, FinalKind
  <2>3. CallsTyped' /\ (\A d \in Caller : CallPlaced(d)' /\ CallServed(d)')
        /\ call' = [call EXCEPT ![c] = call'[c]] /\ call'[c].pc = "done"
    BY <1>1, <2>1, <2>2, FinishKeeps, Zenon
  <2>4. PermitsCounted'
    BY <1>1, <2>3, GivingBack, Zenon
  <2> QED BY <2>3, <2>4, Zenon DEF CallsSound
<1>3. CASE again /\ ~last
  <2>1. call' = [call EXCEPT ![c] = [call[c] EXCEPT !.pc = "backoff"]]
    BY <1>3, Zenon DEF Receive
  <2>2. call'[c] = [call[c] EXCEPT !.pc = "backoff"] /\ \A d \in Caller \ {c} : call'[d] = call[d]
    BY <2>1, Zenon DEF CallsSound, CallsTyped
  <2>3. /\ HasCallFields(call'[c]) /\ call'[c].op = call[c].op /\ call'[c].flaws = call[c].flaws
        /\ call'[c].pc = "backoff" /\ call'[c].attempt = call[c].attempt
        /\ call'[c].result = call[c].result
    BY <1>1, <2>2, Zenon DEF CallPlaced, HasCallFields
  <2>4. call[c].attempt < Attempts(call[c].op)
    <3>1. /\ call[c].attempt \in 0..MaxAttempts /\ call[c].attempt > 0
          /\ call[c].op \in Never => call[c].attempt <= 1
      BY <1>1, Zenon DEF CallPlaced
    <3> QED BY <1>3, <3>1 DEF Attempts, ConfigAssumption
  <2>5. CallsTyped'
    BY <1>1, <2>1, Zenon DEF CallsSound, CallsTyped
  <2>6. CallPlaced(c)'
    BY <1>1, <2>3, <2>4, Zenon DEF CallPlaced, Attempts
  <2>7. CallServed(c)'
    BY <1>1, <2>3, Zenon DEF CallServed, NeverRun
  <2>8. PermitsCounted'
    BY <1>1, <2>1, <2>2, <2>3, GivingBack, Zenon
  <2> QED BY <1>1, <2>2, <2>5, <2>6, <2>7, <2>8, OtherCallsKeep, Zenon DEF CallsSound
<1>4. CASE ~(again /\ last /\ Attempts(call[c].op) > 1) /\ ~(again /\ ~last)
  <2>1. call' = [call EXCEPT ![c] = Finished(call[c], outcome)]
    BY <1>4, Zenon DEF Receive
  <2>2. outcome = Ok => call[c].op \in Safe \/ effects[c] = 1
    BY <1>1, Decoding, Zenon DEF CallServed
  <2>3. FinalKind(outcome) => ~(call[c].op \in Never) \/ NeverRun(c)
    <3>1. FinalKind(outcome) => RefusalCode(answer[c].code)
      BY <1>1, Decoding DEF FinalKind, RefusalCode, Api
    <3> QED BY <1>1, <3>1, Zenon DEF CallServed
  <2>4. CallsTyped' /\ (\A d \in Caller : CallPlaced(d)' /\ CallServed(d)')
        /\ call' = [call EXCEPT ![c] = call'[c]] /\ call'[c].pc = "done"
    BY <1>1, <2>1, <2>2, <2>3, FinishKeeps, Zenon
  <2>5. PermitsCounted'
    BY <1>1, <2>4, GivingBack, Zenon
  <2> QED BY <2>4, <2>5, Zenon DEF CallsSound
<1> QED BY <1>2, <1>3, <1>4, Zenon

\* The deadline of the call passes while it waits or sleeps.
LEMMA TimeoutKeeps ==
    ASSUME ConfigAssumption, CallsSound, NEW c \in Caller, Timeout(c)
    PROVE  CallsSound'
<1>1. CallPlaced(c) /\ call[c].pc \in {"waiting", "backoff"} /\ call[c].op \in Operation
  BY Zenon DEF Timeout, CallsSound, CallPlaced
<1>2. Err("Timeout") # Ok /\ ~FinalKind(Err("Timeout"))
  BY Zenon DEF Err, Ok, FinalKind
<1>3. CallsTyped' /\ (\A d \in Caller : CallPlaced(d)' /\ CallServed(d)')
      /\ call' = [call EXCEPT ![c] = call'[c]] /\ call'[c].pc = "done"
  BY <1>1, <1>2, FinishKeeps, Zenon DEF Timeout
<1>4. PermitsCounted'
  BY <1>1, <1>3, GivingBack, KeepingPermits, Zenon DEF Timeout
<1> QED BY <1>3, <1>4, Zenon DEF CallsSound

-----------------------------------------------------------------------------
\* A step of the network or the relay for the n-th attempt of c.
Carries(c, n) ==
    /\ wire[c][n] = "queued" /\ wire'[c][n] = "ended"
    /\ effects' = [effects EXCEPT ![c] = CarriedOut(call[c].op, @)]

\* What the relay and the network may do to one attempt: it goes on, ends, is
\* carried out, and is answered truthfully.
LEMMA RelayKeeps ==
    ASSUME ConfigAssumption, CallsSound, NEW c \in Caller, NEW n \in 1..MaxAttempts,
           UNCHANGED <<call, permits>>, NEW w \in {"none", "sent", "queued", "ended"},
           wire' = [wire EXCEPT ![c][n] = w],
           w = wire[c][n] \/ (wire[c][n] \in {"sent", "queued"} /\ w \in {"queued", "ended"}),
           effects' = effects \/ Carries(c, n),
           NEW reply \in WireReply,
           answer' = answer \/ (answer' = [answer EXCEPT ![c] = reply]
                                /\ (reply = Success => call[c].op \in Safe \/ effects'[c] = 1)
                                /\ (RefusalCode(reply.code) =>
                                      w = "ended" /\ wire[c][n] \in {"sent", "queued"} /\ effects' = effects))
    PROVE  CallsSound'
<1>1. CallPlaced(c) /\ CallServed(c)
  BY Zenon DEF CallsSound
<1>2. /\ \A k \in 1..MaxAttempts : wire'[c][k] = IF k = n THEN w ELSE wire[c][k]
      /\ \A d \in Caller \ {c} : wire'[d] = wire[d]
      /\ wire' \in [Caller -> [1..MaxAttempts -> {"none", "sent", "queued", "ended"}]]
  BY Zenon DEF CallsSound, CallsTyped
<1>3. wire[c][n] # "none" => call[c].op \in Operation /\ (call[c].op \in Never => n = 1)
  BY <1>1 DEF CallPlaced
<1>4. call[c].op \in Never =>
        \A k \in 1..MaxAttempts : wire[c][n] # "none" /\ k # n => wire[c][k] = "none"
  BY <1>1, <1>3 DEF CallPlaced
<1>5. Carries(c, n) => effects'[c] = (IF call[c].op \in Safe THEN 0 ELSE 1)
  <2>1. SUFFICES ASSUME Carries(c, n) PROVE effects'[c] = (IF call[c].op \in Safe THEN 0 ELSE 1)
    BY Zenon
  <2>2. effects'[c] = CarriedOut(call[c].op, effects[c])
    BY <2>1, Zenon DEF Carries, CallsSound, CallsTyped
  <2>3. call[c].op \in Never => effects[c] = 0
    BY <1>1, <2>1, Zenon DEF Carries, CallServed
  <2>4. call[c].op \in Safe \cup Deduplicated \cup Never
    BY <1>3, <2>1, RetryClasses, Zenon DEF Carries
  <2> QED BY <2>2, <2>3, <2>4, RetryClasses DEF CarriedOut
<1>6. effects' \in [Caller -> 0..1] /\ \A d \in Caller \ {c} : effects'[d] = effects[d]
  BY <1>5 DEF CallsSound, CallsTyped, Carries
<1>7. answer' \in [Caller -> WireReply] /\ (\A d \in Caller \ {c} : answer'[d] = answer[d])
      /\ answer'[c] \in {answer[c], reply}
  BY Zenon DEF CallsSound, CallsTyped
<1>8. CallsTyped'
  BY <1>2, <1>6, <1>7, Zenon DEF CallsSound, CallsTyped
<1>9. CallPlaced(c)'
  BY <1>1, <1>2, Zenon DEF CallPlaced
<1>10. NeverRun(c) => NeverRun(c)' /\ ~Carries(c, n)
  BY <1>2, Zenon DEF NeverRun, Carries
<1>11. CallServed(c)'
  <2>1. call[c].op \notin Deduplicated \cup Never => effects'[c] = 0
    BY <1>1, <1>3, <1>5, RetryClasses, Zenon DEF CallServed, Carries
  <2>2. ASSUME call[c].op \in Never, NEW k \in 1..MaxAttempts, wire'[c][k] \in {"sent", "queued"}
        PROVE  effects'[c] = 0
    <3>1. wire[c][k] \in {"sent", "queued"}
      BY <1>2, <2>2, Zenon
    <3>2. ~Carries(c, n)
      BY <1>2, <1>4, <2>2, <3>1, Zenon DEF Carries
    <3> QED BY <1>1, <2>2, <3>1, <3>2, Zenon DEF CallServed
  <2>3. effects[c] = 1 /\ call[c].op \notin Safe => effects'[c] = 1
    BY <1>5, Zenon
  <2>4. answer'[c] = Success /\ call[c].op \notin Safe => effects'[c] = 1
    BY <1>1, <1>7, <2>3, Zenon DEF CallServed, CallsSound, CallsTyped
  <2>5. call[c].result = Ok /\ call[c].op \notin Safe => effects'[c] = 1
    BY <1>1, <2>3, Zenon DEF CallServed
  <2>6. call[c].op \in Never /\ RefusalCode(answer'[c].code) => NeverRun(c)'
    <3>1. CASE answer'[c] = answer[c]
      BY <1>1, <1>10, <3>1, Zenon DEF CallServed
    <3>2. CASE answer'[c] # answer[c]
      BY <1>1, <1>2, <1>4, <3>2, Zenon DEF CallServed, NeverRun, CallsSound, CallsTyped
    <3> QED BY <3>1, <3>2, Zenon
  <2>7. call[c].op \in Never /\ call[c].pc = "done" /\ FinalKind(call[c].result) => NeverRun(c)'
    BY <1>1, <1>10, Zenon DEF CallServed
  <2> QED BY <2>1, <2>2, <2>4, <2>5, <2>6, <2>7, Zenon DEF CallServed
<1>12. PermitsCounted'
  BY Zenon DEF CallsSound, PermitsCounted, WaitingCallers
<1> QED BY <1>2, <1>6, <1>7, <1>8, <1>9, <1>11, <1>12, OtherCallsKeep, Zenon DEF CallsSound

\* A handler that stops waiting never answers with a definite refusal.
LEMMA RelayCodes ==
    /\ \A error \in {"Full", "Unavailable", "Timeout"} :
         DispatchCode(error) \in RetryableCode \cap ApiErrorCode
    /\ \A error \in {"DatabaseBusy", "InternalError", "NotMember"} :
         DispatchCode(error) = error /\ error \in ApiErrorCode
    /\ \A code \in RetryableCode : ~RefusalCode(code)
BY Zenon DEF DispatchCode, RetryableCode, ApiErrorCode, RefusalCode

\* What the relay and the network answer, and which answers are refusals.
LEMMA RelayReplies ==
    /\ Broken \in WireReply /\ ~RefusalCode(Broken.code) /\ Broken # Success
    /\ DeadlineExpired \in WireReply /\ ~RefusalCode(DeadlineExpired.code) /\ DeadlineExpired # Success
    /\ NotReady \in WireReply /\ ~RefusalCode(NotReady.code) /\ NotReady # Success
    /\ Success \in WireReply /\ ~RefusalCode(Success.code)
    /\ \A code \in ApiErrorCode :
         ApiFailure(code) \in WireReply /\ ApiFailure(code) # Success /\ ApiFailure(code).code = code
BY ReplyStatuses DEF WireReply, RefusalCode

\* The connection breaks.
LEMMA LoseKeeps ==
    ASSUME ConfigAssumption, CallsSound, NEW c \in Caller, NEW n \in 1..MaxAttempts, Lose(c, n)
    PROVE  CallsSound'
<1> DEFINE w == IF wire[c][n] = "sent" THEN "ended" ELSE wire[c][n]
<1>1. wire' = [wire EXCEPT ![c][n] = w] /\ UNCHANGED <<call, permits, effects>>
      /\ answer' = [answer EXCEPT ![c] = Broken]
  BY Zenon DEF Lose
<1>2. w \in {"none", "sent", "queued", "ended"}
  BY Zenon DEF CallsSound, CallsTyped
<1> QED BY <1>1, <1>2, RelayKeeps, RelayReplies, Zenon

\* The handler of a closed connection is dropped.
LEMMA AbandonKeeps ==
    ASSUME ConfigAssumption, CallsSound, NEW c \in Caller, NEW n \in 1..MaxAttempts, Abandon(c, n)
    PROVE  CallsSound'
BY RelayKeeps, RelayReplies, Zenon DEF Abandon

\* A handler checks the request and queues its command (try_send).
LEMMA HandleKeeps ==
    ASSUME ConfigAssumption, CallsSound, NEW c \in Caller, NEW n \in 1..MaxAttempts, Handle(c, n)
    PROVE  CallsSound'
<1>1. CallPlaced(c) /\ wire[c][n] = "sent" /\ UNCHANGED <<call, permits, effects>>
  BY Zenon DEF Handle, CallsSound
<1>2. Refusals(call[c].op, call[c].flaws) = {}
  <2>1. n <= call[c].attempt /\ call[c].attempt \in 0..MaxAttempts
    BY <1>1, Zenon DEF CallPlaced
  <2>2. call[c].attempt > 0
    BY <2>1
  <2> QED BY <1>1, <2>2, Zenon DEF CallPlaced
<1>3. CASE call[c].op = "health"
  <2>1. wire' = [wire EXCEPT ![c][n] = "ended"] /\ Answer(c, n, Success)
    BY <1>2, <1>3, Zenon DEF Handle
  <2> QED BY <1>1, <1>3, <2>1, RelayKeeps, RelayReplies, RetryClasses, Zenon DEF Answer
<1>4. CASE call[c].op # "health" /\ wire' = [wire EXCEPT ![c][n] = "queued"] /\ UNCHANGED answer
  BY <1>1, <1>4, RelayKeeps, RelayReplies, Zenon
<1>5. ASSUME NEW error \in {"Full", "Unavailable"}, wire' = [wire EXCEPT ![c][n] = "ended"],
             Answer(c, n, IF call[c].op = "ready" THEN NotReady ELSE ApiFailure(DispatchCode(error)))
      PROVE  CallsSound'
  <2> DEFINE reply == IF call[c].op = "ready" THEN NotReady ELSE ApiFailure(DispatchCode(error))
  <2>1. reply \in WireReply /\ reply # Success /\ ~RefusalCode(reply.code)
    BY RelayCodes, RelayReplies, Zenon
  <2>2. answer' = answer \/ answer' = [answer EXCEPT ![c] = reply]
    BY <1>5, Zenon DEF Answer
  <2> HIDE DEF reply
  <2> QED BY <1>1, <1>5, <2>1, <2>2, RelayKeeps, Zenon
<1> QED BY <1>2, <1>3, <1>4, <1>5, Zenon DEF Handle

\* The worker carries out a command, or the store refuses it.
LEMMA ExecuteKeeps ==
    ASSUME ConfigAssumption, CallsSound, NEW c \in Caller, NEW n \in 1..MaxAttempts, Execute(c, n)
    PROVE  CallsSound'
<1>1. /\ CallPlaced(c) /\ CallServed(c) /\ wire[c][n] = "queued" /\ UNCHANGED <<call, permits>>
      /\ wire' = [wire EXCEPT ![c][n] = "ended"]
  BY Zenon DEF Execute, CallsSound
<1>2. ASSUME effects' = [effects EXCEPT ![c] = CarriedOut(call[c].op, @)], Answer(c, n, Success)
      PROVE  CallsSound'
  <2>1. wire'[c][n] = "ended"
    BY <1>1, Zenon DEF CallsSound, CallsTyped
  <2>2. Carries(c, n)
    BY <1>1, <1>2, <2>1, Zenon DEF Carries
  <2>3. call[c].op \in Safe \/ effects'[c] = 1
    <3>1. effects'[c] = CarriedOut(call[c].op, effects[c])
      BY <1>2, Zenon DEF CallsSound, CallsTyped
    <3>2. call[c].op \in Never => effects[c] = 0
      BY <1>1, Zenon DEF CallServed
    <3>3. call[c].op \in Safe \cup Deduplicated \cup Never
      BY <1>1, RetryClasses DEF CallPlaced
    <3> QED BY <3>1, <3>2, <3>3, RetryClasses DEF CarriedOut
  <2>4. answer' = answer \/ answer' = [answer EXCEPT ![c] = Success]
    BY <1>2, Zenon DEF Answer
  <2> QED BY <1>1, <2>2, <2>3, <2>4, RelayKeeps, RelayReplies, Zenon
<1>3. ASSUME NEW error \in StoreError(c), UNCHANGED effects,
             Answer(c, n, IF call[c].op = "ready" THEN NotReady ELSE ApiFailure(DispatchCode(error)))
      PROVE  CallsSound'
  <2> DEFINE reply == IF call[c].op = "ready" THEN NotReady ELSE ApiFailure(DispatchCode(error))
  <2>1. error \in {"DatabaseBusy", "InternalError", "NotMember"}
    BY <1>3, Zenon DEF StoreError
  <2>2. reply \in WireReply /\ reply # Success
    BY <2>1, RelayCodes, RelayReplies, Zenon
  <2>3. answer' = answer \/ answer' = [answer EXCEPT ![c] = reply]
    BY <1>3, Zenon DEF Answer
  <2> HIDE DEF reply
  <2> QED BY <1>1, <1>3, <2>2, <2>3, RelayKeeps, Zenon
<1> QED BY <1>2, <1>3, Zenon DEF Execute

\* A handler stops waiting for the worker; the command stays queued (dispatch).
LEMMA DispatchTimeoutKeeps ==
    ASSUME ConfigAssumption, CallsSound, NEW c \in Caller, NEW n \in 1..MaxAttempts, DispatchTimeout(c, n)
    PROVE  CallsSound'
<1> DEFINE reply == IF call[c].op = "ready" THEN NotReady ELSE ApiFailure(DispatchCode("Timeout"))
<1>1. reply \in WireReply /\ reply # Success /\ ~RefusalCode(reply.code)
  BY RelayCodes, RelayReplies, Zenon
<1>2. answer' = answer \/ answer' = [answer EXCEPT ![c] = reply]
  BY Zenon DEF DispatchTimeout, Answer
<1>3. wire' = [wire EXCEPT ![c][n] = "queued"] /\ wire[c][n] = "queued"
      /\ UNCHANGED <<call, permits, effects>>
  BY Zenon DEF DispatchTimeout, CallsSound, CallsTyped
<1> HIDE DEF reply
<1> QED BY <1>1, <1>2, <1>3, RelayKeeps, Zenon

\* The request deadline answers for the handler (request_deadline).
LEMMA RequestDeadlineKeeps ==
    ASSUME ConfigAssumption, CallsSound, NEW c \in Caller, NEW n \in 1..MaxAttempts, RequestDeadline(c, n)
    PROVE  CallsSound'
<1> DEFINE w == IF wire[c][n] = "sent" THEN "ended" ELSE wire[c][n]
<1>1. wire' = [wire EXCEPT ![c][n] = w] /\ UNCHANGED <<call, permits, effects>>
      /\ wire[c][n] \in {"sent", "queued"}
      /\ (answer' = answer \/ answer' = [answer EXCEPT ![c] = DeadlineExpired])
  BY Zenon DEF RequestDeadline, Answer
<1>2. w \in {"queued", "ended"} /\ (w = wire[c][n] \/ w = "ended")
  BY <1>1, Zenon
<1> HIDE DEF w
<1> QED BY <1>1, <1>2, RelayKeeps, RelayReplies, Zenon

-----------------------------------------------------------------------------
\* A client that has made no call.
LEMMA CallsInit == ConfigAssumption /\ Init => CallsSound
<1> SUFFICES ASSUME ConfigAssumption, Init PROVE CallsSound
  BY Zenon
<1>1. None \in WireReply /\ None # Success /\ ~RefusalCode(None.code)
  BY ReplyStatuses DEF WireReply, RefusalCode
<1>2. Pending # Ok
  BY Zenon DEF Pending, Ok
<1>3. CallsTyped
  BY <1>1 DEF Init, CallsTyped
<1>4. ASSUME NEW c \in Caller PROVE CallPlaced(c) /\ CallServed(c)
  <2>1. call[c] = [op |-> "none", flaws |-> {}, pc |-> "idle", attempt |-> 0, result |-> Pending]
    BY Zenon DEF Init
  <2>2. HasCallFields(call[c])
    BY <2>1, Zenon DEF HasCallFields
  <2>3. answer[c] = None /\ effects[c] = 0 /\ \A n \in 1..MaxAttempts : wire[c][n] = "none"
    BY Zenon DEF Init
  <2>4. CallPlaced(c)
    <3>1. 0 \in 0..MaxAttempts /\ 0 <= 1
      BY DEF ConfigAssumption
    <3>2. /\ call[c].op = "none" /\ call[c].flaws = {} /\ call[c].pc = "idle"
          /\ call[c].attempt = 0 /\ call[c].result = Pending /\ ~(0 > 0)
      BY <2>1
    <3> QED BY <2>2, <2>3, <3>1, <3>2, Zenon DEF CallPlaced
  <2>5. CallServed(c)
    <3>1. call[c].op = "none" /\ call[c].result = Pending
      BY <2>1
    <3> QED BY <1>1, <1>2, <2>3, <3>1, RetryClasses, Zenon DEF CallServed
  <2> QED BY <2>4, <2>5, Zenon
<1>5. WaitingCallers = {}
  BY Zenon DEF Init, WaitingCallers
<1>6. PermitsCounted
  BY <1>5, FS_EmptySet DEF Init, PermitsCounted, ConfigAssumption
<1> QED BY <1>3, <1>4, <1>6, Zenon DEF CallsSound

\* Every step keeps the invariant.
LEMMA CallsNext == ConfigAssumption /\ CallsSound /\ [Next]_vars => CallsSound'
<1> SUFFICES ASSUME ConfigAssumption, CallsSound, [Next]_vars PROVE CallsSound'
  BY Zenon
<1>1. CASE UNCHANGED vars
  BY <1>1, OtherCallsKeep, Zenon DEF vars, CallsSound, CallsTyped, PermitsCounted, WaitingCallers
<1>2. CASE Next
  BY <1>2, BeginKeeps, RetryKeeps, ReceiveKeepsCalls, TimeoutKeeps, LoseKeeps, AbandonKeeps,
     HandleKeeps, ExecuteKeeps, DispatchTimeoutKeeps, RequestDeadlineKeeps, Zenon DEF Next
<1> QED BY <1>1, <1>2, Zenon

\* The invariant is stronger than what a caller relies on.
LEMMA CallsSoundAreTruthful == ConfigAssumption /\ CallsSound => CallsAreTruthful
<1> SUFFICES ASSUME ConfigAssumption, CallsSound PROVE CallsAreTruthful
  BY Zenon
<1>1. TypeOK
  <2>1. 0..1 \subseteq 0..MaxAttempts
    BY DEF ConfigAssumption
  <2> QED BY <2>1, Zenon DEF CallsSound, CallsTyped, CallPlaced, PermitsCounted, TypeOK
<1>2. RepeatsTakeEffectOnce /\ UnsafeCallsRunOnce
  BY DEF CallsSound, CallsTyped, RepeatsTakeEffectOnce, UnsafeCallsRunOnce
<1>3. SuccessIsTrue
  BY Zenon DEF CallsSound, CallServed, SuccessIsTrue
<1>4. RefusalsAreFinal
  BY Zenon DEF CallsSound, CallServed, FinalKind, NeverRun, RefusalsAreFinal, Outstanding, Done
<1>5. PermitsAreExact
  BY Zenon DEF CallsSound, PermitsCounted, WaitingCallers, PermitsAreExact
<1>6. FlawedRequestsStayLocal
  BY Zenon DEF CallsSound, CallPlaced, FlawedRequestsStayLocal
<1> QED BY <1>1, <1>2, <1>3, <1>4, <1>5, <1>6, Zenon DEF CallsAreTruthful

\* For any callers, permits and attempts that new_with_sleeper accepts, and
\* whatever the network loses and the worker still runs: a retry repeats no
\* effect, a success and a refusal are true, permits are returned, and what the
\* relay would refuse stays local (execute_inner, send_message, StoreWorker).
THEOREM CallsAreAlwaysTruthful == ASSUME ConfigAssumption PROVE Spec => []CallsAreTruthful
<1>1. Init => CallsSound
  BY CallsInit, Zenon
<1>2. CallsSound /\ [Next]_vars => CallsSound'
  BY CallsNext, Zenon
<1>3. CallsSound => CallsAreTruthful
  BY CallsSoundAreTruthful, Zenon
<1> QED BY <1>1, <1>2, <1>3, PTL DEF Spec
=============================================================================
