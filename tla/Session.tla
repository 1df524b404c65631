------------------------------ MODULE Session ------------------------------
(***************************************************************************)
(* What runs inside one live session: the heartbeat loop, owned sends,     *)
(* availability reports, reads, mutations (acknowledge, archive), leave,   *)
(* shutdown and the runtime's drop, over the state they share.             *)
(*                                                                         *)
(* A step is what happens between two awaits that can wait.  Both tokio    *)
(* mutexes are FIFO: a gate is the sequence of its waiters, the head holds *)
(* it.  Bounded waits may end by their timeout at any moment.  Credentials *)
(* are numbered by the generation that publishes them.  The send ledger    *)
(* and the report tracker appear by their flags; their capacity is the     *)
(* subject of module Ledger, the files that of module Binding.             *)
(***************************************************************************)
EXTENDS Naturals, Sequences

CONSTANTS Caller,         \* concurrent callers of the runtime
          Loop,           \* the heartbeat task
          Ops,            \* the operations callers use
          Serialised,     \* no leave once a shutdown was called, and one shutdown at a time
          MaxGeneration   \* bound on resumes

ASSUME LoopAssumption == Loop \notin Caller
ASSUME OpsAssumption ==
  Ops \subseteq {"send", "report", "read", "mutate", "leave", "shutdown", "signal", "drop"}
ASSUME SerialisedAssumption == Serialised \in BOOLEAN
ASSUME GenerationAssumption == MaxGeneration \in Nat

Actor == Caller \cup {Loop}

VARIABLES
  lifecycle,   \* LifecycleState
  health,      \* SessionHealth
  generation,  \* generation of the credential in Shared
  disk,        \* generation of the credential on disk
  pc,          \* where each actor is
  seen,        \* the generation a caller's authority() returned
  live,        \* callers whose cancellation token is not cancelled
  result,      \* "timedout": a caller's shutdown returned ShutdownTimedOut
  hbGate,      \* heartbeat_gate
  opGate,      \* operation_gate
  flags,       \* the one-way flags and tokens that are set
  sendsOpen,   \* SendLedger: admission_open
  accepting,   \* SendLedger: accepting
  reportsOpen, \* ReportTracker: the current token is not cancelled
  readsOpen,   \* read_cancel's current token is not cancelled
  held,        \* the supervisor's Arc of the profile lock is there
  orphan       \* a resume transaction whose heartbeat task was aborted

vars == <<lifecycle, health, generation, disk, pc, seen, live, result, hbGate,
          opGate, flags, sendsOpen, accepting, reportsOpen, readsOpen, held, orphan>>

\* shutdown: shutdown_requested and both permanently_closed; cancel: the loop's
\* token; operations: operation_cancel; taken: the scheduler's handle is gone;
\* aborted: abort() was called on it; dropped: the runtime is gone; ended: a
\* shutdown has succeeded.
Flag == {"shutdown", "cancel", "operations", "taken", "aborted", "dropped", "ended"}

Lifecycle == {"Ready", "Leaving", "Left", "Recovering", "RotationFailed", "OutcomeUnknown"}
Health == {"Ready", "Degraded", "OutcomeUnknown", "RotationFailed", "Stopped"}

\* start_locked_with hands over a session whose first heartbeat succeeded.
Init ==
  /\ lifecycle = "Ready" /\ health = "Ready"
  /\ generation = 0 /\ disk = 0
  /\ pc = [a \in Actor |-> IF a = Loop THEN "Sleep" ELSE "Idle"]
  /\ seen = [c \in Caller |-> 0]
  /\ live = {}
  /\ result = [c \in Caller |-> "done"]
  /\ hbGate = <<>> /\ opGate = <<>>
  /\ flags = {}
  /\ sendsOpen = TRUE /\ accepting = TRUE /\ reportsOpen = TRUE /\ readsOpen = TRUE
  /\ held = TRUE
  /\ orphan = FALSE

At(a, s) == pc[a] = s
Goto(a, s) == pc' = [pc EXCEPT ![a] = s]
Holds(gate, a) == gate # <<>> /\ Head(gate) = a
Places(gate, a) == {i \in DOMAIN gate : gate[i] = a}
\* Whoever is behind a moves up; nobody is in a gate twice.
Without(gate, a) ==
  IF Places(gate, a) = {} THEN gate
  ELSE LET k == CHOOSE i \in Places(gate, a) : TRUE
       IN  [i \in 1..(Len(gate) - 1) |-> gate[IF i < k THEN i ELSE i + 1]]
Is(f) == f \in flags

\* Owned sends and reports that have not finished.
Inflight == {c \in Caller : pc[c] \in {"SendGate", "Sending"}}
Resuming == {"Resuming", "Publish", "PublishReady"}
Reports == {c \in Caller : pc[c] \in {"ReportGate", "Reporting", "Expired"} \cup Resuming}

coreVars == <<lifecycle, health, generation, disk>>
admissionVars == <<sendsOpen, accepting, reportsOpen, readsOpen>>
lockVars == <<held, orphan>>

\* A call ends: whatever it holds is released.
Ended(c, r) ==
  /\ Goto(c, "Idle")
  /\ result' = [result EXCEPT ![c] = r]
  /\ seen' = [seen EXCEPT ![c] = 0]
  /\ hbGate' = Without(hbGate, c)
  /\ opGate' = Without(opGate, c)

Return(c) == Ended(c, "done")
ReturnTimedOut(c) == Ended(c, "timedout")

\* A task gives up its gate and goes on elsewhere: the loop to its sleep or its
\* end, a report's task to its end.
Release(a, s) ==
  /\ hbGate' = Without(hbGate, a)
  /\ IF a = Loop THEN Goto(a, s) /\ UNCHANGED result
     ELSE Goto(a, "Idle") /\ result' = [result EXCEPT ![a] = "done"]

-----------------------------------------------------------------------------
(* The heartbeat loop. *)

LoopWake ==
  /\ At(Loop, "Sleep")
  /\ Goto(Loop, "Gate")
  /\ hbGate' = Append(hbGate, Loop)
  /\ UNCHANGED <<coreVars, seen, live, result, opGate, flags, admissionVars, lockVars>>

\* Every wait of the loop but the one for a resume watches its token; an abort
\* takes effect at any wait, and detaches the resume transaction.
LoopCancelled ==
  /\ \/ Is("cancel") /\ pc[Loop] \in {"Sleep", "Gate", "Beating", "Backoff"}
     \/ Is("aborted") /\ pc[Loop] # "Done"
  /\ Goto(Loop, "Done")
  /\ orphan' = (orphan \/ At(Loop, "Resuming"))
  /\ hbGate' = Without(hbGate, Loop)
  /\ UNCHANGED <<coreVars, seen, live, result, opGate, flags, admissionVars, held>>

LoopGate ==
  /\ At(Loop, "Gate") /\ Holds(hbGate, Loop)
  /\ \/ /\ ~Is("cancel") /\ lifecycle = "Ready"
        /\ Goto(Loop, "Beating")
        /\ UNCHANGED <<hbGate, result>>
     \/ ~Is("cancel") /\ lifecycle = "Leaving" /\ Release(Loop, "Sleep")
     \/ /\ Is("cancel") \/ lifecycle \notin {"Ready", "Leaving"}
        /\ Release(Loop, "Done")
  /\ UNCHANGED <<coreVars, seen, live, opGate, flags, admissionVars, lockVars>>

\* The answer to a heartbeat of the loop.
LoopReply ==
  /\ At(Loop, "Beating")
  /\ \/ /\ Is("cancel") \/ lifecycle \notin {"Ready", "Leaving"}
        /\ Release(Loop, "Done")
        /\ UNCHANGED health
     \/ /\ ~Is("cancel") /\ lifecycle = "Leaving"
        /\ Release(Loop, "Sleep")
        /\ UNCHANGED health
     \/ /\ ~Is("cancel") /\ lifecycle = "Ready"
        /\ \/ health' \in {"Ready", "OutcomeUnknown"} /\ Release(Loop, "Sleep")
           \/ health' = "Degraded" /\ Goto(Loop, "Backoff") /\ UNCHANGED <<hbGate, result>>
           \/ /\ generation < MaxGeneration
              /\ Goto(Loop, "Expired")
              /\ UNCHANGED <<health, hbGate, result>>
  /\ UNCHANGED <<lifecycle, generation, disk, seen, live, opGate, flags,
                 admissionVars, lockVars>>

\* Faulty: the heartbeat is tried again without giving up the gate.
LoopBackoffRetries ==
  /\ At(Loop, "Backoff")
  /\ Goto(Loop, "Beating")
  /\ UNCHANGED <<coreVars, seen, live, result, hbGate, opGate, flags, admissionVars, lockVars>>

LoopBackoff ==
  /\ At(Loop, "Backoff")
  /\ Release(Loop, "Sleep")
  /\ UNCHANGED <<coreVars, seen, live, opGate, flags, admissionVars, lockVars>>

-----------------------------------------------------------------------------
(* The resume transaction, of the loop and of a report. *)

\* Faulty: the lifecycle is not looked at again.
RecoverAnyway(a) ==
  /\ At(a, "Expired")
  /\ lifecycle' = "Recovering" /\ Goto(a, "Resuming")
  /\ UNCHANGED <<health, generation, disk, seen, live, result, hbGate, opGate, flags,
                 admissionVars, lockVars>>

Recover(a) ==
  /\ At(a, "Expired")
  /\ \/ /\ lifecycle = "Ready"
        /\ lifecycle' = "Recovering" /\ Goto(a, "Resuming")
        /\ UNCHANGED <<hbGate, result>>
     \/ lifecycle # "Ready" /\ Release(a, "Sleep") /\ UNCHANGED lifecycle
  /\ UNCHANGED <<health, generation, disk, seen, live, opGate, flags, admissionVars, lockVars>>

\* Granted and stored.
Resumed(a) ==
  /\ At(a, "Resuming")
  /\ disk' = generation + 1
  /\ Goto(a, "Publish")
  /\ UNCHANGED <<lifecycle, health, generation, seen, live, result, hbGate, opGate,
                 flags, admissionVars, lockVars>>

\* Refused, unknown, or granted and not stored (though perhaps on disk).
ResumeFailed(a) ==
  /\ At(a, "Resuming")
  /\ \/ lifecycle' = "OutcomeUnknown" /\ health' = "OutcomeUnknown" /\ UNCHANGED disk
     \/ lifecycle' = "Ready" /\ health' = "Degraded" /\ UNCHANGED disk
     \/ /\ lifecycle' = "RotationFailed" /\ health' = "RotationFailed"
        /\ disk' \in {disk, generation + 1}
  /\ Release(a, IF Is("cancel") THEN "Done" ELSE "Sleep")
  /\ UNCHANGED <<generation, seen, live, opGate, flags, admissionVars, lockVars>>

Publish(a) ==
  /\ At(a, "Publish")
  /\ generation' = generation + 1
  /\ health' = "Ready"
  /\ Goto(a, "PublishReady")
  /\ UNCHANGED <<lifecycle, disk, seen, live, result, hbGate, opGate, flags,
                 admissionVars, lockVars>>

PublishReady(a) ==
  /\ At(a, "PublishReady")
  /\ IF lifecycle = "Recovering"
     THEN lifecycle' = "Ready" /\ Release(a, IF Is("cancel") THEN "Done" ELSE "Sleep")
     ELSE UNCHANGED lifecycle /\ Release(a, "Done")
  /\ UNCHANGED <<health, generation, disk, seen, live, opGate, flags, admissionVars, lockVars>>

\* The detached transaction ends: the lifecycle stays Recovering.
OrphanEnds ==
  /\ orphan
  /\ disk' \in {disk, generation + 1}
  /\ orphan' = FALSE
  /\ UNCHANGED <<lifecycle, health, generation, pc, seen, live, result, hbGate, opGate,
                 flags, admissionVars, held>>

-----------------------------------------------------------------------------
(* authority(): readiness, then one generation, then readiness again.  The  *)
(* first two are one step: what lies between them is caught by the third.   *)

Authority(c, here, next) ==
  /\ At(c, here)
  /\ IF ~Is("shutdown") /\ lifecycle = "Ready" /\ health = "Ready"
     THEN /\ seen' = [seen EXCEPT ![c] = generation]
          /\ Goto(c, next)
          /\ UNCHANGED <<result, hbGate, opGate>>
     ELSE Return(c)

StillReady(c) ==
  /\ \E step \in {<<"SendCheck", "Reserve">>, <<"ReadCheck", "ReadReady">>,
                  <<"MutateCheck", "MutateReady">>} :
       /\ At(c, step[1])
       /\ IF ~Is("shutdown") /\ lifecycle = "Ready"
          THEN Goto(c, step[2]) /\ UNCHANGED <<seen, result, hbGate, opGate>>
          ELSE Return(c)
  /\ UNCHANGED <<coreVars, live, flags, admissionVars, lockVars>>

\* Owned sends.
Send(c) ==
  /\ "send" \in Ops /\ ~Is("dropped")
  /\ Authority(c, "Idle", "SendCheck")
  /\ UNCHANGED <<coreVars, live, flags, admissionVars, lockVars>>

Reserve(c) ==
  /\ At(c, "Reserve")
  /\ IF ~Is("shutdown") /\ sendsOpen /\ accepting
     THEN /\ Goto(c, "SendGate")
          /\ hbGate' = Append(hbGate, c)
          /\ UNCHANGED <<seen, result, opGate>>
     ELSE Return(c)
  /\ UNCHANGED <<coreVars, live, flags, admissionVars, lockVars>>

\* The owned task has the heartbeat gate: is its authority still current?
SendGate(c) ==
  /\ At(c, "SendGate") /\ Holds(hbGate, c)
  /\ IF seen[c] = generation /\ health = "Ready" /\ lifecycle \in {"Ready", "Leaving"}
     THEN Goto(c, "Sending") /\ UNCHANGED <<seen, result, hbGate, opGate>>
     ELSE Return(c)
  /\ UNCHANGED <<coreVars, live, flags, admissionVars, lockVars>>

SendDone(c) ==
  /\ At(c, "Sending")
  /\ Return(c)
  /\ UNCHANGED <<coreVars, live, flags, admissionVars, lockVars>>

-----------------------------------------------------------------------------
(* Availability reports. *)

Report(c) ==
  /\ "report" \in Ops /\ ~Is("dropped")
  /\ At(c, "Idle")
  /\ IF ~Is("shutdown") /\ reportsOpen
     THEN /\ Goto(c, "ReportGate")
          /\ hbGate' = Append(hbGate, c)
          /\ live' = live \cup {c}
          /\ UNCHANGED result
     ELSE result' = [result EXCEPT ![c] = "done"] /\ UNCHANGED <<pc, hbGate, live>>
  /\ UNCHANGED <<coreVars, seen, opGate, flags, admissionVars, lockVars>>

ReportCancelled(c) ==
  /\ pc[c] \in {"ReportGate", "Reporting"}
  /\ c \notin live
  /\ Release(c, "Idle")
  /\ UNCHANGED <<coreVars, seen, live, opGate, flags, admissionVars, lockVars>>

ReportGate(c) ==
  /\ At(c, "ReportGate") /\ Holds(hbGate, c) /\ c \in live
  /\ \/ /\ ~Is("operations") /\ lifecycle = "Ready"
        /\ Goto(c, "Reporting")
        /\ UNCHANGED <<hbGate, result>>
     \/ /\ Is("operations") \/ lifecycle # "Ready"
        /\ Release(c, "Idle")
  /\ UNCHANGED <<coreVars, seen, live, opGate, flags, admissionVars, lockVars>>

ReportReply(c) ==
  /\ At(c, "Reporting")
  /\ \/ lifecycle # "Ready" /\ Release(c, "Idle") /\ UNCHANGED health
     \/ /\ lifecycle = "Ready"
        /\ \/ health' = "Ready" /\ Release(c, "Idle")
           \/ health' \in {"Degraded", "OutcomeUnknown"} /\ Release(c, "Idle")
           \/ /\ generation < MaxGeneration
              /\ Goto(c, "Expired")
              /\ UNCHANGED <<health, hbGate, result>>
  /\ UNCHANGED <<lifecycle, generation, disk, seen, live, opGate, flags,
                 admissionVars, lockVars>>

-----------------------------------------------------------------------------
(* Reads take the current epoch's token before authority(); mutations take  *)
(* the operation gate.  Neither is owned: its caller may drop it.  inbox,   *)
(* roster and transcript are reads; acknowledge and archive are mutations.  *)

Read(c) ==
  /\ "read" \in Ops /\ ~Is("dropped")
  /\ At(c, "Idle")
  /\ Goto(c, "Epoch")
  /\ live' = IF readsOpen THEN live \cup {c} ELSE live \ {c}
  /\ UNCHANGED <<coreVars, seen, result, hbGate, opGate, flags, admissionVars, lockVars>>

ReadAuthority(c) ==
  /\ Authority(c, "Epoch", "ReadCheck")
  /\ UNCHANGED <<coreVars, live, flags, admissionVars, lockVars>>

\* Faulty: the token is not polled before the request.
ReadDispatchFirst(c) ==
  /\ At(c, "ReadReady")
  /\ Goto(c, "Reading")
  /\ UNCHANGED <<coreVars, seen, result, hbGate, opGate, live, flags, admissionVars, lockVars>>

\* read_with_epoch is biased: a cancelled token wins before the request is out.
ReadDispatch(c) ==
  /\ At(c, "ReadReady")
  /\ IF c \in live
     THEN Goto(c, "Reading") /\ UNCHANGED <<seen, result, hbGate, opGate>>
     ELSE Return(c)
  /\ UNCHANGED <<coreVars, live, flags, admissionVars, lockVars>>

Mutate(c) ==
  /\ "mutate" \in Ops /\ ~Is("dropped")
  /\ At(c, "Idle")
  /\ IF Is("operations") THEN Return(c)
     ELSE /\ Goto(c, "MutateGate")
          /\ opGate' = Append(opGate, c)
          /\ UNCHANGED <<seen, result, hbGate>>
  /\ UNCHANGED <<coreVars, live, flags, admissionVars, lockVars>>

MutateAuthority(c) ==
  /\ Holds(opGate, c)
  /\ Authority(c, "MutateGate", "MutateCheck")
  /\ UNCHANGED <<coreVars, live, flags, admissionVars, lockVars>>

MutateDispatch(c) ==
  /\ At(c, "MutateReady")
  /\ IF ~Is("operations")
     THEN Goto(c, "Mutating") /\ UNCHANGED <<seen, result, hbGate, opGate>>
     ELSE Return(c)
  /\ UNCHANGED <<coreVars, live, flags, admissionVars, lockVars>>

\* Answered, cancelled, or dropped by the caller.
UnownedEnds(c) ==
  /\ pc[c] \in {"Epoch", "ReadCheck", "ReadReady", "Reading", "MutateGate", "MutateCheck",
               "MutateReady", "Mutating"}
  /\ Return(c)
  /\ UNCHANGED <<coreVars, live, flags, admissionVars, lockVars>>

-----------------------------------------------------------------------------
(* leave(), an owned task. *)

Leave(c) ==
  /\ "leave" \in Ops /\ ~Is("dropped")
  /\ At(c, "Idle")
  /\ Serialised => ~Is("shutdown")
  /\ Goto(c, "LeaveGate")
  /\ opGate' = Append(opGate, c)
  /\ UNCHANGED <<coreVars, seen, live, result, hbGate, flags, admissionVars, lockVars>>

\* reports.cancel(): every report's token is the current one or cancelled.
LeaveGate(c) ==
  /\ At(c, "LeaveGate") /\ Holds(opGate, c)
  /\ Goto(c, "DrainReports")
  /\ reportsOpen' = FALSE
  /\ live' = live \ Reports
  /\ UNCHANGED <<coreVars, seen, result, hbGate, opGate, flags, sendsOpen, accepting,
                 readsOpen, lockVars>>

DrainReports(c) ==
  /\ At(c, "DrainReports")
  /\ \/ Reports = {} /\ Goto(c, "BeginLeave")
        /\ UNCHANGED <<reportsOpen, seen, result, hbGate, opGate>>
     \/ /\ Reports # {}
        /\ reportsOpen' = (reportsOpen \/ (~Is("shutdown") /\ lifecycle = "Ready"))
        /\ Return(c)
  /\ UNCHANGED <<coreVars, live, flags, sendsOpen, accepting, readsOpen, lockVars>>

\* begin_leave: Ready is left for Leaving with the read epoch closed; in Left the
\* files are cleared once more (module Binding has them); the rest is refused.
BeginLeave(c) ==
  /\ At(c, "BeginLeave")
  /\ \/ /\ lifecycle = "Ready"
        /\ lifecycle' = "Leaving"
        /\ readsOpen' = FALSE
        /\ live' = {}
        /\ Goto(c, "StopAdmission")
        /\ UNCHANGED <<seen, result, hbGate, opGate>>
     \/ /\ lifecycle # "Ready"
        /\ Return(c)
        /\ UNCHANGED <<lifecycle, live, readsOpen>>
  /\ UNCHANGED <<health, generation, disk, flags, sendsOpen, accepting, reportsOpen, lockVars>>

StopAdmission(c) ==
  /\ At(c, "StopAdmission")
  /\ sendsOpen' = FALSE /\ accepting' = FALSE
  /\ Goto(c, "DrainSends")
  /\ UNCHANGED <<coreVars, seen, live, result, hbGate, opGate, flags, reportsOpen,
                 readsOpen, lockVars>>

\* rollback_leave: a new read epoch, unless a shutdown was requested.
Rollback(c) ==
  /\ IF Is("shutdown") THEN Return(c) /\ UNCHANGED readsOpen
     ELSE readsOpen' = TRUE /\ Goto(c, "Reopen") /\ UNCHANGED <<seen, result, hbGate, opGate>>
  /\ UNCHANGED <<coreVars, live, flags, sendsOpen, accepting, reportsOpen, lockVars>>

\* Admission and readiness come back only if still no shutdown was requested.
Reopen(c) ==
  /\ At(c, "Reopen")
  /\ IF Is("shutdown") THEN UNCHANGED <<lifecycle, sendsOpen, accepting, reportsOpen>>
     ELSE /\ sendsOpen' = TRUE /\ accepting' = TRUE /\ reportsOpen' = TRUE
          /\ lifecycle' = "Ready"
  /\ Return(c)
  /\ UNCHANGED <<health, generation, disk, live, flags, readsOpen, lockVars>>

DrainSends(c) ==
  /\ At(c, "DrainSends")
  /\ \/ /\ Inflight = {}
        /\ Goto(c, "LeaveHeartbeat")
        /\ hbGate' = Append(hbGate, c)
        /\ UNCHANGED <<coreVars, seen, live, result, opGate, flags, admissionVars, lockVars>>
     \/ Inflight # {} /\ Rollback(c)

\* The journal's Intent is stored, or the leave rolled back.
StoreIntent(c) ==
  /\ At(c, "LeaveHeartbeat") /\ Holds(hbGate, c)
  /\ \/ Goto(c, "LeaveRequest")
        /\ UNCHANGED <<coreVars, seen, live, result, hbGate, opGate, flags,
                       admissionVars, lockVars>>
     \/ Rollback(c)

\* The relay's answer: done, refused, or unknown (a failing journal included).
LeaveReply(c) ==
  /\ At(c, "LeaveRequest")
  /\ \/ Goto(c, "Cleanup")
        /\ UNCHANGED <<coreVars, seen, live, result, hbGate, opGate, flags,
                       admissionVars, lockVars>>
     \/ Rollback(c)
     \/ /\ lifecycle' = "OutcomeUnknown" /\ health' = "OutcomeUnknown"
        /\ Return(c)
        /\ UNCHANGED <<generation, disk, live, flags, admissionVars, lockVars>>

\* The Confirmed record, the tokens, the cleanup, and the scheduler's handle.
Cleanup(c) ==
  /\ At(c, "Cleanup")
  /\ \/ /\ flags' = flags \cup {"cancel", "operations", "taken"}
        /\ lifecycle' = "Left" /\ health' = "Stopped"
        /\ Goto(c, IF Is("taken") THEN "LeaveEnds" ELSE "LeaveReap")
        /\ UNCHANGED <<seen, result, hbGate, opGate>>
     \/ /\ lifecycle' = "OutcomeUnknown" /\ health' = "OutcomeUnknown"
        /\ Return(c)
        /\ UNCHANGED flags
  /\ UNCHANGED <<generation, disk, live, admissionVars, lockVars>>

\* Waiting for the scheduler, bounded; then aborting it and waiting for that.
LeaveReap(c) ==
  /\ \/ /\ At(c, "LeaveReap") /\ At(Loop, "Done")
        /\ Goto(c, "LeaveEnds")
        /\ UNCHANGED <<seen, result, hbGate, opGate, flags>>
     \/ /\ At(c, "LeaveReap") /\ ~At(Loop, "Done")
        /\ flags' = flags \cup {"aborted"}
        /\ Goto(c, "LeaveAborting")
        /\ UNCHANGED <<seen, result, hbGate, opGate>>
     \/ /\ At(c, "LeaveAborting") /\ At(Loop, "Done")
        /\ Return(c)
        /\ UNCHANGED flags
  /\ UNCHANGED <<coreVars, live, admissionVars, lockVars>>

LeaveEnds(c) ==
  /\ At(c, "LeaveEnds")
  /\ Return(c)
  /\ UNCHANGED <<coreVars, live, flags, admissionVars, lockVars>>

-----------------------------------------------------------------------------
(* shutdown(), and the drop of the runtime. *)

\* Both ledgers are closed for good; the reports' token is cancelled.  Nothing in the runtime
\* keeps a second call out: it would find the scheduler taken and not wait for it.
Shutdown(c) ==
  /\ "shutdown" \in Ops /\ ~Is("dropped")
  /\ At(c, "Idle")
  /\ Serialised => \A d \in Caller : pc[d] \notin {"Stop", "StopSends", "StopReap", "StopAborting", "StopGate"}
  /\ Goto(c, "Stop")
  /\ flags' = flags \cup {"shutdown"}
  /\ sendsOpen' = FALSE /\ reportsOpen' = FALSE
  /\ live' = live \ Reports
  /\ UNCHANGED <<coreVars, seen, result, hbGate, opGate, accepting, readsOpen, lockVars>>

StopReports(c) ==
  /\ At(c, "Stop")
  /\ \/ Reports = {} /\ Goto(c, "StopSends") /\ UNCHANGED <<seen, result, hbGate, opGate>>
     \/ Reports # {} /\ ReturnTimedOut(c)
  /\ UNCHANGED <<coreVars, live, flags, admissionVars, lockVars>>

StopSends(c) ==
  /\ At(c, "StopSends")
  /\ accepting' = FALSE
  /\ \/ /\ Inflight = {}
        /\ Goto(c, IF Is("taken") THEN "StopGate" ELSE "StopReap")
        /\ flags' = flags \cup {"operations", "cancel", "taken"}
        /\ readsOpen' = FALSE
        /\ live' = {}
        /\ opGate' = IF Is("taken") THEN Append(opGate, c) ELSE opGate
        /\ UNCHANGED <<seen, result, hbGate>>
     \/ Inflight # {} /\ ReturnTimedOut(c) /\ UNCHANGED <<flags, readsOpen, live>>
  /\ UNCHANGED <<coreVars, sendsOpen, reportsOpen, lockVars>>

StopReap(c) ==
  /\ \/ /\ At(c, "StopReap") /\ At(Loop, "Done")
        /\ Goto(c, "StopGate") /\ opGate' = Append(opGate, c)
        /\ UNCHANGED <<seen, result, hbGate, flags>>
     \/ /\ At(c, "StopReap") /\ ~At(Loop, "Done")
        /\ flags' = flags \cup {"aborted"}
        /\ Goto(c, "StopAborting")
        /\ UNCHANGED <<seen, result, hbGate, opGate>>
     \/ At(c, "StopAborting") /\ At(Loop, "Done") /\ ReturnTimedOut(c) /\ UNCHANGED flags
  /\ UNCHANGED <<coreVars, live, admissionVars, lockVars>>

StopGate(c) ==
  /\ At(c, "StopGate")
  /\ \/ /\ Holds(opGate, c)
        /\ Return(c)
        /\ health' = "Stopped"
        /\ held' = FALSE
        /\ flags' = flags \cup {"ended"}
     \/ ~Holds(opGate, c) /\ ReturnTimedOut(c) /\ UNCHANGED <<health, held, flags>>
  /\ UNCHANGED <<lifecycle, generation, disk, live, admissionVars, orphan>>

Signalled == {"shutdown", "operations", "cancel"}

\* request_shutdown.
Signal ==
  /\ "signal" \in Ops /\ ~Is("dropped")
  /\ flags' = flags \cup Signalled
  /\ sendsOpen' = FALSE /\ reportsOpen' = FALSE /\ readsOpen' = FALSE
  /\ live' = {}
  /\ UNCHANGED <<coreVars, pc, seen, result, hbGate, opGate, accepting, lockVars>>

\* Drop: nobody borrows the runtime, owned tasks go on.
Owned == {"SendGate", "Sending", "ReportGate", "Reporting", "Expired", "LeaveGate",
          "DrainReports", "BeginLeave", "StopAdmission", "DrainSends", "Reopen", "LeaveHeartbeat", "LeaveRequest",
          "Cleanup", "LeaveReap", "LeaveAborting", "LeaveEnds"} \cup Resuming

Drop ==
  /\ "drop" \in Ops /\ ~Is("dropped")
  /\ \A c \in Caller : pc[c] \in Owned \cup {"Idle"}
  /\ flags' = flags \cup Signalled \cup {"taken", "dropped"}
                    \cup (IF Is("taken") THEN {} ELSE {"aborted"})
  /\ sendsOpen' = FALSE /\ reportsOpen' = FALSE /\ readsOpen' = FALSE
  /\ live' = {}
  /\ UNCHANGED <<coreVars, pc, seen, result, hbGate, opGate, accepting, lockVars>>

\* A dropped runtime whose tasks have ended may stand still.
Gone ==
  /\ Is("dropped") /\ ~orphan /\ At(Loop, "Done")
  /\ \A c \in Caller : At(c, "Idle")
  /\ UNCHANGED vars

-----------------------------------------------------------------------------
Resume(a) == Recover(a) \/ Resumed(a) \/ ResumeFailed(a) \/ Publish(a) \/ PublishReady(a)
LoopSteps == LoopCancelled \/ LoopGate \/ LoopReply \/ LoopBackoff
Sending(c) == StillReady(c) \/ Reserve(c) \/ SendGate(c) \/ SendDone(c)
Reporting(c) == ReportCancelled(c) \/ ReportGate(c) \/ ReportReply(c)
Unowned(c) == ReadAuthority(c) \/ ReadDispatch(c) \/ MutateAuthority(c)
              \/ MutateDispatch(c) \/ UnownedEnds(c)
Leaving(c) == LeaveGate(c) \/ DrainReports(c) \/ BeginLeave(c) \/ StopAdmission(c)
              \/ DrainSends(c) \/ Reopen(c)
              \/ StoreIntent(c) \/ LeaveReply(c) \/ Cleanup(c) \/ LeaveReap(c) \/ LeaveEnds(c)
Stopping(c) == StopReports(c) \/ StopSends(c) \/ StopReap(c) \/ StopGate(c)
Calling(c) == Send(c) \/ Report(c) \/ Read(c) \/ Mutate(c) \/ Leave(c) \/ Shutdown(c)

Next ==
  \/ LoopWake \/ LoopSteps \/ OrphanEnds \/ Signal \/ Drop \/ Gone
  \/ \E a \in Actor : Resume(a)
  \/ \E c \in Caller : \/ Calling(c) \/ Sending(c) \/ Reporting(c) \/ Unowned(c)
                       \/ Leaving(c) \/ Stopping(c)

Spec == Init /\ [][Next]_vars

\* Tasks are scheduled and the relay answers; calls are made or not.
Fairness ==
  /\ WF_vars(LoopWake) /\ WF_vars(LoopSteps) /\ WF_vars(OrphanEnds)
  /\ \A a \in Actor : WF_vars(Resume(a))
  /\ \A c \in Caller : /\ WF_vars(Sending(c)) /\ WF_vars(Reporting(c)) /\ WF_vars(Unowned(c))
                       /\ WF_vars(Leaving(c)) /\ WF_vars(Stopping(c))

FairSpec == Spec /\ Fairness

-----------------------------------------------------------------------------
\* Lifecycle, generations and gates are well formed, and every caller is known.
TypeOK ==
  /\ lifecycle \in Lifecycle /\ health \in Health
  /\ generation \in 0..MaxGeneration /\ disk \in 0..MaxGeneration
  /\ seen \in [Caller -> 0..MaxGeneration]
  /\ live \subseteq Caller
  /\ result \in [Caller -> {"done", "timedout"}]
  /\ hbGate \in Seq(Actor) /\ opGate \in Seq(Caller)
  /\ flags \subseteq Flag

\* "Explicit LeaseExpired alone performs one serialized resume": the lifecycle
\* is Recovering exactly while one resume transaction is being carried out or
\* after an abort detached it, and there are never two.
OneResume ==
  LET resuming == {a \in Actor : pc[a] \in Resuming} IN
  /\ \A a, b \in resuming : a = b
  /\ orphan => resuming = {}
  /\ resuming # {} \/ orphan => lifecycle = "Recovering"
  /\ lifecycle = "Recovering" => resuming # {} \/ Is("aborted")

\* "Successful rotation is persisted before its generation is visible": the
\* credential in use is on disk, unless a later one is there already, and then
\* the session is between the two or fenced.
PersistedBeforeVisible ==
  /\ generation <= disk
  /\ lifecycle = "Ready" => disk = generation

\* A send, a report or a heartbeat that is on the wire carries the credential
\* in use: nobody rotates it meanwhile.
WireUsesCurrentCredential ==
  \A c \in Caller : At(c, "Sending") => seen[c] = generation /\ lifecycle # "Recovering"

\* "Owned send operations ... drain before leave": while the relay is asked to
\* end the membership, nothing else of this session is asked of it, reads that
\* were cancelled aside.
LeaveIsAlone ==
  \A c \in Caller : pc[c] \in {"LeaveRequest", "Cleanup"} =>
    /\ \A a \in Actor \ {c} : pc[a] \notin {"Sending", "Beating", "Reporting", "Mutating", "Resuming"}
    /\ live = {}

\* The process has the profile lock: the supervisor's Arc while the supervisor
\* is there, the heartbeat task's, or that of a resume transaction.
Locked ==
  \/ held /\ (Is("dropped") => \E c \in Caller : pc[c] \in Owned)
  \/ ~At(Loop, "Done")
  \/ orphan
  \/ \E c \in Caller : pc[c] \in Resuming

Writing(c) ==
  \/ At(c, "LeaveHeartbeat") /\ Holds(hbGate, c)
  \/ pc[c] \in {"LeaveRequest", "Cleanup"}
  \/ At(c, "BeginLeave") /\ lifecycle = "Left"

\* "Successful shutdown releases the profile guard only after reports, owned
\* sends, scheduler, and the lifecycle operation gate have drained ... no stale
\* cleanup": the profile's files are written under the lock, and a report about
\* to resume finds the lock it expects.
WritersHoldLock ==
  \A c \in Caller : /\ Writing(c) => Locked
                    /\ At(c, "Expired") => held

\* "Timeout retains ownership": once the lock is given up, nothing is left of
\* what could need it.
ReleasedMeansDrained ==
  ~held => /\ Reports = {} /\ Inflight = {}
           /\ At(Loop, "Done")
           /\ \A c \in Caller : pc[c] \notin Owned

\* The heartbeat task runs for as long as the session has authority to keep.
BeatsWhileBound ==
  At(Loop, "Done") => \/ lifecycle \notin {"Ready", "Leaving", "Recovering"}
                      \/ Is("cancel") \/ Is("aborted")

\* Who has a request at the relay.
Wire == {a \in Actor : pc[a] \in {"Sending", "Beating", "Reporting", "Reading", "Mutating",
                                 "Resuming", "LeaveRequest"}}

\* "Read epochs and mutation gates prevent ... dispatch after shutdown or
\* terminal leave": nothing goes out after either.
NothingAfterEnd ==
  [][Is("ended") \/ lifecycle = "Left" => Wire' \subseteq Wire]_vars

\* A session stays left, stopped or fenced.
EndIsFinal ==
  [][(lifecycle \in {"Left", "OutcomeUnknown", "RotationFailed"}) => UNCHANGED lifecycle]_vars

\* Every call returns, whoever holds or waits for the gates.
CallsReturn == \A c \in Caller : ~At(c, "Idle") ~> At(c, "Idle")

\* shutdown: "Returns ShutdownTimedOut after aborting a task that fails to stop
\* in time."
TimedOutMeansStopped ==
  \A c \in Caller : result[c] = "timedout" /\ At(c, "Idle") => At(Loop, "Done")

\* NotReady: "session is not ready for protected operations".  A ready session
\* that nobody is leaving or stopping takes reports.
ReadyAcceptsReports ==
  \/ reportsOpen
  \/ lifecycle # "Ready" \/ Is("shutdown")
  \/ \E c \in Caller : pc[c] \in {"DrainReports", "BeginLeave"}

\* What holds of a session at every moment.
SessionInvariant ==
  /\ TypeOK /\ OneResume /\ PersistedBeforeVisible /\ WireUsesCurrentCredential
  /\ LeaveIsAlone /\ WritersHoldLock /\ ReleasedMeansDrained /\ BeatsWhileBound
=============================================================================
