----------------------------- MODULE Activation -----------------------------
(***************************************************************************)
(* The activation engine of psst-application: ActivationMachine and the    *)
(* loop of run_activation and drive_wake that observes a durable inbox and *)
(* starts turns of a host (Claude, Codex).                                 *)
(*                                                                         *)
(* External: the inbox (module Store), into which mail arrives and from    *)
(* which the agent's tools acknowledge at any time, and the host, which    *)
(* may answer a start in each of the ways HostFailure names.               *)
(***************************************************************************)
EXTENDS Integers, FiniteSets

CONSTANTS Message,          \* messages that may arrive
          MaximumAttempts,  \* ActivationPolicy.maximum_attempts
          MaxTurns          \* bound: turns the host completes

ASSUME AttemptAssumption == MaximumAttempts \in Nat \ {0}
ASSUME TurnAssumption == MaxTurns \in Nat

VARIABLES
  inbox,         \* pending mail
  arrived,       \* mail that has ever arrived
  phase,         \* ActivationMachine.phase
  pending,       \* ActivationMachine.pending: the inbox a wake speaks of
  retryAttempt,  \* ActivationMachine.retry_attempt
  failures,      \* observation_failures
  loop,          \* the await (or break) the task is at
  observed,      \* the inbox page on its way back
  cancelled,     \* the CancellationToken
  turns,         \* host turns that may be under way
  issued,        \* host.start calls since the machine was last quiet
  basis,         \* whether a page was read since the last outcome
  completed      \* turns completed, for the bound

machine == <<phase, pending, retryAttempt>>
vars == <<inbox, arrived, machine, failures, loop, observed, cancelled, turns,
          issued, basis, completed>>

Phase == {"Quiet", "Pending", "Waking", "Running", "Backoff", "Blocked", "Stopped"}
Loop == {"Observe", "Returned", "ObserveBackoff", "Wake", "Start", "Backoff",
         "Turn", "Exited"}

Init ==
  /\ inbox = {}
  /\ arrived = {}
  /\ phase = "Quiet"
  /\ pending = {}
  /\ retryAttempt = 0
  /\ failures = 0
  /\ loop = "Observe"
  /\ observed = {}
  /\ cancelled = FALSE
  /\ turns = 0
  /\ issued = 0
  /\ basis = "Retained"
  /\ completed = 0

-----------------------------------------------------------------------------
(* The inbox *)

Deliver(m) ==
  /\ m \notin arrived
  /\ arrived' = arrived \cup {m}
  /\ inbox' = inbox \cup {m}
  /\ UNCHANGED <<machine, failures, loop, observed, cancelled, turns, issued,
                 basis, completed>>

Acknowledge(m) ==
  /\ m \in inbox
  /\ inbox' = inbox \ {m}
  /\ UNCHANGED <<arrived, machine, failures, loop, observed, cancelled, turns,
                 issued, basis, completed>>

environment == <<inbox, arrived>>

-----------------------------------------------------------------------------
(* run_activation *)

\* The relay answers the poll; the page is stale once it is on its way.
ObserveInbox ==
  /\ loop = "Observe"
  /\ ~cancelled
  /\ loop' = "Returned"
  /\ observed' = inbox
  /\ UNCHANGED <<environment, machine, failures, cancelled, turns, issued,
                 basis, completed>>

\* ActivationMachine::observe in the quiet phase, the only one the loop
\* observes in (PhaseFollowsLoop), so that reconcile_needed is never set.
Observe ==
  IF observed = {}
  THEN loop' = "Observe" /\ UNCHANGED <<phase, pending>>
  ELSE phase' = "Pending" /\ pending' = observed /\ loop' = "Wake"

ObserveOk ==
  /\ loop = "Returned"
  /\ failures' = 0
  /\ Observe
  /\ basis' = "Page"
  /\ issued' = 0
  /\ UNCHANGED <<environment, retryAttempt, observed, cancelled, turns, completed>>

Blocked == IF phase = "Stopped" THEN "Stopped" ELSE "Blocked"

ObservePermanent ==
  /\ loop = "Observe"
  /\ ~cancelled
  /\ phase' = Blocked
  /\ loop' = "Exited"
  /\ UNCHANGED <<environment, pending, retryAttempt, failures, observed, cancelled,
                 turns, issued, basis, completed>>

ObserveRetryable ==
  /\ loop = "Observe"
  /\ ~cancelled
  /\ failures' = failures + 1
  /\ IF failures' >= MaximumAttempts
     THEN phase' = Blocked /\ loop' = "Exited"
     ELSE phase' = phase /\ loop' = "ObserveBackoff"
  /\ UNCHANGED <<environment, pending, retryAttempt, observed, cancelled, turns,
                 issued, basis, completed>>

ObserveAgain ==
  /\ loop = "ObserveBackoff"
  /\ ~cancelled
  /\ loop' = "Observe"
  /\ UNCHANGED <<environment, machine, failures, observed, cancelled, turns,
                 issued, basis, completed>>

-----------------------------------------------------------------------------
(* drive_wake *)

\* wake_started, and the call of host.start.
WakeStarted ==
  /\ loop = "Wake"
  /\ IF phase = "Pending" /\ pending # {}
     THEN phase' = "Waking" /\ loop' = "Start" /\ issued' = issued + 1
     ELSE phase' = Blocked /\ loop' = "Exited" /\ UNCHANGED issued
  /\ UNCHANGED <<environment, pending, retryAttempt, failures, observed, cancelled,
                 turns, basis, completed>>

\* The host accepted; wake_accepted.
StartAccepted ==
  /\ loop = "Start"
  /\ ~cancelled
  /\ turns' = turns + 1
  /\ IF phase = "Waking"
     THEN phase' = "Running" /\ loop' = "Turn"
     ELSE phase' = Blocked /\ loop' = "Exited"
  /\ UNCHANGED <<environment, pending, retryAttempt, failures, observed, cancelled,
                 issued, basis, completed>>

\* Faulty: a start of unknown outcome is tried again.
RetryUnknown(outcome) ==
  /\ loop = "Start"
  /\ ~cancelled
  /\ retryAttempt' = retryAttempt + 1
  /\ IF retryAttempt' >= MaximumAttempts
     THEN phase' = "Blocked" /\ loop' = "Exited"
     ELSE phase' = "Backoff" /\ loop' = "Backoff"
  /\ turns' \in IF outcome = "OutcomeUnknown" THEN {turns, turns + 1} ELSE {turns}
  /\ basis' = "Retained"
  /\ UNCHANGED <<environment, pending, failures, observed, cancelled, issued, completed>>

\* The machine's transitions on a failed wake.  The phase they require always
\* holds where the loop calls them: PhaseFollowsLoop.
WakeRetryableFailure ==
  /\ retryAttempt' = retryAttempt + 1
  /\ IF retryAttempt' >= MaximumAttempts
     THEN phase' = "Blocked" /\ loop' = "Exited"
     ELSE phase' = "Backoff" /\ loop' = "Backoff"

WakePermanentFailure ==
  /\ phase' = "Blocked"
  /\ loop' = "Exited"

\* The host refused before it began, or cannot say whether it began, or never
\* will.
StartFailed(outcome) ==
  /\ loop = "Start"
  /\ ~cancelled
  /\ \/ /\ outcome = "RetryableBeforeStart"
        /\ WakeRetryableFailure
        /\ UNCHANGED turns
     \/ /\ outcome \in {"OutcomeUnknown", "Permanent"}
        /\ WakePermanentFailure
        /\ turns' \in IF outcome = "OutcomeUnknown" THEN {turns, turns + 1} ELSE {turns}
        /\ UNCHANGED retryAttempt
  /\ basis' = "Retained"
  /\ UNCHANGED <<environment, pending, failures, observed, cancelled, issued, completed>>

\* retry_due: the retained wake is issued again.
RetryDue ==
  /\ loop = "Backoff"
  /\ ~cancelled
  /\ IF phase = "Backoff" /\ pending # {}
     THEN phase' = "Pending" /\ loop' = "Wake"
     ELSE phase' = Blocked /\ loop' = "Exited"
  /\ UNCHANGED <<environment, pending, retryAttempt, failures, observed, cancelled,
                 turns, issued, basis, completed>>

\* Faulty: the engine stays in the running phase's loop after the turn.
CompletedWithoutReconcile ==
  /\ loop = "Turn"
  /\ ~cancelled
  /\ completed < MaxTurns
  /\ completed' = completed + 1
  /\ turns' = turns - 1
  /\ phase' = "Quiet"
  /\ pending' = {}
  /\ retryAttempt' = 0
  /\ basis' = "Retained"
  /\ UNCHANGED <<environment, failures, loop, observed, cancelled, issued>>

\* wake_completed: the machine is quiet and the loop polls again at once.
TurnCompleted ==
  /\ loop = "Turn"
  /\ ~cancelled
  /\ completed < MaxTurns
  /\ completed' = completed + 1
  /\ turns' = turns - 1
  /\ phase' = "Quiet"
  /\ pending' = {}
  /\ retryAttempt' = 0
  /\ loop' = "Observe"
  /\ basis' = "Retained"
  /\ UNCHANGED <<environment, failures, observed, cancelled, issued>>

\* Any missing completion is ambiguous: the turn may still be running.
TurnFailed ==
  /\ loop = "Turn"
  /\ ~cancelled
  /\ WakePermanentFailure
  /\ basis' = "Retained"
  /\ UNCHANGED <<environment, pending, retryAttempt, failures, observed, cancelled,
                 turns, issued, completed>>

-----------------------------------------------------------------------------
(* ActivationRuntime::shutdown *)

Cancel ==
  /\ ~cancelled
  /\ cancelled' = TRUE
  /\ UNCHANGED <<environment, machine, failures, loop, observed, turns, issued,
                 basis, completed>>

\* Every await selects on the token first.  Dropping host.start's future may
\* leave a turn behind.
SeeCancelled ==
  /\ cancelled
  /\ loop \in {"Observe", "Returned", "ObserveBackoff", "Start", "Backoff", "Turn"}
  /\ loop' = "Exited"
  /\ turns' \in IF loop = "Start" THEN {turns, turns + 1} ELSE {turns}
  /\ UNCHANGED <<environment, machine, failures, observed, cancelled, issued,
                 basis, completed>>

\* shutdown has joined the task.
Stop ==
  /\ cancelled
  /\ loop = "Exited"
  /\ phase # "Stopped"
  /\ phase' = "Stopped"
  /\ pending' = {}
  /\ UNCHANGED <<environment, retryAttempt, failures, loop, observed, cancelled,
                 turns, issued, basis, completed>>

-----------------------------------------------------------------------------

HostFailure == {"RetryableBeforeStart", "OutcomeUnknown", "Permanent"}

\* What the task does by itself: polls, wakes, backs off.
EngineStep ==
  \/ ObserveInbox
  \/ ObserveOk
  \/ ObserveAgain
  \/ WakeStarted
  \/ RetryDue
  \/ SeeCancelled
  \/ Stop

HostStep ==
  \/ StartAccepted
  \/ \E outcome \in HostFailure : StartFailed(outcome)
  \/ TurnCompleted
  \/ TurnFailed

Next ==
  \/ \E m \in Message : Deliver(m) \/ Acknowledge(m)
  \/ EngineStep
  \/ HostStep
  \/ ObservePermanent
  \/ ObserveRetryable
  \/ Cancel

Spec == Init /\ [][Next]_vars

\* The task is scheduled and its timers fire; polls that fail forever end in
\* Blocked.  Nothing is assumed of the host.
FairSpec == Spec /\ WF_vars(EngineStep)

-----------------------------------------------------------------------------
(* Properties *)

\* Types of the variables, and the bounds of the counters.
TypeOK ==
  /\ arrived \in SUBSET Message
  /\ inbox \in SUBSET arrived
  /\ phase \in Phase
  /\ pending \in SUBSET Message
  /\ retryAttempt \in 0..MaximumAttempts
  /\ failures \in 0..MaximumAttempts
  /\ loop \in Loop
  /\ observed \in SUBSET Message
  /\ cancelled \in BOOLEAN
  /\ basis \in {"Page", "Retained"}
  /\ turns \in Nat
  /\ issued \in Nat
  /\ completed \in 0..MaxTurns

\* The machine's phase is the one its loop needs, so that no transition of it
\* can fail with InvalidTransition and block the engine by itself; a wake in
\* hand always speaks of mail ("empty polls never invoke a host").
PhaseFollowsLoop ==
  /\ loop \in {"Observe", "Returned", "ObserveBackoff"} => phase = "Quiet" /\ pending = {}
  /\ loop = "Wake" => phase = "Pending"
  /\ loop = "Start" => phase = "Waking"
  /\ loop = "Backoff" => phase = "Backoff"
  /\ loop = "Turn" => phase = "Running"
  /\ loop \in {"Wake", "Start", "Backoff", "Turn"} => pending # {}
  /\ phase \in {"Blocked", "Stopped"} => loop = "Exited"

\* "At most one outstanding activation": whatever the host reports, it is never
\* asked to start while a turn it was given may still be running.
NoDuplicateTurn ==
  /\ turns <= 1
  /\ loop \in {"Observe", "Returned", "ObserveBackoff", "Wake", "Start", "Backoff"} =>
       turns = 0
  /\ loop = "Turn" => turns = 1

\* "Retry loops are bounded": a wake is issued at most maximum_attempts times,
\* and one that may be issued again has a retry left.
RetryBudget ==
  /\ issued <= MaximumAttempts
  /\ loop = "Wake" => issued < MaximumAttempts
  /\ loop \in {"Start", "Turn"} => issued = retryAttempt + 1

\* What holds of the engine at every moment, whatever its host does.
EngineInvariant == TypeOK /\ PhaseFollowsLoop /\ NoDuplicateTurn /\ RetryBudget

\* Mail in the inbox of a quiet engine is acted on: it is acknowledged, a host
\* turn is started, or the engine has visibly given up or been stopped.  This
\* covers what a burst left behind and what arrived while a turn ran.
MailIsActedOn ==
  \A m \in Message :
    m \in inbox /\ phase = "Quiet" ~>
      m \notin inbox \/ phase \in {"Waking", "Running", "Blocked", "Stopped"}

\* "Reconciliation runs at startup, after every activation outcome": a host is
\* woken only on an inbox page read since the last outcome.
WakeIsReconciled == loop = "Start" => basis = "Page"
=============================================================================
