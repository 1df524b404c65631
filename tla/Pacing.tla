------------------------------- MODULE Pacing -------------------------------
(***************************************************************************)
(* How long the activation engine waits and what it accepts: the policy,   *)
(* the back-off of observation and of host starts with its jitter, which   *)
(* answers of the session end the engine, and the metadata of a wake       *)
(* (psst-application/activation.rs).  Module Activation has the phases of  *)
(* the same loop; here they are reduced to where the loop is, and times,   *)
(* counts and names have their values.                                     *)
(*                                                                         *)
(* A duration counts units of 1/UnitsPerMilli ms, because the jitter works *)
(* on whole milliseconds of a finer Duration.  A name is its length and    *)
(* the classes of characters in it.  External: the relay's answers, the    *)
(* host, and the restart of the process.                                   *)
(***************************************************************************)
EXTENDS Integers, FiniteSets

CONSTANTS UnitsPerMilli,  \* resolution of a duration
          Policies,       \* policies an embedder may pass
          Profiles,       \* profile names
          Squads,         \* squad names
          MessageIds,     \* message ids
          Counts,         \* pending counts
          Samples         \* random samples of the jitter

VARIABLES at,         \* where the loop is
          policy,     \* ActivationPolicy
          names,      \* profile and squad of the SessionActivationSource
          failures,   \* observation_failures
          attempt,    \* retry_attempt
          nextWait,   \* next_wait, in seconds
          delay,      \* the sleep under way, or the last one
          waited,     \* time slept since an observation last succeeded
          sinceRead,  \* time slept since the inbox was last asked
          wake,       \* pending count of the wake, 0 for none
          cause       \* why the engine is refused or blocked

pacingVars == <<at, policy, names, failures, attempt, nextWait, delay, waited,
                sinceRead, wake, cause>>

Least(a, b) == IF a <= b THEN a ELSE b
Seconds(n) == n * 1000 * UnitsPerMilli

MaxWakePendingCount == 1000000
MinReconcileSeconds == 5
MaxReconcileSeconds == 60
MaxBackoff == Seconds(300)
MaxBackoffAttempts == 8
MaxInboxWait == 30

DefaultPolicy == [reconcile |-> 60, initial |-> Seconds(1),
                  maximum |-> Seconds(60), attempts |-> MaxBackoffAttempts]

ValidPolicy(p) ==
  /\ p.reconcile \in MinReconcileSeconds .. MaxReconcileSeconds
  /\ p.initial > 0
  /\ p.initial <= p.maximum
  /\ p.maximum <= MaxBackoff
  /\ p.attempts \in 1 .. MaxBackoffAttempts

-----------------------------------------------------------------------------
(* Names: what other layers accept, and what a wake may carry.             *)

Alphanumeric == {"lower", "upper", "digit"}

ProfileName(v) == /\ v.len \in 1 .. 64
                  /\ v.chars \subseteq Alphanumeric \cup {"dash", "underscore"}

SquadName(v) == /\ v.len \in 1 .. 64
                /\ v.chars \subseteq {"lower", "digit", "dash"}

\* The prefix "msg_", then at least one character.
MessageId(v) == /\ v.len \in 5 .. 128
                /\ {"lower", "underscore"} \subseteq v.chars
                /\ v.chars \subseteq {"lower", "digit", "dash", "underscore"}

WakeIdentifier(v, maximum) ==
  /\ v.len \in 1 .. maximum
  /\ v.chars \subseteq Alphanumeric \cup {"dash", "underscore", "dot"}

\* SessionActivationSource::new
ValidSource(n) == WakeIdentifier(n.profile, 64) /\ WakeIdentifier(n.squad, 64)

\* WakeMetadata::new: the first rule it breaks, or none.
WakeError(n, count, oldest) ==
  IF ~ValidSource(n) THEN "Names"
  ELSE IF count = 0 \/ count > MaxWakePendingCount THEN "Count"
  ELSE IF ~WakeIdentifier(oldest, 128) THEN "Names"
  ELSE "None"

-----------------------------------------------------------------------------
(* Delays *)

\* retry_delay; the machine computes the same for its own attempts.
RetryDelay(p, n) == Least(p.initial * 2^(n - 1), p.maximum)

\* The operating system gave no random bytes.
NoSample == -1

\* Faulty: a delay below two milliseconds is drawn anew like any other.
JitterAlways(d, sample) ==
  LET ceiling == d \div UnitsPerMilli
      lowest == ceiling \div 2
      width == ceiling - lowest
  IN IF sample = NoSample THEN d
     ELSE (lowest + (sample % (width + 1))) * UnitsPerMilli

\* jitter_delay; without random bytes the delay stays as it is.
JitterDelay(d, sample) ==
  LET ceiling == d \div UnitsPerMilli
      lowest == ceiling \div 2
      width == ceiling - lowest
  IN IF ceiling < 2 \/ sample = NoSample THEN d
     ELSE (lowest + (sample % (width + 1))) * UnitsPerMilli

-----------------------------------------------------------------------------
(* What SessionRuntime::inbox may answer, and what the source makes of it. *)

RetryableError == {"NotReady", "Transport", "Timeout", "OutcomeUnknown",
                   "ClientBusy", "RetryExhausted", "ApiRetryable"}
PermanentError == {"ApiFinal", "MalformedResponse", "ResponseTooLarge",
                   "UnexpectedHttp"}

ClassifyObservationFailure(e) ==
  IF e \in RetryableError THEN "Retryable" ELSE "Permanent"

PacingInit ==
  /\ at = "Idle"
  /\ policy = DefaultPolicy
  /\ names \in [profile : {v \in Profiles : ProfileName(v)},
                squad : {v \in Squads : SquadName(v)}]
  /\ failures = 0
  /\ attempt = 0
  /\ nextWait = 0
  /\ delay = 0
  /\ waited = 0
  /\ sinceRead = 0
  /\ wake = 0
  /\ cause = "None"

MaximumWait(p) == Least(p.reconcile, MaxInboxWait)

Stop(where, why) == /\ at' = where
                    /\ cause' = why

StartError(p) == IF ~ValidSource(names) THEN "Names"
                 ELSE IF ~ValidPolicy(p) THEN "Policy"
                 ELSE "None"

\* SessionActivationSource::new, then ActivationRuntime::start.
Start(p) ==
  /\ at = "Idle"
  /\ policy' = p
  /\ nextWait' = MaximumWait(p)
  /\ Stop(IF StartError(p) = "None" THEN "Observing" ELSE "Refused", StartError(p))
  /\ UNCHANGED <<names, failures, attempt, delay, waited, sinceRead, wake>>

ObserveEmpty ==
  /\ at = "Observing"
  /\ failures' = 0
  /\ nextWait' = MaximumWait(policy)
  /\ waited' = 0
  /\ sinceRead' = 0
  /\ UNCHANGED <<at, policy, names, attempt, delay, wake, cause>>

\* wake_from_inbox for a mailbox that is not empty.
ObserveMail(count, oldest) ==
  /\ at = "Observing"
  /\ count > 0
  /\ nextWait' = MaximumWait(policy)
  /\ sinceRead' = 0
  /\ LET error == WakeError(names, count, oldest) IN
     \/ /\ error = "None"
        /\ at' = "Waking"
        /\ failures' = 0
        /\ waited' = 0
        /\ wake' = count
        /\ UNCHANGED cause
     \/ /\ error # "None"
        /\ Stop("Blocked", error)
        /\ UNCHANGED <<failures, waited, wake>>
  /\ UNCHANGED <<policy, names, attempt, delay>>

ObserveFails(e) ==
  /\ at = "Observing"
  /\ nextWait' = MaximumWait(policy)
  /\ sinceRead' = 0
  /\ \/ /\ ClassifyObservationFailure(e) = "Permanent"
        /\ Stop("Blocked", e)
        /\ UNCHANGED <<failures, delay>>
     \/ /\ ClassifyObservationFailure(e) = "Retryable"
        /\ failures' = failures + 1
        /\ IF failures' >= policy.attempts
           THEN Stop("Blocked", "Observation") /\ UNCHANGED delay
           ELSE Stop("Paused", "None") /\ delay' = RetryDelay(policy, failures')
  /\ UNCHANGED <<policy, names, attempt, waited, wake>>

\* The sleep of wait_or_cancel ends.
ObserveAgain ==
  /\ at = "Paused"
  /\ at' = "Observing"
  /\ waited' = waited + delay
  /\ sinceRead' = sinceRead + delay
  /\ UNCHANGED <<policy, names, failures, attempt, nextWait, delay, wake, cause>>

\* host.start answers RetryableBeforeStart.
StartFails(sample) ==
  /\ at = "Waking"
  /\ attempt' = attempt + 1
  /\ IF attempt' >= policy.attempts
     THEN Stop("Blocked", "Host") /\ UNCHANGED delay
     ELSE /\ Stop("Backoff", "None")
          /\ delay' = JitterDelay(RetryDelay(policy, attempt'), sample)
  /\ UNCHANGED <<policy, names, failures, nextWait, waited, sinceRead, wake>>

RetryDue ==
  /\ at = "Backoff"
  /\ at' = "Waking"
  /\ waited' = waited + delay
  /\ sinceRead' = sinceRead + delay
  /\ UNCHANGED <<policy, names, failures, attempt, nextWait, delay, wake, cause>>

\* host.start, or the turn it started, fails for good.
HostFails ==
  /\ at \in {"Waking", "Turn"}
  /\ Stop("Blocked", "HostPermanent")
  /\ UNCHANGED <<policy, names, failures, attempt, nextWait, delay, waited,
                 sinceRead, wake>>

StartAccepted ==
  /\ at = "Waking"
  /\ at' = "Turn"
  /\ UNCHANGED <<policy, names, failures, attempt, nextWait, delay, waited,
                 sinceRead, wake, cause>>

TurnCompleted ==
  /\ at = "Turn"
  /\ at' = "Observing"
  /\ attempt' = 0
  /\ wake' = 0
  /\ waited' = 0
  /\ sinceRead' = 0
  /\ nextWait' = 0
  /\ UNCHANGED <<policy, names, failures, delay, cause>>

\* The engine is shut down at any await, or its process ends; it is started again.
Restart ==
  /\ at # "Idle"
  /\ at' = "Idle"
  /\ policy' = DefaultPolicy
  /\ failures' = 0
  /\ attempt' = 0
  /\ nextWait' = 0
  /\ delay' = 0
  /\ waited' = 0
  /\ sinceRead' = 0
  /\ wake' = 0
  /\ cause' = "None"
  /\ UNCHANGED names

PacingNext ==
  \/ \E p \in Policies : Start(p)
  \/ ObserveEmpty
  \/ \E count \in Counts, oldest \in {v \in MessageIds : MessageId(v)} :
       ObserveMail(count, oldest)
  \/ \E e \in RetryableError \cup PermanentError : ObserveFails(e)
  \/ ObserveAgain
  \/ \E sample \in Samples \cup {NoSample} : StartFails(sample)
  \/ RetryDue
  \/ HostFails
  \/ StartAccepted
  \/ TurnCompleted
  \/ Restart

PacingSpec == PacingInit /\ [][PacingNext]_pacingVars

-----------------------------------------------------------------------------
Live == {"Observing", "Paused", "Waking", "Backoff", "Turn"}

\* A running engine has a policy that passed validation, counters within its
\* budget, and long polls no longer than the reconciliation interval.
PacingTypeOK ==
  /\ at \in Live \cup {"Idle", "Refused", "Blocked"}
  /\ failures \in 0 .. MaxBackoffAttempts
  /\ attempt \in 0 .. MaxBackoffAttempts
  /\ at \in Live => /\ failures < policy.attempts
                    /\ attempt < policy.attempts
                    /\ nextWait <= Least(policy.reconcile, MaxInboxWait)
  /\ wake > 0 <=> \/ at \in {"Waking", "Backoff", "Turn"}
                  \/ cause \in {"Host", "HostPermanent"}

\* Every profile, squad and message id that the layers below accept fits the
\* wake contract: the engine never refuses to start and never blocks for a name
\* that Config, the core types or the relay let through.
NamesFitTheWake == cause # "Names"

\* A pause is never empty and never above the policy's maximum; the jitter of a
\* host retry takes off at most half of the exponential delay and the part of a
\* millisecond it rounds away.
PausesAreBounded ==
  /\ at \in {"Paused", "Backoff"} => delay > 0 /\ delay <= policy.maximum
  /\ at = "Backoff" =>
       LET ideal == policy.initial * 2^(attempt - 1) IN
       \/ 2 * delay > ideal - 2 * UnitsPerMilli
       \/ 2 * delay > policy.maximum - 2 * UnitsPerMilli

\* In one series of failed observations no pause is shorter than the one before.
PausesNeverShrink ==
  [][at' = "Paused" /\ at = "Observing" /\ failures > 0 => delay' >= delay]_pacingVars

\* The pauses a policy allows in one series: each but the last attempt has one.
Patience(p) ==
  LET upTo[n \in 0 .. MaxBackoffAttempts] ==
        IF n = 0 THEN 0
        ELSE upTo[n - 1] + Least(p.initial * 2^(n - 1), p.maximum)
  IN upTo[p.attempts - 1]

\* The engine gives up on an unreachable relay only after the whole patience of
\* its policy, counted from the last answer; on a host that refuses to start
\* after no more than that and about half of it at least.
GivesUpWhenPatienceIsSpent ==
  /\ cause = "Observation" => waited = Patience(policy)
  /\ cause = "Host" =>
       /\ waited <= Patience(policy)
       /\ 2 * waited >= Patience(policy) - 2 * UnitsPerMilli * policy.attempts

\* DECISIONS/0005: "Reconciliation runs at startup, after every activation
\* outcome, and at least every 60 seconds."  Outside of a turn the engine does
\* not sleep for more than a minute without asking the inbox.
ReconciledEveryMinute == at \in Live => sinceRead <= Seconds(60)

\* What holds of the engine's pauses at every moment.
PacingInvariant ==
  PacingTypeOK /\ NamesFitTheWake /\ PausesAreBounded /\ GivesUpWhenPatienceIsSpent
=============================================================================
