------------------------------- MODULE Status -------------------------------
(***************************************************************************)
(* What an operator sees of a harness: the status record its publisher     *)
(* keeps on disk (harness_status.rs), the monitor that reports a blocked   *)
(* engine, and the start and the shutdown of the controller that owns the  *)
(* engine, the publisher and the monitor (claude_channel.rs).              *)
(*                                                                         *)
(* Every step of the engine is a step of module Activation, with any host. *)
(* The record is replaced atomically (module Replace).  There are two      *)
(* clocks.  The monotonic one paces the publisher; it passes in units of   *)
(* STATUS_REFRESH_INTERVAL, and not while a publication is due: the        *)
(* publisher polls over a hundred times in one unit.  The wall clock,      *)
(* which stamps the record and which a reader compares it with, may be set *)
(* forward or back at any moment.                                          *)
(***************************************************************************)
EXTENDS Activation

CONSTANTS RetryLimit,   \* MAX_ACTIVATION_ATTEMPTS, the record's bound too
          StaleAfter,   \* STATUS_STALE_AFTER / STATUS_REFRESH_INTERVAL
          FutureSkew,   \* STATUS_FUTURE_SKEW / STATUS_REFRESH_INTERVAL
          Settings,     \* bound: the ages a setting of the wall clock gives a record
          MaxAge,       \* bound: the passing of time
          MaxOwners     \* bound: processes, one after the other

ASSUME PolicyAssumption == RetryLimit \in Nat /\ MaximumAttempts <= RetryLimit
ASSUME StaleAssumption == StaleAfter \in Nat \ {0} /\ FutureSkew \in Nat
ASSUME StatusBounds == MaxAge \in Nat /\ MaxOwners \in Nat \ {0} /\ Settings \subseteq Int

VARIABLES
  record,      \* the status file
  owner,       \* the process
  controller,  \* what the owner of the channel is at
  publisher,   \* what run_status_publisher is at
  prior,       \* the snapshot published last
  seen,        \* the snapshot about to be published
  monitor,     \* monitor_activation: watching, or what ended it
  elapsed,     \* last_write.elapsed() of a running publisher, on the monotonic clock
  age          \* now_utc less the record's observed_at, on the wall clock

status == <<record, owner, controller, publisher, prior, seen, monitor, elapsed, age>>
statusVars == <<vars, status>>

-----------------------------------------------------------------------------
(* Records *)

Snapshot == [phase |-> phase, mail |-> pending # {}, retry |-> retryAttempt]

\* HarnessStatusRecord::validate.
Valid(s) ==
  /\ s.retry <= RetryLimit
  /\ s.phase \in {"Quiet", "Stopped"} => ~s.mail
  /\ s.phase \in {"Pending", "Waking", "Running", "Backoff"} => s.mail

\* publish_snapshot: stamped, validated, then replaced as a whole.
Publish(s) ==
  /\ Valid(s)
  /\ record' = [owner |-> owner, of |-> s]
  /\ age' = 0

\* The record cannot be built or the file system refuses.
PublishFails == UNCHANGED <<record, age>>

NoSnapshot == [phase |-> "None", mail |-> FALSE, retry |-> 0]

\* status_view_at.
View ==
  IF record.of.phase = "Stopped" THEN "Stopped"
  ELSE IF age < -FutureSkew \/ age > StaleAfter THEN "Stale" ELSE "Recent"

StatusInit ==
  /\ Init
  /\ record = [owner |-> 0, of |-> NoSnapshot]
  /\ owner = 1
  /\ controller = "Starting"
  /\ publisher = "None"
  /\ prior = NoSnapshot
  /\ seen = NoSnapshot
  /\ monitor = "None"
  /\ elapsed = 0
  /\ age = 0

-----------------------------------------------------------------------------
(* ClaudeChannelController::start: the engine runs already *)

StartPublisher ==
  /\ controller = "Starting"
  /\ Publish(Snapshot)
  /\ controller' = "Up" /\ publisher' = "Idle" /\ monitor' = "Watching"
  /\ prior' = Snapshot /\ elapsed' = 0
  /\ UNCHANGED <<vars, owner, seen>>

\* activation.shutdown: the token, unless another caller has set it.
CancelActivation == Cancel \/ (cancelled /\ UNCHANGED vars)

StartPublisherFails ==
  /\ controller = "Starting"
  /\ PublishFails
  /\ CancelActivation
  /\ controller' = "Undoing"
  /\ UNCHANGED <<owner, publisher, prior, seen, monitor, elapsed>>

\* The engine's task has been joined, by this caller or by another one that
\* held the lock of the task.
StartUndone ==
  /\ controller = "Undoing"
  /\ phase = "Stopped"
  /\ controller' = "Failed"
  /\ UNCHANGED <<vars, record, owner, publisher, prior, seen, monitor, elapsed, age>>

-----------------------------------------------------------------------------
(* run_status_publisher *)

stopSent == controller \in {"StatusStop", "MonitorStop", "Down", "DownBadly"}

Due == Snapshot # prior \/ elapsed >= 1

\* A poll's timer; the stop signal has precedence.
PollSnapshot ==
  /\ publisher = "Idle"
  /\ ~stopSent
  /\ Due
  /\ publisher' = "Read"
  /\ seen' = Snapshot
  /\ UNCHANGED <<vars, record, owner, controller, prior, monitor, elapsed, age>>

PublishSeen ==
  /\ publisher = "Read"
  /\ Publish(seen)
  /\ publisher' = "Idle"
  /\ prior' = seen
  /\ elapsed' = 0
  /\ UNCHANGED <<vars, owner, controller, seen, monitor>>

\* The engine is shut down rather than left running unseen.
PublishSeenFails ==
  /\ publisher = "Read"
  /\ PublishFails
  /\ CancelActivation
  /\ publisher' = "Failing"
  /\ UNCHANGED <<owner, controller, prior, seen, monitor, elapsed>>

PublisherFailed ==
  /\ publisher = "Failing"
  /\ phase = "Stopped"
  /\ publisher' = "Failed"
  /\ UNCHANGED <<vars, record, owner, controller, prior, seen, monitor, elapsed, age>>

PublisherStops ==
  /\ publisher = "Idle"
  /\ stopSent
  /\ publisher' = "Done"
  /\ UNCHANGED <<vars, record, owner, controller, prior, seen, monitor, elapsed, age>>

-----------------------------------------------------------------------------
(* monitor_activation *)

Monitor ==
  /\ monitor = "Watching"
  /\ \/ controller # "MonitorStop" /\ phase = "Blocked" /\ monitor' = "Told"
     \/ (controller = "MonitorStop" \/ phase = "Stopped") /\ monitor' = "Ended"
  /\ UNCHANGED <<vars, record, owner, controller, publisher, prior, seen, elapsed, age>>

-----------------------------------------------------------------------------
(* ClaudeChannelController::shutdown *)

Shutdown ==
  /\ controller = "Up"
  /\ CancelActivation
  /\ controller' = "ActivationStop"
  /\ UNCHANGED <<record, owner, publisher, prior, seen, monitor, elapsed, age>>

ActivationJoined ==
  /\ controller = "ActivationStop"
  /\ phase = "Stopped"
  /\ controller' = "StatusStop"
  /\ UNCHANGED <<vars, record, owner, publisher, prior, seen, monitor, elapsed, age>>

\* Faulty: the final snapshot does not wait for the publisher.
FinalAtOnce ==
  /\ controller = "StatusStop"
  /\ Publish(Snapshot)
  /\ controller' = "MonitorStop"
  /\ UNCHANGED <<vars, owner, publisher, prior, seen, monitor, elapsed>>

\* status.shutdown: the publisher's task is joined, then the last snapshot is
\* written.
FinalPublished ==
  /\ controller = "StatusStop"
  /\ publisher = "Done"
  /\ Publish(Snapshot)
  /\ controller' = "MonitorStop"
  /\ UNCHANGED <<vars, owner, publisher, prior, seen, monitor, elapsed>>

\* The publisher had failed, and nothing more is written, or this write fails.
FinalFails ==
  /\ controller = "StatusStop"
  /\ publisher \in {"Done", "Failed"}
  /\ PublishFails
  /\ controller' = "MonitorStop"
  /\ publisher' = "Failed"
  /\ UNCHANGED <<vars, owner, prior, seen, monitor, elapsed>>

MonitorJoined ==
  /\ controller = "MonitorStop"
  /\ monitor # "Watching"
  /\ controller' = IF publisher = "Failed" THEN "DownBadly" ELSE "Down"
  /\ UNCHANGED <<vars, record, owner, publisher, prior, seen, monitor, elapsed, age>>

-----------------------------------------------------------------------------
(* Time and the process *)

Tick ==
  /\ age < MaxAge
  /\ ~(publisher = "Idle" /\ (stopSent \/ Due))
  /\ publisher # "Read"
  /\ age' = age + 1
  /\ elapsed' = IF publisher = "Idle" THEN elapsed + 1 ELSE elapsed
  /\ UNCHANGED <<vars, record, owner, controller, publisher, prior, seen, monitor>>

\* The wall clock is set, by its owner or by the network's time.
SetClock ==
  /\ age' \in Settings
  /\ UNCHANGED <<vars, record, owner, controller, publisher, prior, seen, monitor, elapsed>>

\* What a process has in memory.
FreshMemory ==
  /\ publisher' = "None" /\ monitor' = "None"
  /\ prior' = NoSnapshot /\ seen' = NoSnapshot /\ elapsed' = 0
  /\ phase' = "Quiet" /\ pending' = {} /\ retryAttempt' = 0
  /\ failures' = 0 /\ loop' = "Observe" /\ observed' = {} /\ cancelled' = FALSE
  /\ turns' = 0 /\ issued' = 0 /\ basis' = "Retained" /\ completed' = 0

\* The process dies, and with it its tasks and its memory: the file stays.
Crash ==
  /\ controller # "Dead"
  /\ controller' = "Dead"
  /\ FreshMemory
  /\ UNCHANGED <<inbox, arrived, record, owner, age>>

\* The next process starts on the same inbox.
Restart ==
  /\ controller \in {"Dead", "Down", "DownBadly", "Failed"}
  /\ owner < MaxOwners
  /\ owner' = owner + 1
  /\ controller' = "Starting"
  /\ FreshMemory
  /\ UNCHANGED <<inbox, arrived, record, age>>

-----------------------------------------------------------------------------

Alive == controller # "Dead"

\* What the process's tasks do by themselves.
OwnStep ==
  \/ StartPublisher
  \/ StartUndone
  \/ PollSnapshot
  \/ PublishSeen
  \/ PublisherFailed
  \/ PublisherStops
  \/ Monitor
  \/ ActivationJoined
  \/ FinalPublished
  \/ MonitorJoined

StatusNext ==
  \/ /\ Alive
     /\ EngineStep \/ HostStep \/ ObservePermanent \/ ObserveRetryable
     /\ UNCHANGED status
  \/ (\E m \in Message : Deliver(m) \/ Acknowledge(m)) /\ UNCHANGED status
  \/ OwnStep
  \/ StartPublisherFails
  \/ PublishSeenFails
  \/ FinalFails
  \/ Shutdown
  \/ Tick
  \/ SetClock
  \/ Crash
  \/ Restart

StatusSpec == StatusInit /\ [][StatusNext]_statusVars

\* Every task of a live process is scheduled: the publisher, the monitor and
\* the shutdown each step when they can, and so does the engine.  No fault
\* (a failed write, a crash) and no shutdown is ever required.
StatusFairness ==
  /\ WF_statusVars(PollSnapshot \/ PublisherFailed \/ PublisherStops \/ PublishSeen \/ PublishSeenFails)
  /\ WF_statusVars(Monitor)
  /\ WF_statusVars(ActivationJoined \/ StartUndone \/ MonitorJoined \/ FinalPublished \/ FinalFails)

StatusFairSpec ==
  StatusSpec /\ WF_statusVars(Alive /\ EngineStep /\ UNCHANGED status) /\ StatusFairness

-----------------------------------------------------------------------------
(* Properties *)

SnapshotType == [phase : Phase \cup {"None"}, mail : BOOLEAN, retry : 0..MaximumAttempts]

\* Types of the publisher's and the controller's variables.
StatusTypeOK ==
  /\ record \in [owner : 0..MaxOwners, of : SnapshotType]
  /\ owner \in 1..MaxOwners
  /\ controller \in {"Starting", "Up", "Undoing", "Failed", "ActivationStop", "StatusStop",
                     "MonitorStop", "Down", "DownBadly", "Dead"}
  /\ publisher \in {"None", "Idle", "Read", "Failing", "Failed", "Done"}
  /\ prior \in SnapshotType /\ seen \in SnapshotType
  /\ monitor \in {"None", "Watching", "Told", "Ended"}

\* Whatever the engine is at, its snapshot is one HarnessStatusRecord::validate
\* accepts: a publication fails only for the file system's reasons, and never
\* shuts a healthy engine down.
SnapshotIsPublishable == Valid(Snapshot)

\* After a shutdown that reported no failure the file says stopped, and no
\* publication that was under way overwrites it.
StopIsRecorded ==
  controller = "Down" => record.owner = owner /\ record.of.phase = "Stopped"

\* "A new owner overwrites it as activation starts": while a publisher runs the
\* record is its own process's, whatever the process before it left.
OwnerIsRecorded == publisher \in {"Idle", "Read"} => record.owner = owner

\* By how much the wall clock was set since the record was written.
Jump == age - elapsed

\* A harness whose publisher runs is not reported stale, however long its engine
\* stays in one phase, unless the wall clock was set since the last publication:
\* forward by more than STATUS_STALE_AFTER less one refresh, or back by more than
\* STATUS_FUTURE_SKEW.  The next publication makes up for that, too.
LiveIsNotStale ==
  publisher \in {"Idle", "Read"} /\ View = "Stale" =>
    Jump < -FutureSkew \/ Jump > StaleAfter - 1

\* "Silent preview/policy drops therefore become a bounded visible blocked
\* diagnostic": a blocked engine is reported on stderr, unless the harness is
\* being shut down, its process dies, or the publisher reports a failure of its
\* own, which stops the engine before the monitor looks.
BlockedIsAnnounced ==
  phase = "Blocked" /\ controller = "Up" ~>
    monitor = "Told" \/ controller # "Up" \/ publisher \in {"Failing", "Failed"}

\* A shutdown ends, also when the publisher fails at the same time and shuts
\* the engine down itself.
ShutdownEnds == controller = "ActivationStop" ~> controller \in {"Down", "DownBadly", "Dead"}

\* What holds of a harness's record at every moment.
StatusInvariant ==
  StatusTypeOK /\ SnapshotIsPublishable /\ StopIsRecorded /\ OwnerIsRecorded /\ LiveIsNotStale
=============================================================================
