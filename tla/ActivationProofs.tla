-------------------------- MODULE ActivationProofs --------------------------
(***************************************************************************)
(* The activation engine's safety for any set of messages and any retry    *)
(* budget, by itself, under the Claude Channel host and under the status   *)
(* publisher.  The engine's three properties are inductive once the retry  *)
(* counters are tied to the loop as well; the host's need to know which    *)
(* mail a page in hand can have missed; the publisher's, what a shutdown   *)
(* has reached.                                                            *)
(***************************************************************************)
EXTENDS Channel, Status, WellFoundedInduction, TLAPS

\* A retry counter below its limit wherever the loop goes on, and equal to the
\* failed starts of the wake in hand.
Retries ==
  /\ loop \in {"Observe", "Returned", "ObserveBackoff"} =>
       retryAttempt = 0 /\ failures < MaximumAttempts
  /\ loop \in {"Wake", "Backoff"} => issued = retryAttempt
  /\ loop \in {"Wake", "Start", "Backoff", "Turn"} =>
       retryAttempt < MaximumAttempts /\ failures = 0

\* The inductive invariant of the engine.
IInv == TypeOK /\ PhaseFollowsLoop /\ NoDuplicateTurn /\ RetryBudget /\ Retries

\* Every step of the engine, the host and the inbox keeps the invariant.
LEMMA StepKeeps ==
  ASSUME IInv, [Next]_vars
  PROVE  IInv'
<1> USE AttemptAssumption, TurnAssumption
    DEF IInv, TypeOK, PhaseFollowsLoop, NoDuplicateTurn, RetryBudget, Retries,
        Phase, Loop, environment, machine
<1>1. ASSUME NEW m \in Message, Deliver(m) PROVE IInv'
  BY <1>1, Zenon DEF Deliver
<1>2. ASSUME NEW m \in Message, Acknowledge(m) PROVE IInv'
  BY <1>2, Zenon DEF Acknowledge
<1>3. CASE ObserveInbox
  BY <1>3, Zenon DEF ObserveInbox
<1>4. CASE ObserveOk
  BY <1>4 DEF ObserveOk, Observe
<1>5. CASE ObserveAgain
  BY <1>5, Zenon DEF ObserveAgain
<1>6. CASE ObservePermanent
  BY <1>6, Zenon DEF ObservePermanent, Blocked
<1>7. CASE ObserveRetryable
  BY <1>7 DEF ObserveRetryable, Blocked
<1>8. CASE WakeStarted
  <2>1. /\ phase' = "Waking" /\ loop' = "Start" /\ issued' = issued + 1
        /\ UNCHANGED <<environment, pending, retryAttempt, failures, observed, cancelled,
                       turns, basis, completed>>
    BY <1>8, Zenon DEF WakeStarted
  <2> QED BY <1>8, <2>1 DEF WakeStarted
<1>9. CASE StartAccepted
  BY <1>9 DEF StartAccepted, Blocked
<1>10. ASSUME NEW outcome \in HostFailure, StartFailed(outcome) PROVE IInv'
  <2>1. /\ loop = "Start" /\ basis' = "Retained"
        /\ UNCHANGED <<environment, pending, failures, observed, cancelled, issued, completed>>
    BY <1>10, Zenon DEF StartFailed
  <2>2. CASE /\ retryAttempt' = retryAttempt + 1 /\ UNCHANGED turns
             /\ IF retryAttempt' >= MaximumAttempts
                THEN phase' = "Blocked" /\ loop' = "Exited"
                ELSE phase' = "Backoff" /\ loop' = "Backoff"
    BY <2>1, <2>2
  <2>3. CASE /\ phase' = "Blocked" /\ loop' = "Exited" /\ UNCHANGED retryAttempt
             /\ turns' \in {turns, turns + 1}
    BY <2>1, <2>3
  <2> QED BY <1>10, <2>2, <2>3, Zenon DEF StartFailed, WakeRetryableFailure, WakePermanentFailure
<1>11. CASE RetryDue
  BY <1>11, Zenon DEF RetryDue, Blocked
<1>12. CASE TurnCompleted
  BY <1>12 DEF TurnCompleted
<1>13. CASE TurnFailed
  BY <1>13, Zenon DEF TurnFailed, WakePermanentFailure
<1>14. CASE Cancel
  BY <1>14, Zenon DEF Cancel
<1>15. CASE SeeCancelled
  BY <1>15 DEF SeeCancelled
<1>16. CASE Stop
  BY <1>16, Zenon DEF Stop
<1>17. CASE UNCHANGED vars
  BY <1>17, Zenon DEF vars
<1> QED BY <1>1, <1>2, <1>3, <1>4, <1>5, <1>6, <1>7, <1>8, <1>9, <1>10, <1>11, <1>12, Zenon,
           <1>13, <1>14, <1>15, <1>16, <1>17 DEF Next, EngineStep, HostStep

\* The engine starts sound.
LEMMA InitIsSound ==
  ASSUME Init
  PROVE  IInv
<1>1. TypeOK
  <2>1. cancelled \in BOOLEAN
    BY Zenon DEF Init
  <2> QED BY <2>1, AttemptAssumption, TurnAssumption DEF Init, TypeOK, Phase, Loop
<1>2. PhaseFollowsLoop /\ NoDuplicateTurn
  BY DEF Init, PhaseFollowsLoop, NoDuplicateTurn
<1>3. RetryBudget /\ Retries
  BY AttemptAssumption DEF Init, RetryBudget, Retries
<1> QED BY <1>1, <1>2, <1>3, Zenon DEF IInv

\* The engine's inductive invariant: phase, loop, turns and retries agree.
THEOREM EngineIsSafe ==
  Spec => [](TypeOK /\ PhaseFollowsLoop /\ NoDuplicateTurn /\ RetryBudget)
<1>1. Init => IInv
  BY InitIsSound, Zenon
<1>2. IInv /\ [Next]_vars => IInv'
  BY StepKeeps, Zenon
<1>3. IInv => TypeOK /\ PhaseFollowsLoop /\ NoDuplicateTurn /\ RetryBudget
  BY Zenon DEF IInv
<1> QED BY <1>1, <1>2, <1>3, PTL DEF Spec

\* No transition of the machine is refused: its phase is the one its loop needs.
THEOREM PhaseAlwaysFollowsLoop == Spec => []PhaseFollowsLoop
  BY EngineIsSafe, PTL

\* However the host answers, at most one turn runs.
THEOREM OneTurnAtATime == Spec => []NoDuplicateTurn
  BY EngineIsSafe, PTL

\* A wake is issued at most maximum_attempts times.
THEOREM RetriesStayInBudget == Spec => []RetryBudget
  BY EngineIsSafe, PTL

\* What holds of the engine with any host at all.
THEOREM EngineIsAlwaysSound == Spec => []EngineInvariant
  BY EngineIsSafe, PTL DEF EngineInvariant

\* A process that starts on the mail its predecessor left is sound.
LEMMA NewEngineIsSound ==
  ASSUME phase' = "Quiet", pending' = {}, retryAttempt' = 0, failures' = 0,
         loop' = "Observe", observed' = {}, cancelled' = FALSE, turns' = 0, issued' = 0,
         basis' = "Retained", completed' \in 0..MaxTurns,
         arrived' \in SUBSET Message, inbox' \in SUBSET arrived'
  PROVE  IInv'
<1>1. cancelled' \in BOOLEAN
  BY Zenon
<1>2. TypeOK'
  BY <1>1, AttemptAssumption DEF TypeOK, Phase, Loop
<1> QED
  BY <1>2, AttemptAssumption
     DEF IInv, PhaseFollowsLoop, NoDuplicateTurn, RetryBudget, Retries

-----------------------------------------------------------------------------
(* The Claude Channel host.                                                *)

\* Mail that has arrived, if any, has an oldest message.
LEMMA OldestIsLeast ==
  ASSUME NEW mail \in SUBSET Nat, mail # {}
  PROVE  Oldest(mail) \in mail /\ \A n \in mail : Oldest(mail) <= n
<1>1. IsWellFoundedOn(OpToRel(<, Nat), Nat)
  BY NatLessThanWellFounded, Zenon
<1>2. \E m \in mail : \A n \in mail : <<n, m>> \notin OpToRel(<, Nat)
  BY <1>1, WFMin, Zenon
<1>3. PICK m \in mail : \A n \in mail : <<n, m>> \notin OpToRel(<, Nat)
  BY <1>2, Zenon
<1>4. ASSUME NEW n \in mail PROVE m <= n
  <2>1. m \in Nat /\ n \in Nat /\ <<n, m>> \in Nat \X Nat
    BY Zenon
  <2>2. <<n, m>> \notin {ss \in Nat \X Nat : ss[1] < ss[2]}
    BY <1>3, Zenon DEF OpToRel
  <2> QED BY <2>1, <2>2
<1> QED BY <1>4, Zenon DEF Oldest

\* Mail is numbered as it is accepted: what a page has missed is newer.
NewerThan(page) == \A m \in inbox \ page, n \in page : n < m

\* The page in hand, and the wake made of it, speak of the oldest mail.
Fresh ==
  /\ pending \subseteq arrived /\ observed \subseteq arrived /\ working \subseteq arrived
  /\ loop = "Returned" => NewerThan(observed)
  /\ loop \in {"Wake", "Start", "Backoff", "Turn"} => NewerThan(pending)
  /\ loop = "Turn" => notified = Notice

\* Until its process exits, what Claude is working on is acknowledged or is the
\* message of the occupied turn.
Claimed ==
  /\ loop \in {"Observe", "ObserveBackoff", "Returned", "Wake", "Start", "Backoff"} =>
       working \cap inbox = {}
  /\ loop = "Returned" => working \cap observed = {}
  /\ loop \in {"Wake", "Start", "Backoff"} => working \cap pending = {}
  /\ loop = "Turn" => working \cap inbox \subseteq {notified}

\* A message whose wake was not heard is acknowledged, is the message of the
\* occupied turn, or has ended the engine.
Unheard ==
  /\ dropped \subseteq arrived
  /\ dropped \cap inbox # {} => phase \in {"Running", "Blocked", "Stopped"}
  /\ loop = "Turn" => dropped \cap inbox \subseteq {notified}

\* The invariant of the engine with the channel.
ChannelInv ==
  /\ IInv
  /\ ChannelTypeOK
  /\ Fresh
  /\ crashes = 0 => Claimed
  /\ Unheard

\* The host only decides when the engine's own steps happen.
LEMMA ChannelStepsAreEngineSteps ==
  ASSUME [ChannelNext]_channelVars, ~AdapterRestarts
  PROVE  [Next]_vars
  BY Zenon DEF ChannelNext, channelVars, Accept, Connected, Settled, Disconnect,
         EndTurn, StartWithoutPeer, Notify, NotifyFails, TurnStep, Reconciled, CheckAgain,
         OccupancyEnds, ReconcileFails, Next, HostStep, HostFailure

\* Whatever Claude and its pipe do, and however the adapter's process is
\* restarted, the engine stays sound.
LEMMA ChannelKeepsEngine ==
  ASSUME IInv, [ChannelNext]_channelVars
  PROVE  IInv'
<1>1. CASE AdapterRestarts
  <2>1. completed' \in 0..MaxTurns /\ arrived' \in SUBSET Message /\ inbox' \in SUBSET arrived'
    BY <1>1, Zenon DEF AdapterRestarts, IInv, TypeOK
  <2> QED BY <1>1, <2>1, NewEngineIsSound, Zenon DEF AdapterRestarts
<1> QED BY <1>1, ChannelStepsAreEngineSteps, StepKeeps, Zenon

\* The wake in hand speaks of the oldest pending mail.
LEMMA NoticeIsOldest ==
  ASSUME ChannelInv, pending # {}
  PROVE  /\ Notice \in pending
         /\ Notice \in Message
         /\ \A n \in pending : Notice <= n
<1>1. pending \in SUBSET Message /\ pending \in SUBSET Nat
  BY OrderAssumption, Zenon DEF ChannelInv, IInv, TypeOK
<1> QED BY <1>1, OldestIsLeast, Zenon DEF Notice

\* While a turn is occupied nothing older than its message is in the inbox, so
\* that a page whose oldest message is another shows it acknowledged.
LEMMA ReconciledIsAcknowledged ==
  ASSUME ChannelInv, Reconciled
  PROVE  notified \notin inbox
<1>1. loop = "Turn" /\ ~StillOldest
  BY Zenon DEF Reconciled, TurnCompleted
<1>2. pending # {} /\ notified = Notice /\ NewerThan(pending)
  BY <1>1, Zenon DEF ChannelInv, IInv, PhaseFollowsLoop, Fresh
<1>3. inbox \subseteq Nat /\ Notice \in Nat
  BY <1>2, NoticeIsOldest, OrderAssumption, Zenon DEF ChannelInv, IInv, TypeOK
<1>4. ASSUME NEW m \in inbox PROVE notified <= m
  <2>1. CASE m \in pending
    BY <1>2, <2>1, NoticeIsOldest, Zenon
  <2>2. CASE m \notin pending
    <3>1. Notice < m
      BY <1>2, <2>2, NoticeIsOldest, Zenon DEF NewerThan
    <3> QED BY <1>2, <1>3, <3>1
  <2> QED BY <2>1, <2>2, Zenon
<1> QED BY <1>1, <1>4, Zenon DEF StillOldest

\* No step of the engine by itself passes over a wake that was not heard.
LEMMA EngineKeepsUnheard ==
  ASSUME IInv, Unheard, UNCHANGED channel,
         \/ \E m \in Message : Accept(m) \/ Acknowledge(m)
         \/ EngineStep \/ ObservePermanent \/ ObserveRetryable \/ Cancel
  PROVE  Unheard'
<1> USE DEF Unheard, environment, machine
<1>1. dropped' = dropped /\ notified' = notified
  BY Zenon DEF channel
<1>2. CASE \E m \in Message : Accept(m) \/ Acknowledge(m)
  BY <1>1, <1>2, Zenon DEF Accept, Deliver, Acknowledge
<1>3. CASE SeeCancelled \/ Stop \/ Cancel
  BY <1>1, <1>3, Zenon DEF SeeCancelled, Stop, Cancel
<1>4. CASE ObserveInbox \/ ObserveOk \/ ObserveAgain \/ WakeStarted \/ RetryDue
           \/ ObservePermanent \/ ObserveRetryable
  <2>1. phase \notin {"Running", "Blocked", "Stopped"} /\ inbox' = inbox /\ arrived' = arrived
    BY <1>4, Zenon DEF ObserveInbox, ObserveOk, ObserveAgain, WakeStarted, RetryDue,
       ObservePermanent, ObserveRetryable, IInv, PhaseFollowsLoop
  <2> QED BY <1>1, <2>1, Zenon
<1> QED BY <1>2, <1>3, <1>4, Zenon DEF EngineStep

\* Mail arrives and is acknowledged, the process goes from await to await.
LEMMA EngineKeepsChannel ==
  ASSUME ChannelInv, UNCHANGED channel, IInv',
         \/ \E m \in Message : Accept(m) \/ Acknowledge(m)
         \/ EngineStep \/ ObservePermanent \/ ObserveRetryable \/ Cancel
  PROVE  ChannelInv'
<1> USE DEF ChannelInv, Fresh, Claimed, NewerThan, Notice, environment, machine
<1>1. ChannelTypeOK' /\ Unheard'
  BY EngineKeepsUnheard, Zenon DEF channel, ChannelTypeOK
<1>2. /\ notified' = notified /\ working' = working /\ crashes' = crashes
      /\ inbox \subseteq arrived /\ arrived \subseteq Nat
  BY OrderAssumption, Zenon DEF channel, IInv, TypeOK
<1>3. ASSUME NEW m \in Message, Accept(m) PROVE Fresh' /\ (crashes = 0 => Claimed)'
  BY <1>2, <1>3, Zenon DEF Accept, Deliver
<1>4. ASSUME NEW m \in Message, Acknowledge(m) PROVE Fresh' /\ (crashes = 0 => Claimed)'
  BY <1>2, <1>4, Zenon DEF Acknowledge
<1>5. CASE ObserveInbox
  BY <1>1, <1>2, <1>5, Zenon DEF ObserveInbox
<1>6. CASE ObserveOk
  BY <1>1, <1>2, <1>6, Zenon DEF ObserveOk, Observe
<1>7. CASE ObserveAgain
  BY <1>1, <1>2, <1>7, Zenon DEF ObserveAgain
<1>8. CASE WakeStarted
  BY <1>1, <1>2, <1>8, Zenon DEF WakeStarted
<1>9. CASE RetryDue
  BY <1>1, <1>2, <1>9, Zenon DEF RetryDue
<1>10. CASE SeeCancelled
  BY <1>1, <1>2, <1>10, Zenon DEF SeeCancelled
<1>11. CASE Stop
  BY <1>1, <1>2, <1>11, Zenon DEF Stop
<1>12. CASE ObservePermanent
  BY <1>1, <1>2, <1>12, Zenon DEF ObservePermanent
<1>13. CASE ObserveRetryable
  BY <1>1, <1>2, <1>13, Zenon DEF ObserveRetryable
<1>14. CASE Cancel
  BY <1>1, <1>2, <1>14, Zenon DEF Cancel
<1> QED BY <1>1, <1>3, <1>4, <1>5, <1>6, <1>7, <1>8, <1>9, <1>10, <1>11, <1>12, <1>13, <1>14, Zenon
        DEF EngineStep

\* What Claude and its pipe do, and the looks a turn takes at the inbox.
LEMMA HostKeepsChannel ==
  ASSUME ChannelInv, IInv',
         \/ Connected \/ Settled \/ Disconnect \/ EndTurn
         \/ StartWithoutPeer \/ CheckAgain \/ OccupancyEnds \/ ReconcileFails
  PROVE  ChannelInv'
<1> USE CheckAssumption
    DEF ChannelInv, ChannelTypeOK, Fresh, Claimed, Unheard, NewerThan, Notice, vars, machine, environment
<1>1. CASE Connected \/ Settled \/ Disconnect \/ EndTurn
  BY <1>1 DEF Connected, Settled, Disconnect, EndTurn
<1>2. CASE StartWithoutPeer
  <2>1. UNCHANGED channel /\ loop = "Start" /\ loop' \in {"Exited", "Backoff"}
        /\ inbox' = inbox /\ arrived' = arrived /\ pending' = pending /\ observed' = observed
    BY <1>2, Zenon DEF StartWithoutPeer, StartFailed, WakeRetryableFailure
  <2>2. dropped \cap inbox = {}
    BY <2>1, Zenon DEF IInv, PhaseFollowsLoop
  <2> QED BY <2>1, <2>2, Zenon DEF channel
<1>3. CASE CheckAgain
  BY <1>3 DEF CheckAgain
<1>4. CASE OccupancyEnds \/ ReconcileFails
  BY <1>4 DEF OccupancyEnds, ReconcileFails, TurnFailed, WakePermanentFailure, channel
<1> QED BY <1>1, <1>2, <1>3, <1>4, Zenon

\* A notification is written, or the write fails.
LEMMA NotifyKeepsChannel ==
  ASSUME ChannelInv, IInv', Notify \/ NotifyFails
  PROVE  ChannelInv'
<1>1. loop = "Start" /\ pending # {}
  BY Zenon DEF Notify, NotifyFails, StartAccepted, StartFailed, ChannelInv, IInv, PhaseFollowsLoop
<1>2. Notice \in pending /\ Notice \in Message /\ Notice \in arrived
  BY <1>1, NoticeIsOldest, Zenon DEF ChannelInv, Fresh
<1>3. /\ pending' = pending /\ observed' = observed /\ inbox' = inbox /\ arrived' = arrived
      /\ peer' = peer /\ crashes' = crashes
  BY Zenon DEF Notify, NotifyFails, StartAccepted, StartFailed, environment
<1>4. /\ working \in SUBSET Message /\ working \subseteq arrived
      /\ dropped \in SUBSET Message /\ dropped \subseteq arrived
      /\ phase = "Waking" /\ dropped \cap inbox = {}
  BY <1>1, Zenon DEF ChannelInv, ChannelTypeOK, Fresh, Unheard, IInv, PhaseFollowsLoop
<1>5. working' \in {working, working \cup {Notice}} /\ dropped' \in {dropped, dropped \cup {Notice}}
  BY Zenon DEF Notify, NotifyFails, Heard
<1>9. dropped' \in SUBSET Message /\ dropped' \subseteq arrived' /\ dropped' \cap inbox' \subseteq {Notice}
  BY <1>2, <1>3, <1>4, <1>5, Zenon
<1>6. working' \in SUBSET Message /\ working' \subseteq arrived'
  BY <1>2, <1>3, <1>4, <1>5, Zenon
<1>7. CASE Notify
  <2>1. loop' = "Turn" /\ notified' = Notice /\ checks' = 0
    BY <1>1, <1>7, Zenon DEF Notify, StartAccepted, ChannelInv, IInv, PhaseFollowsLoop
  <2>2. ChannelTypeOK'
    BY <1>2, <1>3, <1>6, <1>9, <2>1, CheckAssumption DEF ChannelInv, ChannelTypeOK
  <2>3. Fresh'
    BY <1>1, <1>3, <1>6, <2>1, Zenon DEF ChannelInv, Fresh, NewerThan, Notice
  <2>4. (crashes = 0 => Claimed)'
    BY <1>1, <1>3, <1>5, <2>1, Zenon DEF ChannelInv, Claimed
  <2>5. Unheard'
    <3>1. phase' = "Running"
      BY <1>4, <1>7, Zenon DEF Notify, StartAccepted
    <3> QED BY <1>9, <2>1, <3>1, Zenon DEF Unheard
  <2> QED BY <2>2, <2>3, <2>4, <2>5, Zenon DEF ChannelInv
<1>8. CASE NotifyFails
  <2>1. loop' = "Exited" /\ notified' = notified /\ checks' = checks
    BY <1>8, Zenon DEF NotifyFails, StartFailed, WakePermanentFailure
  <2>2. ChannelTypeOK'
    BY <1>3, <1>6, <1>9, <2>1, Zenon DEF ChannelInv, ChannelTypeOK
  <2>3. Fresh' /\ (crashes = 0 => Claimed)'
    BY <1>3, <1>6, <2>1, Zenon DEF ChannelInv, Fresh, Claimed
  <2>4. Unheard'
    <3>1. phase' = "Blocked"
      BY <1>8, Zenon DEF NotifyFails, StartFailed, WakePermanentFailure
    <3> QED BY <1>9, <2>1, <3>1, Zenon DEF Unheard
  <2> QED BY <2>2, <2>3, <2>4, Zenon DEF ChannelInv
<1> QED BY <1>7, <1>8, Zenon

\* An acknowledged turn ends; a process is replaced by the next.
LEMMA TurnsKeepChannel ==
  ASSUME ChannelInv, IInv', Reconciled \/ AdapterRestarts
  PROVE  ChannelInv'
<1>1. CASE Reconciled
  <2>1. notified \notin inbox
    BY <1>1, ReconciledIsAcknowledged, Zenon
  <2>2. UNCHANGED channel /\ inbox' = inbox /\ arrived' = arrived /\ observed' = observed
        /\ loop = "Turn" /\ loop' = "Observe" /\ pending' = {}
    BY <1>1, Zenon DEF Reconciled, TurnCompleted, environment
  <2>3. Unheard'
    <3>1. dropped' \cap inbox' = {}
      BY <2>1, <2>2, Zenon DEF ChannelInv, Unheard, channel
    <3> QED BY <2>2, <3>1, Zenon DEF ChannelInv, Unheard, channel
  <2> QED BY <2>1, <2>2, <2>3, Zenon DEF ChannelInv, ChannelTypeOK, Fresh, Claimed, channel
<1>2. CASE AdapterRestarts
  <2>1. dropped' = {} /\ notified' \in Message \cup {NoMessage}
    BY <1>2, Zenon DEF AdapterRestarts
  <2> QED BY <1>2, <2>1, CrashAssumption, CheckAssumption
         DEF AdapterRestarts, ChannelInv, ChannelTypeOK, Fresh, Unheard
<1> QED BY <1>1, <1>2, Zenon

\* The host's inductive invariant.
LEMMA ChannelInvHolds == ChannelSpec => []ChannelInv
<1>1. ChannelInit => ChannelInv
  <2> SUFFICES ASSUME ChannelInit PROVE ChannelInv
    BY Zenon
  <2>1. IInv
    BY InitIsSound, Zenon DEF ChannelInit
  <2>2. ChannelTypeOK
    <3>1. dropped = {} /\ notified \in Message \cup {NoMessage}
      BY Zenon DEF ChannelInit
    <3> QED BY <3>1, CrashAssumption, CheckAssumption DEF ChannelInit, ChannelTypeOK
  <2> QED BY <2>1, <2>2, Zenon DEF ChannelInv, ChannelInit, Init, Fresh, Claimed, Unheard
<1>2. ChannelInv /\ [ChannelNext]_channelVars => ChannelInv'
  <2> SUFFICES ASSUME ChannelInv, [ChannelNext]_channelVars PROVE ChannelInv'
    BY Zenon
  <2>1. IInv'
    BY ChannelKeepsEngine, Zenon DEF ChannelInv
  <2>2. CASE UNCHANGED channelVars
    BY <2>1, <2>2, Zenon DEF channelVars, channel, vars, machine, ChannelInv, ChannelTypeOK, Fresh,
                      Claimed, Unheard, NewerThan, Notice
  <2> QED BY <2>1, <2>2, EngineKeepsChannel, HostKeepsChannel, NotifyKeepsChannel,
             TurnsKeepChannel, Zenon DEF ChannelNext, TurnStep
<1> QED BY <1>1, <1>2, PTL DEF ChannelSpec

\* Mail whose notification Claude did not hear, because its handler was not
\* registered yet or for any other reason, is never passed over: until it is
\* acknowledged the engine shows a turn or has given up visibly.
THEOREM DropsAreNeverForgotten == ChannelSpec => []DropsStayVisible
<1>1. ChannelInv => DropsStayVisible
  BY Zenon DEF ChannelInv, Unheard, DropsStayVisible
<1> QED BY <1>1, ChannelInvHolds, PTL

\* Under the Channel host, too, the engine is sound across restarts.
THEOREM ChannelEngineIsSound == ChannelSpec => []EngineInvariant
<1>1. ChannelInv => EngineInvariant
  BY Zenon DEF ChannelInv, IInv, EngineInvariant
<1> QED BY <1>1, ChannelInvHolds, PTL

\* A turn completes only with its message acknowledged, and a process wakes
\* Claude for no message it is still working on.
THEOREM ChannelAlwaysKeepsTurns == ChannelSpec => ChannelKeepsTurns
<1>1. ChannelInv /\ [ChannelNext]_channelVars => CompletesAcknowledged
  <2> SUFFICES ASSUME ChannelInv, [ChannelNext]_channelVars, completed' # completed
               PROVE  Reconciled
    BY ReconciledIsAcknowledged, Zenon DEF CompletesAcknowledged
  <2> QED
    BY Zenon DEF ChannelNext, channelVars, Accept, Connected, Settled, Disconnect,
           EndTurn, StartWithoutPeer, Notify, NotifyFails, TurnStep, CheckAgain,
           OccupancyEnds, ReconcileFails, AdapterRestarts, vars, EngineStep, ObserveInbox,
           ObserveOk, ObserveAgain, WakeStarted, RetryDue, SeeCancelled, Stop,
           ObservePermanent, ObserveRetryable, Cancel, Deliver, Acknowledge, StartAccepted,
           StartFailed, TurnFailed
<1>2. ChannelInv /\ [ChannelNext]_channelVars => WakesForNewMail
  <2> SUFFICES ASSUME ChannelInv, crashes = 0, loop = "Start" PROVE Notice \notin working
    BY Zenon DEF Accepted, WakesForNewMail
  <2>1. pending # {} /\ working \cap pending = {}
    BY Zenon DEF ChannelInv, IInv, PhaseFollowsLoop, Claimed
  <2> QED BY <2>1, NoticeIsOldest, Zenon
<1> QED BY <1>1, <1>2, ChannelInvHolds, PTL
        DEF ChannelSpec, ChannelKeepsTurns

-----------------------------------------------------------------------------
(* The status publisher and the controller.                                *)

\* The machine holds mail in the phases whose record must say so, also after
\* its loop was left.
PhaseMail ==
  /\ phase \in {"Quiet", "Stopped"} => pending = {}
  /\ phase \in {"Pending", "Waking", "Running", "Backoff"} => pending # {}

\* A live publisher's record is its own and at most one refresh old.
Kept ==
  publisher \in {"Idle", "Read"} =>
    record.owner = owner /\ elapsed \in 0..1

\* What a shutdown has reached: the engine's task is joined before the
\* publisher is stopped, and that before the last snapshot is written.
Ended ==
  /\ controller \in {"StatusStop", "MonitorStop", "Down", "DownBadly"} => phase = "Stopped"
  /\ controller \in {"MonitorStop", "Down"} => publisher \in {"Done", "Failed"}
  /\ controller = "Down" => publisher = "Done"
  /\ controller \in {"MonitorStop", "Down"} /\ publisher = "Done" =>
       record.owner = owner /\ record.of.phase = "Stopped"

\* The readings of the clocks.
Clock == elapsed \in Nat /\ age \in Int

\* The invariant of the engine with the status file.
StatusInv == IInv /\ PhaseMail /\ StatusTypeOK /\ Clock /\ Kept /\ Ended

\* The publisher and the controller only cancel the engine, or start another.
LEMMA StatusStepsAreEngineSteps ==
  ASSUME [StatusNext]_statusVars, ~Crash, ~Restart
  PROVE  [Next]_vars
  BY Zenon DEF StatusNext, statusVars, OwnStep, StartPublisher, StartUndone, PollSnapshot, PublishSeen,
         PublisherFailed, PublisherStops, Monitor, ActivationJoined, FinalPublished,
         MonitorJoined, StartPublisherFails, PublishSeenFails, FinalFails, Shutdown, Tick,
         SetClock, CancelActivation, Next

\* The engine's steps keep mail and phase together, and none leaves Stopped.
LEMMA EngineKeepsPhaseMail ==
  ASSUME IInv, PhaseMail, [Next]_vars
  PROVE  PhaseMail' /\ (phase = "Stopped" => phase' = "Stopped")
<1> USE DEF PhaseMail, IInv, PhaseFollowsLoop, environment, machine
<1>1. CASE \E m \in Message : Deliver(m) \/ Acknowledge(m)
  BY <1>1, Zenon DEF Deliver, Acknowledge
<1>2. CASE ObserveInbox \/ ObserveAgain \/ SeeCancelled \/ Stop \/ Cancel
  BY <1>2, Zenon DEF ObserveInbox, ObserveAgain, SeeCancelled, Stop, Cancel
<1>3. CASE ObserveOk \/ ObservePermanent \/ ObserveRetryable
  BY <1>3, Zenon DEF ObserveOk, Observe, ObservePermanent, ObserveRetryable, Blocked
<1>4. CASE WakeStarted \/ RetryDue
  BY <1>4, Zenon DEF WakeStarted, RetryDue, Blocked
<1>5. CASE StartAccepted \/ TurnCompleted \/ TurnFailed
  BY <1>5, Zenon DEF StartAccepted, TurnCompleted, TurnFailed, WakePermanentFailure, Blocked
<1>6. CASE \E outcome \in HostFailure : StartFailed(outcome)
  BY <1>6, Zenon DEF StartFailed, WakeRetryableFailure, WakePermanentFailure
<1>7. CASE UNCHANGED vars
  BY <1>7, Zenon DEF vars
<1> QED BY <1>1, <1>2, <1>3, <1>4, <1>5, <1>6, <1>7, Zenon DEF Next, EngineStep, HostStep

\* A snapshot is what the record's fields admit.
LEMMA SnapshotIsTyped ==
  ASSUME IInv
  PROVE  Snapshot \in SnapshotType
<1>1. phase \in Phase /\ retryAttempt \in 0..MaximumAttempts
  BY Zenon DEF IInv, TypeOK
<1>2. (pending # {}) \in BOOLEAN
  BY Zenon
<1> QED BY <1>1, <1>2, Zenon DEF Snapshot, SnapshotType

\* HarnessStatusRecord::validate accepts every snapshot of a sound engine.
LEMMA SnapshotIsValid ==
  ASSUME IInv, PhaseMail
  PROVE  Valid(Snapshot)
<1>1. Snapshot.phase = phase /\ Snapshot.retry = retryAttempt /\ (Snapshot.mail <=> pending # {})
  BY Zenon DEF Snapshot
<1>2. retryAttempt <= RetryLimit
  BY AttemptAssumption, PolicyAssumption DEF IInv, TypeOK
<1> QED BY <1>1, <1>2, Zenon DEF Valid, PhaseMail

\* What a status record holds.
RecordType == [owner : 0..MaxOwners, of : SnapshotType]

\* A publication replaces the record by one of this process and this moment.
LEMMA PublishedRecord ==
  ASSUME StatusTypeOK, Clock, NEW s \in SnapshotType, Publish(s)
  PROVE  record' \in RecordType /\ record'.owner = owner /\ record'.of = s /\ age' \in Int
<1>1. owner \in 0..MaxOwners
  BY StatusBounds DEF StatusTypeOK
<1>2. record' = [owner |-> owner, of |-> s]
  BY Zenon DEF Publish
<1>3. age' \in Int
  BY DEF Publish
<1> QED BY <1>3, <1>1, <1>2, Zenon DEF RecordType

\* What the controller, the publisher, the monitor and the clock do.
LEMMA StatusStepKeeps ==
  ASSUME StatusInv, [StatusNext]_statusVars, ~Crash, ~Restart,
         phase = "Stopped" => phase' = "Stopped"
  PROVE  StatusTypeOK' /\ Clock' /\ Kept' /\ Ended'
<1> USE DEF Kept, Ended
<1>1. Snapshot \in SnapshotType /\ seen \in SnapshotType
  BY SnapshotIsTyped, Zenon DEF StatusInv, StatusTypeOK
<1>2. Clock /\ StatusTypeOK /\ Kept /\ Ended
  BY Zenon DEF StatusInv
<1>3. CASE UNCHANGED status
  BY <1>2, <1>3, Zenon DEF status, StatusTypeOK, Clock
<1>4. CASE StartPublisher
  <2>1. Publish(Snapshot)
    BY <1>4, Zenon DEF StartPublisher
  <2>2. record' \in RecordType /\ record'.owner = owner /\ age' \in Int
    BY <1>1, <1>2, <2>1, PublishedRecord, Zenon
  <2>3. 0 \in 0..1 /\ 0 \in Nat
    OBVIOUS
  <2>4. StatusTypeOK'
    BY <1>1, <1>2, <1>4, <2>2, Zenon DEF StartPublisher, StatusTypeOK, RecordType
  <2> QED BY <1>4, <2>2, <2>3, <2>4, Zenon DEF StartPublisher, Clock
<1>5. CASE PublishSeen
  <2>1. Publish(seen)
    BY <1>5, Zenon DEF PublishSeen
  <2>2. record' \in RecordType /\ record'.owner = owner /\ age' \in Int
    BY <1>1, <1>2, <2>1, PublishedRecord, Zenon
  <2>3. 0 \in 0..1 /\ 0 \in Nat
    OBVIOUS
  <2>4. StatusTypeOK'
    BY <1>1, <1>2, <1>5, <2>2, Zenon DEF PublishSeen, StatusTypeOK, RecordType
  <2> QED BY <1>2, <1>5, <2>2, <2>3, <2>4, Zenon DEF PublishSeen, Clock
<1>6. CASE FinalPublished
  <2>1. Publish(Snapshot) /\ phase = "Stopped"
    BY <1>2, <1>6, Zenon DEF FinalPublished
  <2>2. record' \in RecordType /\ record'.owner = owner /\ record'.of.phase = "Stopped" /\ age' \in Int
    BY <1>1, <1>2, <2>1, PublishedRecord DEF Snapshot
  <2>3. StatusTypeOK'
    BY <1>2, <1>6, <2>2, Zenon DEF FinalPublished, StatusTypeOK, RecordType
  <2> QED BY <1>2, <1>6, <2>1, <2>2, <2>3, Zenon DEF FinalPublished, Clock
<1>7. CASE PollSnapshot
  BY <1>1, <1>2, <1>7, Zenon DEF PollSnapshot, StatusTypeOK, Clock
<1>8. CASE StartUndone \/ PublisherFailed \/ PublisherStops \/ Monitor
  BY <1>2, <1>8, Zenon DEF StartUndone, PublisherFailed, PublisherStops, Monitor, stopSent,
                    StatusTypeOK, Clock
<1>9. CASE ActivationJoined \/ MonitorJoined
  BY <1>2, <1>9, Zenon DEF ActivationJoined, MonitorJoined, StatusTypeOK, Clock, vars, machine
<1>10. CASE StartPublisherFails \/ PublishSeenFails \/ FinalFails \/ Shutdown
  BY <1>2, <1>10, Zenon DEF StartPublisherFails, PublishSeenFails, FinalFails, Shutdown, PublishFails,
                     StatusTypeOK, Clock
<1>11. CASE Tick
  <2>1. publisher \notin {"Idle", "Read"} \/ elapsed = 0
    BY <1>2, <1>11 DEF Tick, Due, Clock
  <2>2. Clock' /\ (elapsed = 0 => elapsed' \in 0..1)
    BY <1>2, <1>11 DEF Tick, Clock
  <2> QED BY <1>2, <1>11, <2>1, <2>2, Zenon DEF Tick, StatusTypeOK
<1>12. CASE SetClock
  <2>1. age' \in Int
    BY <1>12, StatusBounds, Zenon DEF SetClock
  <2> QED BY <1>2, <1>12, <2>1, Zenon DEF SetClock, StatusTypeOK, Clock
<1>13. CASE UNCHANGED statusVars
  BY <1>3, <1>13, Zenon DEF statusVars
<1> QED BY <1>3, <1>4, <1>5, <1>6, <1>7, <1>8, <1>9, <1>10, <1>11, <1>12, <1>13, Zenon
        DEF StatusNext, OwnStep

\* A process dies; the next one starts on the record and the inbox of the last.
LEMMA RestartKeeps ==
  ASSUME StatusInv, Crash \/ Restart
  PROVE  StatusInv'
<1>1. FreshMemory /\ UNCHANGED <<inbox, arrived, record, age>>
  BY Zenon DEF Crash, Restart
<1>2. IInv'
  <2>1. completed' \in 0..MaxTurns /\ arrived' \in SUBSET Message /\ inbox' \in SUBSET arrived'
    BY <1>1, TurnAssumption DEF FreshMemory, StatusInv, IInv, TypeOK
  <2> QED BY <1>1, <2>1, NewEngineIsSound, Zenon DEF FreshMemory
<1>3. NoSnapshot \in SnapshotType
  BY AttemptAssumption DEF NoSnapshot, SnapshotType
<1>4. owner' \in 1..MaxOwners /\ controller' \in {"Starting", "Dead"}
  BY StatusBounds DEF Crash, Restart, StatusInv, StatusTypeOK
<1>5. StatusTypeOK'
  BY <1>1, <1>3, <1>4, Zenon DEF FreshMemory, StatusInv, StatusTypeOK
<1>6. Clock'
  BY <1>1 DEF FreshMemory, StatusInv, Clock
<1> QED BY <1>1, <1>2, <1>4, <1>5, <1>6, Zenon DEF FreshMemory, StatusInv, PhaseMail, Kept, Ended

\* The publisher's inductive invariant.
LEMMA StatusInvHolds == StatusSpec => []StatusInv
<1>1. StatusInit => StatusInv
  <2> SUFFICES ASSUME StatusInit PROVE StatusInv
    BY Zenon
  <2>1. IInv
    BY InitIsSound, Zenon DEF StatusInit
  <2>2. NoSnapshot \in SnapshotType
    BY AttemptAssumption DEF NoSnapshot, SnapshotType
  <2>3. StatusTypeOK
    BY <2>2, StatusBounds DEF StatusInit, StatusTypeOK
  <2> QED BY <2>1, <2>3, StatusBounds
         DEF StatusInit, Init, StatusInv, PhaseMail, Clock, Kept, Ended
<1>2. StatusInv /\ [StatusNext]_statusVars => StatusInv'
  <2> SUFFICES ASSUME StatusInv, [StatusNext]_statusVars, ~Crash, ~Restart PROVE StatusInv'
    BY RestartKeeps, Zenon
  <2>1. IInv' /\ PhaseMail' /\ (phase = "Stopped" => phase' = "Stopped")
    BY StatusStepsAreEngineSteps, StepKeeps, EngineKeepsPhaseMail, Zenon DEF StatusInv
  <2> QED BY <2>1, StatusStepKeeps, Zenon DEF StatusInv
<1> QED BY <1>1, <1>2, PTL DEF StatusSpec

\* A snapshot is always publishable, a stop that reported no failure is on
\* disk, and a live harness is shown as its own process's, and as stale only
\* after a setting of the wall clock beyond the two tolerances.
THEOREM StatusIsAlwaysTrue == StatusSpec => []StatusInvariant
<1>1. StatusInv => StatusInvariant
  <2> SUFFICES ASSUME StatusInv PROVE StatusInvariant
    BY Zenon
  <2>1. StatusTypeOK /\ SnapshotIsPublishable
    BY SnapshotIsValid, Zenon DEF StatusInv, SnapshotIsPublishable
  <2>2. StopIsRecorded /\ OwnerIsRecorded
    BY Zenon DEF StatusInv, Ended, Kept, StopIsRecorded, OwnerIsRecorded
  <2>3. LiveIsNotStale
    BY StaleAssumption DEF StatusInv, Kept, Clock, LiveIsNotStale, View, Jump
  <2> QED BY <2>1, <2>2, <2>3, Zenon DEF StatusInvariant
<1> QED BY <1>1, StatusInvHolds, PTL

\* Restarts, crashes and shutdowns at any moment leave the engine sound.
THEOREM StatusEngineIsSound == StatusSpec => []EngineInvariant
<1>1. StatusInv => EngineInvariant
  BY Zenon DEF StatusInv, IInv, EngineInvariant
<1> QED BY <1>1, StatusInvHolds, PTL
=============================================================================
