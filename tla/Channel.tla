------------------------------ MODULE Channel ------------------------------
(***************************************************************************)
(* The Claude Channel host of psst-mcp (claude_channel.rs) composed with   *)
(* the activation engine it is the host of: the peer a wake notification   *)
(* is written to, the settle window before the first one, and the turn     *)
(* that is occupied until the relay shows the notified message is gone.    *)
(*                                                                         *)
(* Every step of the engine is a step of module Activation.  External:     *)
(* Claude, whose turns the adapter cannot see, and which acknowledges mail *)
(* through the adapter's tools one message at a time.                      *)
(***************************************************************************)
EXTENDS Activation

CONSTANTS MaxChecks,   \* MAX_TURN_OCCUPANCY / TURN_RECONCILE_INTERVAL
          MaxCrashes   \* bound: crashes of the adapter's process

ASSUME CheckAssumption == MaxChecks \in Nat \ {0}
ASSUME CrashAssumption == MaxCrashes \in Nat
ASSUME OrderAssumption == Message \subseteq Nat  \* in the order of acceptance

VARIABLES
  peer,        \* ClaudeChannelHost.peer: none, in its settle window, usable, gone
  notified,    \* ClaudeChannelTurn.notified_oldest
  checks,      \* reconciliations of the turn so far
  working,     \* the notifications Claude's running turn was woken by
  dropped,     \* the notifications of this process that Claude has not heard
  crashes

channel == <<peer, notified, checks, working, dropped, crashes>>
channelVars == <<vars, channel>>

NoMessage == -1

Oldest(mail) == CHOOSE m \in mail : \A n \in mail : m <= n

ChannelInit ==
  /\ Init
  /\ peer = "None"
  /\ notified = NoMessage
  /\ checks = 0
  /\ working = {}
  /\ dropped = {}
  /\ crashes = 0

-----------------------------------------------------------------------------
(* Claude, and the relay's numbering of mail *)

Accept(m) == (\A n \in arrived : n < m) /\ Deliver(m)

\* MCP initialization: the peer is known, and usable after the window.
Connected ==
  /\ peer = "None"
  /\ peer' = "Settling"
  /\ UNCHANGED <<vars, notified, checks, working, dropped, crashes>>

\* The window is over: await_channel_registration returns.  It is a sleep, and
\* tells nothing of whether Claude has registered its handler by now.
Settled ==
  /\ peer = "Settling"
  /\ peer' = "Ready"
  /\ UNCHANGED <<vars, notified, checks, working, dropped, crashes>>

\* The client's end of the pipe fails.
Disconnect ==
  /\ peer \in {"Settling", "Ready"}
  /\ peer' = "Gone"
  /\ UNCHANGED <<vars, notified, checks, working, dropped, crashes>>

\* Claude ends its turn, whatever it acknowledged.
EndTurn ==
  /\ working # {}
  /\ working' = {}
  /\ UNCHANGED <<vars, peer, notified, checks, dropped, crashes>>

-----------------------------------------------------------------------------
(* ClaudeChannelHost::start *)

\* No peer yet: nothing was sent.
StartWithoutPeer ==
  /\ peer = "None"
  /\ StartFailed("RetryableBeforeStart")
  /\ UNCHANGED channel

\* channel_params, of which only the oldest message identifies the wake.
Notice == Oldest(pending)

\* Claude hears the notification or drops it, by policy or because its handler
\* is not registered yet: the adapter sees no difference.
Heard ==
  \/ working' = working \cup {Notice} /\ UNCHANGED dropped
  \/ dropped' = dropped \cup {Notice} /\ UNCHANGED working

Notify ==
  /\ peer = "Ready"
  /\ StartAccepted
  /\ notified' = Notice
  /\ checks' = 0
  /\ Heard
  /\ UNCHANGED <<peer, crashes>>

\* The write failed: unless it is gone, Claude may have read it all the same.
NotifyFails ==
  /\ StartFailed("OutcomeUnknown")
  /\ \/ peer = "Ready" /\ Heard
     \/ peer = "Gone" /\ UNCHANGED <<working, dropped>>
  /\ UNCHANGED <<peer, notified, checks, crashes>>

-----------------------------------------------------------------------------
(* ClaudeChannelTurn::completed, await_turn_completion *)

\* What a page of the inbox is asked.
StillOldest == notified \in inbox /\ \A m \in inbox : notified <= m

\* Faulty: any change of the inbox ends the turn.
ChangedEndsTurn ==
  /\ checks < MaxChecks
  /\ inbox # pending
  /\ TurnCompleted
  /\ UNCHANGED channel

\* The inbox page shows the notified message is no longer the oldest.
Reconciled ==
  /\ checks < MaxChecks
  /\ ~StillOldest
  /\ TurnCompleted
  /\ UNCHANGED channel

\* It is still there: another look after TURN_RECONCILE_INTERVAL.
CheckAgain ==
  /\ loop = "Turn"
  /\ ~cancelled
  /\ checks < MaxChecks
  /\ StillOldest
  /\ checks' = checks + 1
  /\ UNCHANGED <<vars, peer, notified, working, dropped, crashes>>

\* Faulty: the deadline ends the turn as an acknowledgement does.
OccupancyCompletes ==
  /\ checks = MaxChecks
  /\ TurnCompleted
  /\ UNCHANGED channel

\* The deadline has passed.
OccupancyEnds ==
  /\ checks = MaxChecks
  /\ TurnFailed
  /\ UNCHANGED channel

ReconcileFails ==
  /\ checks < MaxChecks
  /\ TurnFailed
  /\ UNCHANGED channel

-----------------------------------------------------------------------------
(* The process *)

\* The adapter's process dies and Claude starts another: the inbox is the
\* relay's and Claude's turn is Claude's, the rest begins anew.
AdapterRestarts ==
  /\ crashes < MaxCrashes
  /\ crashes' = crashes + 1
  /\ phase' = "Quiet" /\ pending' = {} /\ retryAttempt' = 0
  /\ failures' = 0 /\ loop' = "Observe" /\ observed' = {} /\ cancelled' = FALSE
  /\ turns' = 0 /\ issued' = 0 /\ basis' = "Retained"
  /\ peer' = "None" /\ dropped' = {}
  /\ notified' = NoMessage /\ checks' = 0
  /\ UNCHANGED <<inbox, arrived, completed, working>>

-----------------------------------------------------------------------------

\* The turn's timers and polls.
TurnStep == Reconciled \/ CheckAgain \/ OccupancyEnds

ChannelNext ==
  \/ /\ \/ \E m \in Message : Accept(m) \/ Acknowledge(m)
        \/ EngineStep
        \/ ObservePermanent
        \/ ObserveRetryable
        \/ Cancel
     /\ UNCHANGED channel
  \/ Connected
  \/ Settled
  \/ Disconnect
  \/ EndTurn
  \/ StartWithoutPeer
  \/ Notify
  \/ NotifyFails
  \/ TurnStep
  \/ ReconcileFails
  \/ AdapterRestarts

ChannelSpec == ChannelInit /\ [][ChannelNext]_channelVars

\* The adapter's tasks are scheduled and its timers fire.  Nothing is assumed
\* of Claude, of the relay's answers or of the agent.
ChannelFairSpec ==
  /\ ChannelSpec
  /\ WF_channelVars(EngineStep /\ UNCHANGED channel)
  /\ WF_channelVars(TurnStep)

-----------------------------------------------------------------------------
(* Properties *)

\* Types of the host's variables.
ChannelTypeOK ==
  /\ peer \in {"None", "Settling", "Ready", "Gone"}
  /\ notified \in Message \cup {NoMessage}
  /\ checks \in 0..MaxChecks
  /\ working \in SUBSET Message
  /\ dropped \in SUBSET Message
  /\ crashes \in 0..MaxCrashes

Accepted == loop = "Start" /\ loop' = "Turn"

\* "A silent drop, disconnect, or unconsumed wake eventually blocks activation":
\* a wake Claude has not heard is not taken for a delivered one.  While its
\* message is unacknowledged the engine shows a turn or has given up visibly; it
\* is never quiet again over the message, and wakes for nothing newer.
DropsStayVisible ==
  dropped \cap inbox # {} => phase \in {"Running", "Blocked", "Stopped"}

\* "Psst keeps the turn occupied until relay truth shows that the notified
\* oldest message was acknowledged": a turn that completes leaves no notified
\* message behind, whatever else arrived or was acknowledged meanwhile.
CompletesAcknowledged == completed' # completed => notified \notin inbox

\* A process never writes a notification for mail that Claude is still working
\* on: after a failed write, after a dropped wake, while a turn is under way.
\* (Only its successor, which knows nothing of that turn, may.)
WakesForNewMail == crashes = 0 /\ Accepted => Notice \notin working

\* A turn ends with its message acknowledged, and no wake repeats one Claude
\* is at (ClaudeChannelHost::start, await_turn_completion).
ChannelKeepsTurns == [][CompletesAcknowledged /\ WakesForNewMail]_channelVars

\* "A silent drop, disconnect, or unconsumed wake eventually blocks
\* activation": no turn is occupied for ever, even if nothing is acknowledged.
OccupancyIsBounded == loop = "Turn" ~> loop # "Turn"

\* "One profile has at most one outstanding wake; active turns are never
\* interrupted for ordinary mail": Claude is notified only between its turns.
TurnsAreNotInterrupted == [][Accepted => working = {}]_channelVars
=============================================================================
