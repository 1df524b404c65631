----------------------------- MODULE MCHarness -----------------------------
(***************************************************************************)
(* The harnesses: the activation engine with any host ("engine"), with the *)
(* Claude Channel host ("channel") and with its publisher and controller   *)
(* ("status"), the MCP adapter's runtime slot with calls in parallel       *)
(* ("adapter") and one after the other ("serial"), and its stdio boundary  *)
(* ("pump").  A behaviour is a behaviour of the one that part names.       *)
(***************************************************************************)
EXTENDS Channel, Status, TLC

CONSTANTS Parts,
          StatusMail,     \* the mail of "status"
          Call, OneCall, Tools, Runtime, None,
          InputBytes, MaxReplies

VARIABLES part,
          slot, session, bound, channelA, mutex, pc, tool, failed, mine, answer,
          input, stdin, closed, inbound, toSdk, sdkSeen, service, fromSdk, sent, outbound,
          stdout, main, result

adapterVars == <<slot, session, bound, channelA, mutex, pc, tool, failed, mine, answer>>
stdioVars == <<input, stdin, closed, inbound, toSdk, sdkSeen, service, fromSdk, sent, outbound,
               stdout, main, result>>
harnessVars == <<vars, channel, status>>

A == INSTANCE Adapter WITH channel <- channelA
Serial == INSTANCE Adapter WITH channel <- channelA, Call <- {OneCall}

\* The wall clock is set back or forward, within the tolerance and beyond it.
Ages == {-1, 1}

\* Every stream up to InputBytes: empty, exact, oversized, unterminated, ...,
\* with frames of at most two bytes, newline included.
P == INSTANCE Pump WITH
  MaxLine <- 2, PipeFrames <- 1, PipeBytes <- 3, seen <- sdkSeen,
  Inputs <- UNION {[1 .. n -> {"b", "n"}] : n \in 0 .. InputBytes}

ASSUME A!ToolsAssumption /\ A!NoneAssumption /\ Serial!NoneAssumption

MCInit ==
  /\ part \in Parts
  /\ ChannelInit /\ StatusInit
  /\ IF part = "serial" THEN Serial!Init ELSE A!Init
  /\ part \notin {"adapter", "serial"} => ~bound
  /\ P!PumpInit /\ (part # "pump" => input = <<>>)

MCNext ==
  \/ part = "engine" /\ Next /\ UNCHANGED <<part, channel, status, adapterVars, stdioVars>>
  \/ part = "channel" /\ ChannelNext /\ UNCHANGED <<part, status, adapterVars, stdioVars>>
  \/ /\ part = "status" /\ StatusNext /\ arrived' \subseteq StatusMail
     /\ UNCHANGED <<part, channel, adapterVars, stdioVars>>
  \/ part = "adapter" /\ A!Next /\ UNCHANGED <<part, harnessVars, stdioVars>>
  \/ part = "serial" /\ Serial!Next /\ UNCHANGED <<part, harnessVars, stdioVars>>
  \/ part = "pump" /\ P!PumpNext /\ UNCHANGED <<part, harnessVars, adapterVars>>

MCSpec == MCInit /\ [][MCNext]_<<part, harnessVars, adapterVars, stdioVars>>

\* The fairness of each part; what is not restated is disabled where another
\* part runs.
MCFairSpec ==
  /\ MCSpec
  /\ WF_vars(part = "engine" /\ EngineStep)
  /\ WF_channelVars(part = "channel" /\ EngineStep /\ UNCHANGED channel)
  /\ WF_channelVars(part = "channel" /\ TurnStep)
  /\ WF_statusVars(part = "status" /\ Alive /\ EngineStep /\ UNCHANGED status)
  /\ StatusFairness
  /\ A!Fairness
  /\ P!PumpFairness
  /\ WF_stdioVars(part = "pump" /\ P!Serve)

Symmetry == Permutations(Call) \cup Permutations(Runtime)

\* A transition of the adapter's slot has one owner, and no running session is
\* lost (RuntimeSlot).  With one call at a time the channel and the slot agree:
\* a session that is being left is not observed, and the channel does not come
\* back to one that was left or may have been (stop_channel,
\* ensure_channel_started).  The frames the SDK gets are the host's lines; a
\* clean end means that all it wrote is on stdout and nothing runs on
\* (pump_lines, serve_protocol).
AdapterIsOrderly ==
  /\ part = "adapter" => A!AdapterInvariant
  /\ part = "serial" => Serial!AdapterInvariant /\ Serial!SerialInvariant
  /\ part = "pump" => P!PumpInvariant

\* Mail is acted on, whatever the host does; a Channel turn is not occupied for
\* ever, also when Claude drops the wake (await_channel_completion); a blocked
\* engine is announced and a shutdown of the controller ends.
HarnessSettles ==
  /\ part = "engine" => MailIsActedOn
  /\ part = "channel" /\ loop = "Turn" ~> loop # "Turn"
  /\ BlockedIsAnnounced /\ ShutdownEnds

\* A transition of the slot and the adapter's shutdown end; when stdin is
\* closed the process comes to its end (run_server, serve_protocol).
AdapterSettles == A!TransitionEnds /\ A!ShutdownEnds /\ P!EndsAfterEof
=============================================================================
